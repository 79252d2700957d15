---------------------------- MODULE MediaProofs ----------------------------
(***************************************************************************)
(* The parts between game and client, for any values of their constants:   *)
(* the gates of the streams stay shut until the client's StartB, no        *)
(* counter of the packetizer is used twice with one key, the control loop  *)
(* leaves no client with an old HDR state, the audio server forgets        *)
(* neither a reply nor an edge, and the layer's enumerations are exact.    *)
(***************************************************************************)
EXTENDS SessionStreams, Packetizer, Control, PulseStream, PulseServer, WsiLayer, ListLemmas, TLAPS

-----------------------------------------------------------------------------
(* The gates of the streams.                                               *)

\* What keeps a gate shut: a stored permit, a notified waiter, or a task past
\* the gate all come from a StartB.  A producer that ended may have been
\* cancelled at the gate and says nothing.
Opened(s) ==
    \/ permit[s]
    \/ handler[s] \notin {"spawned", "waiting"}
    \/ producer[s] \notin {"spawned", "waiting", "ended"}

GateInv == \A s \in Stream : Opened(s) => startB > 0

\* A step of the streams preserves the types of all variables.
LEMMA TypeStep == ASSUME TypeOK, [Next]_vars PROVE TypeOK'
<1> USE ConstantsAssumption DEF ConstantsAssumption, TypeOK, Stream, HandlerState, ProducerState
<1>1. ASSUME UNCHANGED vars PROVE TypeOK'
  BY <1>1 DEF vars, gateVars, dataVars, ctlVars
<1>2. ASSUME ControlStarts PROVE TypeOK'
  BY <1>2 DEF ControlStarts, gateVars, dataVars
<1>3. ASSUME NEW s \in Stream, HandlerAtGate(s) PROVE TypeOK'
  BY <1>3 DEF HandlerAtGate, dataVars, ctlVars
<1>4. ASSUME NEW s \in Stream, ProducerAtGate(s) PROVE TypeOK'
  BY <1>4 DEF ProducerAtGate, dataVars, ctlVars
<1>5. ASSUME NEW s \in Stream, HandlerProceeds(s) PROVE TypeOK'
  <2>1. CASE HandlerRuns(s)
    BY <2>1 DEF HandlerRuns, dataVars, ctlVars
  <2>2. CASE HandlerReceives(s)
    BY <2>2 DEF HandlerReceives, gateVars, ctlVars
  <2>3. CASE HandlerStops(s)
    BY <2>3 DEF HandlerStops, dataVars, ctlVars
  <2>4. CASE HandlerDropsSocket(s)
    BY <2>4 DEF HandlerDropsSocket, ctlVars
  <2> QED BY <1>5, <2>1, <2>2, <2>3, <2>4 DEF HandlerProceeds
<1>6. ASSUME NEW s \in Stream, ProducerProceeds(s) PROVE TypeOK'
  <2>1. CASE ProducerRuns(s)
    BY <2>1 DEF ProducerRuns, dataVars, ctlVars
  <2>2. CASE ProducerCancelled(s)
    BY <2>2 DEF ProducerCancelled, dataVars, ctlVars
  <2>3. CASE ProducerLoops(s)
    BY <2>3 DEF ProducerLoops, ProducerGoes, dataVars, ctlVars
  <2>4. CASE ProducerReceives(s)
    BY <2>4 DEF ProducerReceives, ProducerGoes, ctlVars
  <2>5. CASE ProducerFindsNoFrame(s)
    BY <2>5 DEF ProducerFindsNoFrame, ProducerGoes, dataVars, ctlVars
  <2>6. CASE ProducerSends(s)
    BY <2>6 DEF ProducerSends, ProducerGoes, ctlVars
  <2>7. CASE ProducerSendFails(s)
    BY <2>7 DEF ProducerSendFails, ProducerGoes, dataVars, ctlVars
  <2> QED BY <1>6, <2>1, <2>2, <2>3, <2>4, <2>5, <2>6, <2>7 DEF ProducerProceeds
<1>7. ASSUME NEW s \in Stream, SourceProduces(s) PROVE TypeOK'
  BY <1>7 DEF SourceProduces, gateVars, ctlVars
<1>8. ASSUME NEW s \in Stream, SourceEnds(s) PROVE TypeOK'
  BY <1>8 DEF SourceEnds, gateVars, ctlVars
<1>9. ASSUME StartB PROVE TypeOK'
  BY <1>9 DEF StartB, NotifyTwice, dataVars
<1>10. ASSUME ControlProceeds PROVE TypeOK'
  BY <1>10 DEF ControlProceeds, ControlDropsHost, ControlEnds, gateVars, dataVars
<1>11. ASSUME ResumeLocks \/ ResumeReturns \/ StopSession PROVE TypeOK'
  BY <1>11 DEF ResumeLocks, ResumeReturns, StopSession, gateVars, dataVars, ctlVars
<1> QED BY <1>1, <1>2, <1>3, <1>4, <1>5, <1>6, <1>7, <1>8, <1>9, <1>10, <1>11 DEF Next

\* The state variables of the streams and the control loop keep their types,
\* and the packet and frame channels never hold more than their capacity.
THEOREM TypeCorrect == Safe => []TypeOK
<1>1. Init => TypeOK
  <2> SUFFICES ASSUME Init PROVE TypeOK
    OBVIOUS
  <2>1. permit \in [Stream -> BOOLEAN] /\ source \in [Stream -> BOOLEAN]
    BY Zenon DEF Init
  <2>2. handler \in [Stream -> HandlerState] /\ producer \in [Stream -> ProducerState]
    BY DEF Init, HandlerState, ProducerState
  <2>3. chan \in [Stream -> 0..Capacity] /\ frames \in [Stream -> 0..Frames]
        /\ startB \in 0..MaxStartB
    BY ConstantsAssumption DEF ConstantsAssumption, Init
  <2> QED BY <2>1, <2>2, <2>3 DEF Init, TypeOK
<1>2. TypeOK /\ [Next]_vars => TypeOK'
  BY TypeStep
<1> QED BY <1>1, <1>2, PTL DEF Safe

\* No step opens a gate but a StartB.
LEMMA GateStep == ASSUME TypeOK, GateInv, [Next]_vars PROVE GateInv'
<1> USE DEF TypeOK, GateInv, Opened, HandlerState, ProducerState
<1>1. ASSUME UNCHANGED vars PROVE GateInv'
  BY <1>1 DEF vars, gateVars, dataVars, ctlVars
<1>2. ASSUME ControlStarts PROVE GateInv'
  BY <1>2 DEF ControlStarts, gateVars, dataVars
<1>3. ASSUME NEW s \in Stream, HandlerAtGate(s) PROVE GateInv'
  BY <1>3 DEF HandlerAtGate, dataVars, ctlVars
<1>4. ASSUME NEW s \in Stream, ProducerAtGate(s) PROVE GateInv'
  BY <1>4 DEF ProducerAtGate, dataVars, ctlVars
<1>5. ASSUME NEW s \in Stream, HandlerProceeds(s) PROVE GateInv'
  BY <1>5 DEF HandlerProceeds, HandlerRuns, HandlerReceives, HandlerStops,
              HandlerDropsSocket, gateVars, dataVars, ctlVars
<1>6. ASSUME NEW s \in Stream, ProducerProceeds(s) PROVE GateInv'
  <2>1. CASE ProducerRuns(s)
    BY <2>1 DEF ProducerRuns, dataVars, ctlVars
  <2>2. CASE ProducerCancelled(s)
    BY <2>2 DEF ProducerCancelled, dataVars, ctlVars
  <2>3. CASE ProducerLoops(s)
    BY <2>3 DEF ProducerLoops, ProducerGoes, dataVars, ctlVars
  <2>4. CASE ProducerReceives(s)
    BY <2>4 DEF ProducerReceives, ProducerGoes, ctlVars
  <2>5. CASE ProducerFindsNoFrame(s)
    BY <2>5 DEF ProducerFindsNoFrame, ProducerGoes, dataVars, ctlVars
  <2>6. CASE ProducerSends(s)
    BY <2>6 DEF ProducerSends, ProducerGoes, ctlVars
  <2>7. CASE ProducerSendFails(s)
    BY <2>7 DEF ProducerSendFails, ProducerGoes, dataVars, ctlVars
  <2> QED BY <1>6, <2>1, <2>2, <2>3, <2>4, <2>5, <2>6, <2>7 DEF ProducerProceeds
<1>7. ASSUME NEW s \in Stream, SourceProduces(s) \/ SourceEnds(s) PROVE GateInv'
  BY <1>7 DEF SourceProduces, SourceEnds, gateVars, ctlVars
<1>8. ASSUME StartB PROVE GateInv'
  BY <1>8 DEF StartB
<1>9. ASSUME ControlProceeds PROVE GateInv'
  BY <1>9 DEF ControlProceeds, ControlDropsHost, ControlEnds, gateVars, dataVars
<1>10. ASSUME ResumeLocks \/ ResumeReturns \/ StopSession PROVE GateInv'
  BY <1>10 DEF ResumeLocks, ResumeReturns, StopSession, gateVars, dataVars, ctlVars
<1> QED BY <1>1, <1>2, <1>3, <1>4, <1>5, <1>6, <1>7, <1>8, <1>9, <1>10 DEF Next

\* The packet handlers and encoders of a session do nothing before its client
\* has sent StartB, however late they are polled and whenever it is stopped.
THEOREM GatesShut == Safe => []GatedUntilStartB
<1>1. Init => GateInv
  BY DEF Init, GateInv, Opened
<1>2. TypeOK /\ GateInv /\ [Next]_vars => GateInv'
  BY GateStep
<1>3. GateInv => GatedUntilStartB
  BY DEF GateInv, Opened, GatedUntilStartB
<1> QED BY <1>1, <1>2, <1>3, TypeCorrect, PTL DEF Safe

\* The control loop drops the ENet host before its tokens, and while it has not run
\* nothing has triggered a stop, unless it may be polled late.
PortInv ==
    /\ ctl \in {"exiting", "ended"} => ~ctlHost
    /\ ctl = "spawned" => ~stop

LEMMA PortStep ==
    ASSUME "late" \notin Disruptions, PortInv, [Next]_vars
    PROVE  PortInv'
<1> USE DEF PortInv
<1>1. CASE UNCHANGED vars
  BY <1>1 DEF vars, gateVars, dataVars, ctlVars
<1>2. CASE ControlStarts
  BY <1>2 DEF ControlStarts, gateVars, dataVars
<1>3. ASSUME NEW s \in Stream, HandlerAtGate(s) \/ ProducerAtGate(s) PROVE PortInv'
  BY <1>3 DEF HandlerAtGate, ProducerAtGate, dataVars, ctlVars
<1>4. CASE Prompt /\ UNCHANGED <<ctl, ctlHost>>
  BY <1>4 DEF Prompt
<1>5. CASE Prompt /\ ControlProceeds
  BY <1>5 DEF Prompt, ControlProceeds, ControlDropsHost, ControlEnds
<1>6. CASE Prompt /\ (StartB \/ ResumeLocks \/ ResumeReturns \/ StopSession)
  BY <1>4, <1>6 DEF StartB, ResumeLocks, ResumeReturns, StopSession, ctlVars
<1>7. ASSUME NEW s \in Stream, Prompt, HandlerProceeds(s) \/ SourceProduces(s) \/ SourceEnds(s)
      PROVE  PortInv'
  BY <1>4, <1>7 DEF HandlerProceeds, HandlerRuns, HandlerReceives, HandlerStops,
     HandlerDropsSocket, SourceProduces, SourceEnds, ctlVars
<1>8. ASSUME NEW s \in Stream, Prompt, ProducerProceeds(s) PROVE PortInv'
  BY <1>4, <1>8 DEF ProducerProceeds, ProducerRuns, ProducerCancelled, ProducerLoops,
     ProducerReceives, ProducerFindsNoFrame, ProducerSends, ProducerSendFails, ctlVars
<1> QED BY <1>1, <1>2, <1>3, <1>5, <1>6, <1>7, <1>8 DEF Next

\* When wait_shutdown_complete returns, the control loop has given its port back,
\* for any disruption but a task that is polled late: a control loop that has not run
\* when the session is stopped holds no token yet, and the wait does not see it.
THEOREM PortIsFree ==
    ASSUME "late" \notin Disruptions
    PROVE  Safe => []ControlPortFree
<1>1. Init => PortInv
  BY DEF Init, PortInv
<1>2. PortInv /\ [Next]_vars => PortInv'
  BY PortStep
<1>3. TypeOK /\ PortInv => ControlPortFree
  BY DEF TypeOK, PortInv, ControlPortFree, Complete
<1> QED BY <1>1, <1>2, <1>3, TypeCorrect, PTL DEF Safe

-----------------------------------------------------------------------------
(* The packetizer.                                                         *)

\* Per key, the encryptions so far are as many as the counters that were passed;
\* the counter of the cipher is the next one of its key, and the key that waits in
\* the watch channel has not been used unless it is the cipher's already.
CounterInv ==
  /\ keys \in Keys /\ cipher \in Keys \cup {NoKey} /\ iv \in Nat
  /\ used \in [Keys -> [times : Nat, passed : Nat]]
  /\ NoncesUnique
  /\ cipher \in Keys => used[cipher].passed = iv /\ lastId = KeyIdOf(cipher)
  /\ keys # cipher => used[keys].times = 0

Shard == [block : Int, last_block : Int, index : Int, of : Int, start : BOOLEAN, end : BOOLEAN, payload : Int]

LEMMA LastBlockInt == ASSUME NEW n \in Nat PROVE LastBlock(n) \in Int
BY PacketAssumption DEF PacketAssumption, LastBlock, BlockCount, DataPerBlock, min2, MAX_BLOCKS

\* A block is a sequence of shards, and so are several.
LEMMA BlockIsSeq == ASSUME NEW n \in Nat, NEW b \in Int PROVE Block(n, b) \in Seq(Shard)
<1> USE PacketAssumption DEF PacketAssumption
<1>1. DataPerBlock \in Int
  <2>1. (MAX_SHARDS * FecPercentage) \div (100 + FecPercentage) \in Int
    OBVIOUS
  <2> QED
    BY <2>1 DEF DataPerBlock
<1>2. BlockStart(b) \in Int /\ BlockEnd(n, b) \in Int
  BY <1>1 DEF BlockStart, BlockEnd, min2, MAX_BLOCKS
<1>3. LastBlock(n) \in Int
  BY LastBlockInt
<1> DEFINE d == BlockEnd(n, b) - BlockStart(b)
<1>4. d \in Int /\ ParityShards(d) \in Int
  BY <1>2 DEF ParityShards, min2, max2
<1>5. \A k \in Int : \E j \in Nat : 1 .. k = 1 .. j
  <2> SUFFICES ASSUME NEW k \in Int PROVE \E j \in Nat : 1 .. k = 1 .. j
    OBVIOUS
  <2>1. CASE k \in Nat
    BY <2>1
  <2>2. CASE k \notin Nat
    <3>1. 1 .. k = 1 .. 0
      BY <2>2
    <3> QED
      BY <3>1
  <2> QED
    BY <2>1, <2>2
<1>6. PICK j \in Nat : 1 .. d + ParityShards(d) = 1 .. j
  BY <1>4, <1>5
<1> DEFINE shard(i) == [block |-> b, last_block |-> LastBlock(n), index |-> i - 1, of |-> d,
                        start |-> i = 1, end |-> i = d,
                        payload |-> IF i <= d THEN BlockStart(b) + i - 1 ELSE -1]
<1>7. \A i \in 1 .. j : shard(i) \in Shard
  BY <1>2, <1>3, <1>4 DEF Shard
<1>8. Block(n, b) = [i \in 1 .. d + ParityShards(d) |-> shard(i)]
  BY DEF Block
<1> HIDE DEF shard, d
<1>9. Block(n, b) = [i \in 1 .. j |-> shard(i)]
  BY <1>6, <1>8
<1> QED
  BY <1>7, <1>9

LEMMA BlocksLength == ASSUME NEW n \in Nat, NEW b \in Int PROVE Len(Blocks(n, b)) \in Nat
<1> DEFINE block(i) == IF i <= b THEN Block(n, i) ELSE <<>>
<1>1. \A i \in Int : block(i) \in Seq(Shard)
  BY BlockIsSeq
<1>2. block(0) \in Seq(Shard) /\ block(1) \in Seq(Shard) /\ block(2) \in Seq(Shard) /\ block(3) \in Seq(Shard)
  BY <1>1
<1> HIDE DEF block
<1>3. block(0) \o block(1) \o block(2) \o block(3) \in Seq(Shard)
  BY <1>2
<1>4. Blocks(n, b) = block(0) \o block(1) \o block(2) \o block(3)
  BY DEF Blocks, block
<1> QED
  BY <1>3, <1>4

LEMMA CountersInitially == PacketInit => CounterInv
BY PacketAssumption DEF PacketAssumption, PacketInit, CounterInv, NoncesUnique

\* The shards of a frame, sent or failed, are encrypted under the counters that
\* follow those of the cipher's key, or under those from 0 of an unused key.
LEMMA FrameEncrypted ==
  ASSUME CounterInv, NEW m \in Nat, NEW failed \in BOOLEAN, EncryptShards(m, failed), keys' = keys
  PROVE  CounterInv'
<1> DEFINE k == CipherNow
           from == IvNow
<1>1. k \in Keys \cup {NoKey} /\ from \in Nat
  BY DEF CipherNow, IvNow, CounterInv
<1>2. k \in Keys => used[k].passed = from
  <2>1. CASE Encrypt /\ KeyIdOf(keys) # lastId
    <3>1. keys # cipher
      BY <2>1 DEF CounterInv
    <3>2. used[keys].times = 0 /\ used[keys].passed = 0
      BY <3>1 DEF CounterInv, NoncesUnique
    <3> QED
      BY <2>1, <3>2 DEF CipherNow, IvNow
  <2>2. CASE ~(Encrypt /\ KeyIdOf(keys) # lastId)
    BY <2>2 DEF CipherNow, IvNow, CounterInv
  <2> QED
    BY <2>1, <2>2
<1>3. k \in Keys => lastId' = KeyIdOf(k)
  BY PacketAssumption DEF PacketAssumption, CipherNow, EncryptShards, CounterInv
<1>4. cipher' = k /\ (k \in Keys => iv' = from + m) /\ iv' \in Nat
  BY <1>1, PacketAssumption DEF PacketAssumption, EncryptShards
<1>5. k # NoKey /\ keys # k => used[keys].times = 0
  BY DEF CipherNow, CounterInv
<1>6. CASE k = NoKey
  <2>1. used' = used /\ cipher' = NoKey
    BY <1>6, <1>4 DEF EncryptShards, Encrypts
  <2>2. cipher = NoKey
    BY <1>6, PacketAssumption DEF CipherNow, CounterInv, PacketAssumption
  <2> QED
    BY <2>1, <2>2, <1>4, PacketAssumption DEF CounterInv, NoncesUnique, PacketAssumption
<1>7. CASE k \in Keys
  <2> DEFINE spent == [times |-> used[k].times + m, passed |-> from + m]
  <2>1. used' = [used EXCEPT ![k] = spent]
    <3>1. max2(used[k].passed, from + m) = from + m
      BY <1>1, <1>2, <1>7 DEF max2
    <3>2. used' = [used EXCEPT ![k] = [times |-> used[k].times + m, passed |-> max2(used[k].passed, from + m)]]
      BY <1>7, PacketAssumption DEF PacketAssumption, EncryptShards, Encrypts, CounterInv
    <3> QED
      BY <3>1, <3>2
  <2>2. spent \in [times : Nat, passed : Nat] /\ spent.times = spent.passed
    BY <1>1, <1>2, <1>7 DEF CounterInv, NoncesUnique
  <2> HIDE DEF spent, k, from
  <2>3. used' \in [Keys -> [times : Nat, passed : Nat]] /\ used'[k] = spent
    BY <2>1, <2>2, <1>7 DEF CounterInv
  <2>4. NoncesUnique'
    BY <2>1, <2>2, <1>7 DEF CounterInv, NoncesUnique
  <2>5. used'[k].passed = iv'
    BY <2>3, <1>4, <1>7 DEF spent
  <2>6. keys # k => used'[keys].times = 0
    BY <2>1, <1>5, <1>7, PacketAssumption DEF CounterInv, PacketAssumption
  <2> QED
    BY <2>3, <2>4, <2>5, <2>6, <1>3, <1>4, <1>7 DEF CounterInv
<1> QED
  BY <1>1, <1>6, <1>7

LEMMA CounterStep == CounterInv /\ [PacketNext]_packetVars => CounterInv'
<1> SUFFICES ASSUME CounterInv, [PacketNext]_packetVars PROVE CounterInv'
  OBVIOUS
<1>a. ASSUME UNCHANGED cipherVars PROVE CounterInv'
  BY <1>a DEF cipherVars, CounterInv, NoncesUnique
<1>1. CASE UNCHANGED packetVars
  BY <1>1, <1>a DEF packetVars
<1>2. ASSUME NEW n \in FrameSizes, packetize(n) PROVE CounterInv'
  <2>1. n \in Nat /\ LastBlock(n) \in Int
    BY PacketAssumption, LastBlockInt DEF PacketAssumption
  <2>2. Len(Blocks(n, LastBlock(n))) \in Nat
    BY <2>1, BlocksLength
  <2> QED
    BY <1>2, <2>2, FrameEncrypted DEF packetize
<1>3. ASSUME NEW n \in FrameSizes, NEW b \in 0 .. MAX_BLOCKS - 1, PacketizeFails(n, b) PROVE CounterInv'
  <2>1. Len(Blocks(n, b - 1)) \in Nat
    BY BlocksLength, PacketAssumption DEF PacketAssumption, MAX_BLOCKS
  <2> QED
    BY <1>3, <2>1, FrameEncrypted DEF PacketizeFails
<1>4. ASSUME NEW k \in Keys, KeysUpdated(k) PROVE CounterInv'
  BY <1>4 DEF KeysUpdated, CounterInv, NoncesUnique
<1>5. CASE SendChunk \/ SendShards \/ BatchDone
  BY <1>5, <1>a DEF SendChunk, SendShards, BatchDone
<1> QED
  BY <1>1, <1>2, <1>3, <1>4, <1>5 DEF PacketNext

\* In every behaviour of the packetizer, whatever frames fail and whenever the client
\* resumes with a new key, no two shards are encrypted under one key and counter
\* (maybe_update_cipher, gcm_iv_counter).
THEOREM NoncesStayUnique == PacketSafe => []NoncesUnique
<1>1. CounterInv => NoncesUnique
  BY DEF CounterInv
<1> QED
  BY <1>1, CountersInitially, CounterStep, PTL DEF PacketSafe

-----------------------------------------------------------------------------
(* The batch of a frame.                                                   *)

\* At least one data shard fits into a block.
LEMMA DataFits == DataPerBlock \in Nat \ {0}
<1>1. MAX_SHARDS \in Nat \ {0} /\ FecPercentage \in Nat
  BY PacketAssumption DEF PacketAssumption
<1> DEFINE m == MAX_SHARDS
           f == FecPercentage
           q == (m * f) \div (100 + f)
<1>2. m * f \in Nat /\ 100 + f \in Nat \ {0}
  BY <1>1
<1>3. q \in Nat /\ q * (100 + f) <= m * f
  <2> HIDE DEF m, f
  <2>1. \A x \in Nat, y \in Nat \ {0} : x \div y \in Nat /\ (x \div y) * y <= x
    OBVIOUS
  <2> QED
    BY <1>2, <2>1
<1>4. m * f < m * (100 + f)
  BY <1>1
<1>5. q < m
  <2> SUFFICES ASSUME q >= m PROVE FALSE
    BY <1>1, <1>3
  <2>1. q * (100 + f) >= m * (100 + f)
    <3> HIDE DEF m, f, q
    <3>1. \A x, y \in Nat, z \in Nat : x >= y => x * z >= y * z
      OBVIOUS
    <3> QED
      BY <1>1, <1>2, <1>3, <3>1 DEF m
  <2> QED
    BY <1>1, <1>2, <1>3, <1>4, <2>1
<1>6. DataPerBlock = m - q
  BY DEF DataPerBlock
<1> QED
  BY <1>1, <1>3, <1>5, <1>6

\* The blocks of a frame are not empty and lie one behind the other, the last one
\* ends where the frame ends.
LEMMA BlocksInFrame ==
  ASSUME NEW n \in Nat \ {0}
  PROVE  /\ LastBlock(n) \in 0 .. 3 /\ BlockStart(0) = 0 /\ BlockEnd(n, LastBlock(n)) = n
         /\ \A b \in 0 .. LastBlock(n) :
              /\ BlockStart(b) \in Nat /\ BlockEnd(n, b) \in Nat /\ BlockStart(b) < BlockEnd(n, b)
              /\ b < LastBlock(n) => BlockEnd(n, b) = BlockStart(b + 1)
<1> DEFINE d == DataPerBlock
           q == (n - 1) \div d
<1>1. d \in Nat \ {0}
  BY DataFits
<1>2. q \in Nat /\ q * d <= n - 1 /\ n - 1 < (q + 1) * d
  <2> HIDE DEF d
  <2>1. \A x \in Nat, y \in Nat \ {0} : x \div y \in Nat /\ (x \div y) * y <= x /\ x < ((x \div y) + 1) * y
    OBVIOUS
  <2> QED
    BY <1>1, <2>1
<1>3. LastBlock(n) = IF q + 1 < 4 THEN q ELSE 3
  BY <1>2 DEF LastBlock, BlockCount, min2, MAX_BLOCKS
<1>4. LastBlock(n) \in 0 .. 3
  BY <1>2, <1>3
<1>5. \A b \in Int : BlockStart(b) = b * d /\ BlockEnd(n, b) = IF b = 3 THEN n ELSE IF (b + 1) * d < n THEN (b + 1) * d ELSE n
  BY DEF BlockStart, BlockEnd, min2, MAX_BLOCKS
<1> HIDE DEF d, q
<1>6. \A x, y \in Nat : x <= y => x * d <= y * d
  BY <1>1
<1>7. \A x \in Nat : x * d \in Nat
  BY <1>1
<1>8. \A x \in Nat : (x + 1) * d = x * d + d
  BY <1>1
<1>9. BlockEnd(n, LastBlock(n)) = n
  <2>1. CASE LastBlock(n) = 3
    BY <1>5, <2>1
  <2>2. CASE LastBlock(n) # 3
    <3>1. LastBlock(n) = q
      BY <1>3, <2>2
    <3>2. (q + 1) * d \in Nat
      BY <1>2, <1>7
    <3>3. ~((q + 1) * d < n)
      BY <1>2, <3>2
    <3> QED
      BY <1>2, <1>5, <3>1, <3>3, <2>2
  <2> QED
    BY <2>1, <2>2
<1>10. ASSUME NEW b \in 0 .. LastBlock(n)
       PROVE  /\ BlockStart(b) \in Nat /\ BlockEnd(n, b) \in Nat /\ BlockStart(b) < BlockEnd(n, b)
              /\ b < LastBlock(n) => BlockEnd(n, b) = BlockStart(b + 1)
  <2>1. b \in Nat /\ b <= q /\ b <= 3
    BY <1>2, <1>3, <1>4
  <2>2. b * d \in Nat /\ b * d <= q * d /\ q * d \in Nat
    BY <1>2, <1>6, <1>7, <2>1
  <2>3. b * d < n
    BY <1>2, <2>2
  <2>4. (b + 1) * d = b * d + d
    BY <1>8, <2>1
  <2>5. BlockStart(b) \in Nat /\ BlockEnd(n, b) \in Nat /\ BlockStart(b) < BlockEnd(n, b)
    BY <1>1, <1>5, <2>1, <2>2, <2>3, <2>4
  <2>6. ASSUME b < LastBlock(n) PROVE BlockEnd(n, b) = BlockStart(b + 1)
    <3>1. b + 1 <= q /\ b + 1 \in Nat /\ b # 3
      BY <1>2, <1>3, <1>4, <2>1, <2>6
    <3>2. (b + 1) * d <= q * d /\ (b + 1) * d \in Nat
      BY <1>2, <1>6, <1>7, <3>1
    <3>3. (b + 1) * d < n
      BY <1>2, <2>2, <3>2
    <3> QED
      BY <1>5, <3>1, <3>3
  <2> QED
    BY <2>5, <2>6
<1>11. BlockStart(0) = 0
  BY <1>1, <1>5
<1> QED
  BY <1>4, <1>9, <1>10, <1>11

\* The shards of a block: first its data shards e .. e2 - 1, then the parity.
BlockOf(s, k, e, e2, last) ==
  /\ s \in Seq(Shard) /\ e2 - e <= Len(s)
  /\ \A i \in 1 .. Len(s) :
       /\ s[i].block = k /\ s[i].last_block = last /\ s[i].index = i - 1 /\ s[i].of = e2 - e
       /\ s[i].payload = IF i <= e2 - e THEN e + i - 1 ELSE -1
       /\ i > e2 - e => i <= MAX_SHARDS

LEMMA BlockHasShards ==
  ASSUME NEW n \in Nat, LastBlock(n) \in Int, NEW b \in Int, BlockStart(b) \in Nat, BlockEnd(n, b) \in Nat,
         BlockStart(b) < BlockEnd(n, b)
  PROVE  BlockOf(Block(n, b), b, BlockStart(b), BlockEnd(n, b), LastBlock(n))
<1> DEFINE e == BlockStart(b)
           d == BlockEnd(n, b) - BlockStart(b)
           p == ParityShards(d)
           shard(i) == [block |-> b, last_block |-> LastBlock(n), index |-> i - 1, of |-> d,
                        start |-> i = 1, end |-> i = d,
                        payload |-> IF i <= d THEN BlockStart(b) + i - 1 ELSE -1]
<1>1. d \in Nat \ {0} /\ e \in Nat
  OBVIOUS
<1>2. p \in Nat /\ (p > 0 => d + p <= MAX_SHARDS)
  <2>1. MAX_SHARDS \in Nat /\ MinimumFec \in Nat /\ FecPercentage \in Nat
    BY PacketAssumption DEF PacketAssumption
  <2>2. d * FecPercentage \in Nat
    BY <1>1, <2>1
  <2>3. (d * FecPercentage) \div 100 \in Nat
    <3> HIDE DEF d
    <3>1. \A x \in Nat : x \div 100 \in Nat
      OBVIOUS
    <3> QED
      BY <2>2, <3>1
  <2> HIDE DEF d
  <2> QED
    BY <1>1, <2>1, <2>3 DEF ParityShards, min2, max2
<1>3. Block(n, b) = [i \in 1 .. d + p |-> shard(i)]
  BY DEF Block
<1>4. \A i \in 1 .. d + p : shard(i) \in Shard
  BY <1>1 DEF Shard
<1>5. \A i \in 1 .. d + p : /\ shard(i).block = b /\ shard(i).last_block = LastBlock(n) /\ shard(i).index = i - 1
                            /\ shard(i).of = d /\ shard(i).payload = IF i <= d THEN e + i - 1 ELSE -1
  OBVIOUS
<1>6. d = BlockEnd(n, b) - e
  OBVIOUS
<1> HIDE DEF shard, d, p, e
<1>7. d + p \in Nat
  BY <1>1, <1>2
<1>8. Block(n, b) \in Seq(Shard) /\ Len(Block(n, b)) = d + p /\ \A i \in 1 .. d + p : Block(n, b)[i] = shard(i)
  BY <1>3, <1>4, <1>7
<1>9. \A i \in 1 .. d + p : i > d => i <= MAX_SHARDS
  BY <1>1, <1>2, PacketAssumption DEF PacketAssumption
<1>10. BlockOf(Block(n, b), b, e, BlockEnd(n, b), LastBlock(n))
  <2>1. d <= Len(Block(n, b))
    BY <1>1, <1>2, <1>8
  <2>2. ASSUME NEW i \in 1 .. Len(Block(n, b))
        PROVE  /\ Block(n, b)[i].block = b /\ Block(n, b)[i].last_block = LastBlock(n)
               /\ Block(n, b)[i].index = i - 1 /\ Block(n, b)[i].of = d
               /\ Block(n, b)[i].payload = IF i <= d THEN e + i - 1 ELSE -1
               /\ i > d => i <= MAX_SHARDS
    <3>1. i \in 1 .. d + p /\ Block(n, b)[i] = shard(i)
      BY <1>8, <2>2
    <3> QED
      BY <1>5, <1>9, <3>1
  <2> QED
    BY <1>6, <1>8, <2>1, <2>2 DEF BlockOf
<1> QED
  BY <1>10 DEF e

\* The blocks before block k, with the data shards before e: every one of these is
\* there, in order, and the places of a shard in its block and in the list agree.
Covers(s, k, e, last) ==
  /\ s \in Seq(Shard)
  /\ \A i \in 1 .. Len(s) :
       /\ s[i].block \in 0 .. k - 1 /\ s[i].last_block = last /\ s[i].index \in Nat
       /\ s[i].payload \in -1 .. e - 1
       /\ (s[i].index = 0) = (i = 1 \/ s[i - 1].block # s[i].block)
       /\ (s[i].payload = -1) = (s[i].index >= s[i].of)
       /\ s[i].payload = -1 => s[i].index < MAX_SHARDS
  /\ \A p \in 0 .. e - 1 : \E i \in 1 .. Len(s) : s[i].payload = p
  /\ \A i, j \in 1 .. Len(s) : i < j =>
       /\ s[i].payload >= 0 /\ s[j].payload >= 0 => s[i].payload < s[j].payload
       /\ s[i].block < s[j].block \/ (s[i].block = s[j].block /\ s[i].index < s[j].index)

\* One more block at the end.
LEMMA CoversMore ==
  ASSUME NEW s, NEW t, NEW k \in Nat, NEW e \in Nat, NEW e2 \in Nat, e < e2, NEW last \in Int,
         Covers(s, k, e, last), BlockOf(t, k, e, e2, last)
  PROVE  Covers(s \o t, k + 1, e2, last)
<1> DEFINE r == s \o t
           a == Len(s)
           z == Len(t)
<1>1. /\ s \in Seq(Shard) /\ t \in Seq(Shard) /\ r \in Seq(Shard)
      /\ a \in Nat /\ z \in Nat /\ Len(r) = a + z /\ e2 - e <= z
  BY DEF Covers, BlockOf
<1>2. \A i \in 1 .. a : r[i] = s[i]
  BY <1>1
<1>3. \A i \in 1 .. z : r[a + i] = t[i]
  BY <1>1
<1>4. \A i \in 1 .. a + z : i \in 1 .. a \/ i - a \in 1 .. z
  BY <1>1
<1>5. \A i \in 1 .. z :
        /\ r[a + i].block = k /\ r[a + i].last_block = last /\ r[a + i].index = i - 1 /\ r[a + i].of = e2 - e
        /\ r[a + i].payload = IF i <= e2 - e THEN e + i - 1 ELSE -1
        /\ i > e2 - e => i <= MAX_SHARDS
  BY <1>3 DEF BlockOf
<1>6. \A i \in 1 .. a :
        /\ r[i].block \in 0 .. k - 1 /\ r[i].last_block = last /\ r[i].index \in Nat
        /\ r[i].payload \in -1 .. e - 1
        /\ (r[i].payload = -1) = (r[i].index >= r[i].of)
        /\ r[i].payload = -1 => r[i].index < MAX_SHARDS
  BY <1>2 DEF Covers
<1> HIDE DEF r, a, z
<1>7. MAX_SHARDS \in Nat
  BY PacketAssumption DEF PacketAssumption
<1>8. ASSUME NEW i \in 1 .. a + z
      PROVE  /\ r[i].block \in 0 .. k /\ r[i].last_block = last /\ r[i].index \in Nat
             /\ r[i].payload \in -1 .. e2 - 1
             /\ (r[i].index = 0) = (i = 1 \/ r[i - 1].block # r[i].block)
             /\ (r[i].payload = -1) = (r[i].index >= r[i].of)
             /\ r[i].payload = -1 => r[i].index < MAX_SHARDS
  <2>1. CASE i \in 1 .. a
    <3>1. (r[i].index = 0) = (i = 1 \/ r[i - 1].block # r[i].block)
      <4>1. (s[i].index = 0) = (i = 1 \/ s[i - 1].block # s[i].block)
        BY <2>1 DEF Covers, a
      <4>2. i # 1 => r[i - 1] = s[i - 1]
        <5>1. i # 1 => i - 1 \in 1 .. a
          BY <1>1, <2>1
        <5> QED
          BY <1>2, <5>1
      <4> QED
        BY <1>2, <2>1, <4>1, <4>2
    <3> QED
      BY <1>6, <2>1, <3>1
  <2>2. CASE i - a \in 1 .. z
    <3> DEFINE j == i - a
    <3>1. j \in 1 .. z /\ i = a + j
      BY <1>1, <2>2
    <3> HIDE DEF j
    <3>2. /\ r[i].block = k /\ r[i].last_block = last /\ r[i].index = j - 1 /\ r[i].of = e2 - e
          /\ r[i].payload = IF j <= e2 - e THEN e + j - 1 ELSE -1
          /\ j > e2 - e => j <= MAX_SHARDS
      BY <1>5, <3>1
    <3>3. (r[i].index = 0) = (i = 1 \/ r[i - 1].block # r[i].block)
      <4>1. CASE j = 1 /\ i = 1
        BY <3>2, <4>1
      <4>2. CASE j = 1 /\ i # 1
        <5>1. i - 1 \in 1 .. a
          BY <1>1, <3>1, <4>2
        <5>2. r[i - 1].block \in 0 .. k - 1
          BY <1>6, <5>1
        <5>3. r[i - 1].block # k
          BY <5>2
        <5> QED
          BY <3>2, <4>2, <5>3
      <4>3. CASE j # 1
        <5>1. j - 1 \in 1 .. z /\ i - 1 = a + (j - 1) /\ i # 1
          BY <1>1, <3>1, <4>3
        <5>2. r[i - 1].block = k
          BY <1>5, <5>1
        <5>3. j - 1 # 0
          BY <3>1, <4>3
        <5> QED
          BY <3>2, <5>1, <5>2, <5>3
      <4> QED
        BY <4>1, <4>2, <4>3
    <3>4. r[i].block \in 0 .. k /\ r[i].index \in Nat /\ r[i].payload \in -1 .. e2 - 1
      BY <3>1, <3>2
    <3>5. (r[i].payload = -1) = (r[i].index >= r[i].of)
      BY <3>1, <3>2
    <3>6. r[i].payload = -1 => r[i].index < MAX_SHARDS
      BY <1>7, <3>1, <3>2
    <3> QED
      BY <3>2, <3>3, <3>4, <3>5, <3>6
  <2> QED
    BY <1>4, <2>1, <2>2
<1>9. ASSUME NEW p \in 0 .. e2 - 1 PROVE \E i \in 1 .. a + z : r[i].payload = p
  <2>1. CASE p < e
    <3>1. PICK i \in 1 .. a : s[i].payload = p
      <4>1. p \in 0 .. e - 1 /\ \A x \in 0 .. e - 1 : \E i \in 1 .. Len(s) : s[i].payload = x
        BY <2>1 DEF Covers
      <4> HIDE <2>1
      <4> QED
        BY <4>1 DEF a
    <3>2. i \in 1 .. a + z
      BY <1>1
    <3> QED
      BY <1>2, <3>1, <3>2
  <2>2. CASE p >= e
    <3>1. p - e + 1 \in 1 .. z /\ p - e + 1 <= e2 - e /\ a + (p - e + 1) \in 1 .. a + z
      BY <1>1, <2>2
    <3>2. r[a + (p - e + 1)].payload = e + (p - e + 1) - 1
      BY <1>5, <3>1
    <3> QED
      BY <3>1, <3>2
  <2> QED
    BY <2>1, <2>2
<1>10. ASSUME NEW i \in 1 .. a + z, NEW j \in 1 .. a + z, i < j
       PROVE  /\ r[i].payload >= 0 /\ r[j].payload >= 0 => r[i].payload < r[j].payload
              /\ r[i].block < r[j].block \/ (r[i].block = r[j].block /\ r[i].index < r[j].index)
  <2>1. CASE j \in 1 .. a
    <3>1. i \in 1 .. a
      BY <1>1, <1>10, <2>1
    <3>2. /\ s[i].payload >= 0 /\ s[j].payload >= 0 => s[i].payload < s[j].payload
          /\ s[i].block < s[j].block \/ (s[i].block = s[j].block /\ s[i].index < s[j].index)
      BY <1>10, <2>1, <3>1 DEF Covers, a
    <3> QED
      BY <1>2, <2>1, <3>1, <3>2
  <2>2. CASE i \in 1 .. a /\ j - a \in 1 .. z
    <3>1. r[i].block \in 0 .. k - 1 /\ r[i].payload \in -1 .. e - 1
      BY <1>6, <2>2
    <3>2. j = a + (j - a)
      BY <1>1
    <3>3. r[j].block = k /\ r[j].payload = IF j - a <= e2 - e THEN e + (j - a) - 1 ELSE -1
      BY <1>5, <2>2, <3>2
    <3>4. r[i].block < r[j].block
      BY <3>1, <3>3
    <3>5. r[i].payload >= 0 /\ r[j].payload >= 0 => r[i].payload < r[j].payload
      <4>1. j - a \in Nat \ {0}
        BY <1>1, <2>2
      <4>2. r[j].payload >= 0 => r[j].payload >= e
        BY <3>3, <4>1
      <4>3. r[j].payload \in Int
        BY <3>3, <4>1
      <4> QED
        BY <3>1, <4>2, <4>3
    <3> QED
      BY <3>4, <3>5
  <2>3. CASE i - a \in 1 .. z /\ j - a \in 1 .. z
    <3>1. i = a + (i - a) /\ j = a + (j - a)
      BY <1>1
    <3>2. /\ r[j].block = k /\ r[j].payload = IF j - a <= e2 - e THEN e + (j - a) - 1 ELSE -1
          /\ r[j].index = (j - a) - 1
      BY <1>5, <2>3, <3>1
    <3>3. /\ r[i].block = k /\ r[i].payload = IF i - a <= e2 - e THEN e + (i - a) - 1 ELSE -1
          /\ r[i].index = (i - a) - 1
      BY <1>5, <2>3, <3>1
    <3>4. i - a \in Nat \ {0} /\ j - a \in Nat \ {0} /\ i - a < j - a
      BY <1>1, <1>10, <2>3
    <3>5. r[i].block = r[j].block /\ r[i].index < r[j].index
      BY <3>2, <3>3, <3>4
    <3>6. r[i].payload >= 0 /\ r[j].payload >= 0 => r[i].payload < r[j].payload
      BY <3>2, <3>3, <3>4
    <3> QED
      BY <3>5, <3>6
  <2> QED
    BY <1>1, <1>4, <1>10, <2>1, <2>2, <2>3
<1>11. k + 1 - 1 = k
  OBVIOUS
<1>12. Covers(r, k + 1, e2, last)
  BY <1>1, <1>8, <1>9, <1>10, <1>11 DEF Covers
<1> QED
  BY <1>12 DEF r

\* The batch of a frame.
LEMMA BatchCovers ==
  ASSUME NEW n \in Nat \ {0}
  PROVE  LastBlock(n) \in 0 .. 3 /\ Covers(Blocks(n, LastBlock(n)), LastBlock(n) + 1, n, LastBlock(n))
<1> DEFINE last == LastBlock(n)
           block(i) == IF i <= last THEN Block(n, i) ELSE <<>>
           Upto(s, b) == Covers(s, b + 1, BlockEnd(n, b), last)
<1>1. /\ last \in 0 .. 3 /\ BlockStart(0) = 0 /\ BlockEnd(n, last) = n
      /\ \A b \in 0 .. last :
           /\ BlockStart(b) \in Nat /\ BlockEnd(n, b) \in Nat /\ BlockStart(b) < BlockEnd(n, b)
           /\ b < last => BlockEnd(n, b) = BlockStart(b + 1)
  BY BlocksInFrame
<1> HIDE DEF last
<1>2. \A b \in 0 .. last : BlockOf(Block(n, b), b, BlockStart(b), BlockEnd(n, b), last)
  BY <1>1, BlockHasShards DEF last
<1>3. Covers(<<>>, 0, 0, last)
  BY DEF Covers
<1>4. ASSUME NEW s, NEW b \in 0 .. last, Covers(s, b, BlockStart(b), last) PROVE Upto(s \o Block(n, b), b)
  <2>1. b \in Nat /\ last \in Int
    BY <1>1
  <2> QED
    BY <1>1, <1>2, <1>4, <2>1, CoversMore
<1>5. ASSUME NEW s, NEW b \in 0 .. last - 1, Upto(s, b) PROVE Upto(s \o Block(n, b + 1), b + 1)
  <2>1. b \in 0 .. last /\ b + 1 \in 0 .. last /\ b < last
    BY <1>1
  <2>2. BlockEnd(n, b) = BlockStart(b + 1)
    BY <1>1, <2>1
  <2> QED
    BY <1>4, <1>5, <2>1, <2>2
<1>6. Upto(<<>> \o Block(n, 0), 0)
  <2>1. 0 \in 0 .. last
    BY <1>1
  <2> QED
    BY <1>1, <1>3, <1>4, <2>1
<1>7. \A b \in 0 .. last : Block(n, b) \in Seq(Shard)
  BY <1>2 DEF BlockOf
<1> DEFINE s0 == <<>> \o Block(n, 0)
           s1 == s0 \o Block(n, 1)
           s2 == s1 \o Block(n, 2)
           s3 == s2 \o Block(n, 3)
<1>8. /\ Upto(s0, 0) /\ (last >= 1 => Upto(s1, 1)) /\ (last >= 2 => Upto(s2, 2)) /\ (last >= 3 => Upto(s3, 3))
  <2> HIDE DEF Upto
  <2>1. last >= 1 => Upto(s1, 1)
    BY <1>1, <1>5, <1>6
  <2>2. last >= 2 => Upto(s2, 2)
    <3>1. ASSUME last >= 2 PROVE 1 \in 0 .. last - 1 /\ 1 + 1 = 2 /\ last >= 1
      BY <1>1, <3>1
    <3> QED
      BY <1>5, <2>1, <3>1
  <2>3. last >= 3 => Upto(s3, 3)
    <3>1. ASSUME last >= 3 PROVE 2 \in 0 .. last - 1 /\ 2 + 1 = 3 /\ last >= 2
      BY <1>1, <3>1
    <3> QED
      BY <1>5, <2>2, <3>1
  <2> QED
    BY <1>6, <2>1, <2>2, <2>3
<1>9. \A s \in Seq(Shard) : s \o <<>> = s /\ <<>> \o s = s
  OBVIOUS
<1>10. Blocks(n, last) = block(0) \o block(1) \o block(2) \o block(3)
  BY DEF Blocks
<1>11. s0 = Block(n, 0) /\ s0 \in Seq(Shard)
  BY <1>1, <1>7, <1>9
<1>12. last = 0 \/ last = 1 \/ last = 2 \/ last = 3
  BY <1>1
<1>13. Upto(Blocks(n, last), last)
  <2> HIDE DEF Upto
  <2>1. CASE last = 0
    <3>1. block(0) = Block(n, 0) /\ block(1) = <<>> /\ block(2) = <<>> /\ block(3) = <<>>
      BY <2>1
    <3>2. Blocks(n, last) = s0
      <4> HIDE DEF block, s0
      <4> QED
        BY <1>9, <1>10, <1>11, <3>1
    <3> QED
      BY <1>8, <2>1, <3>2
  <2>2. CASE last = 1
    <3>1. block(0) = Block(n, 0) /\ block(1) = Block(n, 1) /\ block(2) = <<>> /\ block(3) = <<>>
      BY <2>2
    <3>2. s1 \in Seq(Shard)
      BY <1>7, <1>11, <2>2
    <3>3. Blocks(n, last) = s1
      <4>1. s1 = Block(n, 0) \o Block(n, 1)
        BY <1>11
      <4> HIDE DEF block, s0, s1
      <4> QED
        BY <1>9, <1>10, <3>1, <3>2, <4>1
    <3> HIDE DEF s0, s1, s2, s3, block
    <3> QED
      BY <1>8, <2>2, <3>3
  <2>3. CASE last = 2
    <3>1. block(0) = Block(n, 0) /\ block(1) = Block(n, 1) /\ block(2) = Block(n, 2) /\ block(3) = <<>>
      BY <2>3
    <3>2. s2 \in Seq(Shard)
      BY <1>7, <1>11, <2>3
    <3>3. Blocks(n, last) = s2
      <4>1. s2 = Block(n, 0) \o Block(n, 1) \o Block(n, 2)
        BY <1>11
      <4> HIDE DEF block, s0, s1, s2
      <4> QED
        BY <1>9, <1>10, <3>1, <3>2, <4>1
    <3> HIDE DEF s0, s1, s2, s3, block
    <3> QED
      BY <1>8, <2>3, <3>3
  <2>4. CASE last = 3
    <3>1. block(0) = Block(n, 0) /\ block(1) = Block(n, 1) /\ block(2) = Block(n, 2) /\ block(3) = Block(n, 3)
      BY <2>4
    <3>2. Blocks(n, last) = s3
      <4>1. s3 = Block(n, 0) \o Block(n, 1) \o Block(n, 2) \o Block(n, 3)
        BY <1>11
      <4> HIDE DEF block, s0, s1, s2, s3
      <4> QED
        BY <1>10, <3>1, <4>1
    <3> HIDE DEF s0, s1, s2, s3, block
    <3> QED
      BY <1>8, <2>4, <3>2
  <2> QED
    BY <1>12, <2>1, <2>2, <2>3, <2>4
<1> QED
  BY <1>1, <1>13 DEF last

\* Shards of the chunk c + 1 .. d of a batch join those sent from before it.
LEMMA SentOn ==
  ASSUME NEW T, NEW s \in Seq(T), IsInjective(s), NEW c \in 0 .. Len(s), NEW d \in c .. Len(s),
         NEW w \in Seq(T), Among(w, s, c), InOrder(w, s), NEW S
  PROVE  LET t == w \o Kept(SubSeq(s, c + 1, d), S)
         IN t \in Seq(T) /\ Among(t, s, d) /\ InOrder(t, s)
<1> DEFINE u == SubSeq(s, c + 1, d)
           k == Kept(u, S)
           t == w \o k
           a == Len(w)
           z == Len(k)
<1>1. u \in Seq(T) /\ Len(u) = d - c /\ \A i \in 1 .. d - c : u[i] = s[c + i]
  OBVIOUS
<1>2. \A p, q \in 1 .. Len(s) : s[p] = s[q] => p = q
  BY DEF IsInjective
<1>3. IsInjective(u)
  BY <1>1, <1>2 DEF IsInjective
<1> HIDE DEF u
<1>4. k \in Seq(T) /\ ToSet(k) = ToSet(u) \cap S /\ InOrder(k, u)
  BY <1>1, <1>3, KeptElements, KeptInOrder
<1> HIDE DEF k
<1>5. t \in Seq(T) /\ a \in Nat /\ z \in Nat /\ Len(t) = a + z
  BY <1>4
<1>6. (\A i \in 1 .. a : t[i] = w[i]) /\ (\A i \in 1 .. z : t[a + i] = k[i])
  BY <1>4
<1>7. \A i \in 1 .. a : \E p \in 1 .. c : s[p] = w[i]
  BY DEF Among
<1>8. ASSUME NEW i \in 1 .. z PROVE \E p \in 1 .. d - c : u[p] = k[i] /\ s[c + p] = k[i]
  <2>1. k[i] \in ToSet(u)
    <3>1. k[i] \in ToSet(k)
      BY <1>4 DEF ToSet, z
    <3> QED
      BY <1>4, <3>1
  <2>2. PICK p \in 1 .. d - c : u[p] = k[i]
    BY <1>1, <2>1 DEF ToSet
  <2> QED
    BY <1>1, <2>2
<1>9. \A i, j \in 1 .. a, p, q \in 1 .. Len(s) : i < j /\ s[p] = w[i] /\ s[q] = w[j] => p < q
  BY DEF InOrder
<1>10. \A i, j \in 1 .. z, p, q \in 1 .. d - c : i < j /\ u[p] = k[i] /\ u[q] = k[j] => p < q
  BY <1>1, <1>4 DEF InOrder
<1> HIDE DEF t, a, z
<1>11. Len(s) \in Nat /\ c \in Nat /\ d \in Nat /\ c <= d /\ d <= Len(s)
  OBVIOUS
<1>12. \A i \in 1 .. a + z : i \in 1 .. a \/ (i - a \in 1 .. z /\ t[i] = k[i - a])
  <2> SUFFICES ASSUME NEW i \in 1 .. a + z, i \notin 1 .. a PROVE i - a \in 1 .. z /\ t[i] = k[i - a]
    OBVIOUS
  <2>1. i - a \in 1 .. z /\ a + (i - a) = i
    BY <1>5
  <2> QED
    BY <1>6, <2>1
<1>13. ASSUME NEW i \in 1 .. a + z PROVE \E p \in 1 .. d : s[p] = t[i]
  <2>1. CASE i \in 1 .. a
    <3>1. PICK p \in 1 .. c : s[p] = w[i]
      BY <1>7, <2>1
    <3>2. p \in 1 .. d /\ s[p] = t[i]
      BY <1>6, <1>11, <2>1, <3>1
    <3> QED
      BY <3>2
  <2>2. CASE i - a \in 1 .. z /\ t[i] = k[i - a]
    <3>1. PICK p \in 1 .. d - c : s[c + p] = k[i - a]
      BY <1>8, <2>2
    <3>2. c + p \in 1 .. d
      BY <1>11, <3>1
    <3> QED
      BY <2>2, <3>1, <3>2
  <2> QED
    BY <1>12, <2>1, <2>2
<1>14. ASSUME NEW i \in 1 .. a + z, NEW j \in 1 .. a + z, NEW p \in 1 .. Len(s), NEW q \in 1 .. Len(s),
              i < j, s[p] = t[i], s[q] = t[j]
       PROVE  p < q
  <2>1. CASE j \in 1 .. a
    <3>1. i \in 1 .. a
      BY <1>5, <1>14, <2>1
    <3> QED
      BY <1>6, <1>9, <1>14, <2>1, <3>1
  <2>2. CASE i \in 1 .. a /\ (j - a \in 1 .. z /\ t[j] = k[j - a])
    <3>1. PICK x \in 1 .. c : s[x] = w[i]
      BY <1>7, <2>2
    <3>2. PICK y \in 1 .. d - c : s[c + y] = k[j - a]
      BY <1>8, <2>2
    <3>3. x \in 1 .. Len(s) /\ c + y \in 1 .. Len(s) /\ x < c + y
      BY <1>11, <3>1, <3>2
    <3>4. p = x /\ q = c + y
      BY <1>2, <1>6, <1>14, <2>2, <3>1, <3>2, <3>3
    <3> QED
      BY <3>3, <3>4
  <2>3. CASE (i - a \in 1 .. z /\ t[i] = k[i - a]) /\ (j - a \in 1 .. z /\ t[j] = k[j - a])
    <3>1. PICK x \in 1 .. d - c : u[x] = k[i - a] /\ s[c + x] = k[i - a]
      BY <1>8, <2>3
    <3>2. PICK y \in 1 .. d - c : u[y] = k[j - a] /\ s[c + y] = k[j - a]
      BY <1>8, <2>3
    <3>3. c + x \in 1 .. Len(s) /\ c + y \in 1 .. Len(s)
      BY <1>11, <3>1, <3>2
    <3>4. p = c + x /\ q = c + y
      BY <1>2, <1>14, <2>3, <3>1, <3>2, <3>3
    <3>5. i - a < j - a
      BY <1>5, <1>14
    <3>6. x < y
      BY <1>10, <2>3, <3>1, <3>2, <3>5
    <3> QED
      BY <1>11, <3>4, <3>6
  <2> QED
    BY <1>5, <1>12, <1>14, <2>1, <2>2, <2>3
<1>15. t \in Seq(T) /\ Among(t, s, d) /\ InOrder(t, s)
  BY <1>5, <1>13, <1>14 DEF Among, InOrder
<1> QED
  BY <1>15 DEF t, k, u

\* The batch holds the shards of the frame that is being sent, and the wire those
\* of them that were let through up to the cursor.
FrameInv ==
  /\ batch \in Seq(Shard) /\ IsInjective(batch) /\ cursor \in 0 .. Len(batch)
  /\ wire \in Seq(Shard) /\ Among(wire, batch, cursor) /\ InOrder(wire, batch)
  /\ Sending => \E last \in 0 .. 3 : Covers(batch, last + 1, frame, last)

LEMMA FrameInitially == PacketInit => FrameInv
BY DEF PacketInit, FrameInv, Sending, IsInjective, Among, InOrder

\* No shard is in a batch twice.
LEMMA BatchInjective ==
  ASSUME NEW s, NEW k \in Nat, NEW e, NEW last, Covers(s, k, e, last) PROVE s \in Seq(Shard) /\ IsInjective(s)
<1>1. s \in Seq(Shard) /\ Len(s) \in Nat
  BY DEF Covers
<1>2. \A i, j \in 1 .. Len(s) : i < j => s[i] # s[j]
  <2> SUFFICES ASSUME NEW i \in 1 .. Len(s), NEW j \in 1 .. Len(s), i < j PROVE s[i] # s[j]
    OBVIOUS
  <2>1. s[i].block < s[j].block \/ (s[i].block = s[j].block /\ s[i].index < s[j].index)
    BY DEF Covers
  <2>2. s[i].block \in Int /\ s[i].index \in Int
    BY DEF Covers
  <2> QED
    BY <2>1, <2>2
<1> QED
  BY <1>1, <1>2 DEF IsInjective

\* A frame has at least one shard, so a new batch starts an empty wire.
LEMMA FrameStep == FrameInv /\ [PacketNext]_packetVars => FrameInv'
<1> SUFFICES ASSUME FrameInv, [PacketNext]_packetVars PROVE FrameInv'
  OBVIOUS
<1>1. CASE UNCHANGED sendVars
  BY <1>1 DEF sendVars, FrameInv, Sending
<1>2. ASSUME NEW n \in FrameSizes, packetize(n) PROVE FrameInv'
  <2>1. n \in Nat \ {0}
    BY PacketAssumption DEF PacketAssumption
  <2>2. frame' = n /\ batch' = Blocks(n, LastBlock(n)) /\ cursor' = 0 /\ wire' = <<>>
    BY <1>2 DEF packetize
  <2>3. LastBlock(n) \in 0 .. 3 /\ Covers(batch', LastBlock(n) + 1, frame', LastBlock(n))
    BY <2>1, <2>2, BatchCovers
  <2>4. batch' \in Seq(Shard) /\ IsInjective(batch')
    <3>1. LastBlock(n) + 1 \in Nat
      BY <2>3
    <3> QED
      BY <2>3, <3>1, BatchInjective
  <2>5. wire' \in Seq(Shard) /\ Among(wire', batch', cursor') /\ InOrder(wire', batch') /\ cursor' \in 0 .. Len(batch')
    BY <2>2, <2>4 DEF Among, InOrder
  <2> QED
    BY <2>3, <2>4, <2>5 DEF FrameInv
<1>3. ASSUME SendChunk \/ SendShards PROVE FrameInv'
  <2> DEFINE c2 == min2(cursor + SegmentsPerSend, Len(batch))
  <2>1. batch' = batch /\ frame' = frame /\ cursor' = cursor + Len(Chunk) /\ cursor < Len(batch)
    BY <1>3 DEF SendChunk, SendShards
  <2>2. batch \in Seq(Shard) /\ Len(batch) \in Nat /\ cursor \in 0 .. Len(batch) /\ SegmentsPerSend \in Nat \ {0}
    BY PacketAssumption DEF PacketAssumption, FrameInv, SegmentsPerSend, max2
  <2>3. c2 \in cursor .. Len(batch)
    BY <2>2 DEF min2
  <2>4. Chunk = SubSeq(batch, cursor + 1, c2)
    BY DEF Chunk
  <2> HIDE DEF c2
  <2>5. Chunk \in Seq(Shard) /\ Len(Chunk) = c2 - cursor
    BY <2>2, <2>3, <2>4
  <2>6. cursor' = c2
    BY <2>1, <2>2, <2>3, <2>5
  <2>7. PICK S : wire' = wire \o Kept(Chunk, S)
    <3>1. CASE SendShards
      BY <3>1 DEF SendShards
    <3>2. CASE SendChunk
      <4>1. Kept(Chunk, ToSet(Chunk)) = Chunk
        BY <2>5, KeptAll
      <4> QED
        BY <3>2, <4>1 DEF SendChunk
    <3> QED
      BY <1>3, <3>1, <3>2
  <2>8. wire' \in Seq(Shard) /\ Among(wire', batch, c2) /\ InOrder(wire', batch)
    <3>1. wire \in Seq(Shard) /\ Among(wire, batch, cursor) /\ InOrder(wire, batch) /\ IsInjective(batch)
      BY DEF FrameInv
    <3> QED
      BY <2>2, <2>3, <2>4, <2>7, <3>1, SentOn
  <2>9. cursor' \in 0 .. Len(batch')
    BY <2>1, <2>2, <2>3, <2>6
  <2> QED
    BY <2>1, <2>6, <2>8, <2>9 DEF FrameInv, Sending
<1>4. ASSUME BatchDone PROVE FrameInv'
  BY <1>4 DEF BatchDone, FrameInv, Sending, IsInjective, Among, InOrder
<1>5. ASSUME NEW n \in FrameSizes, NEW b \in 0 .. MAX_BLOCKS - 1, PacketizeFails(n, b) PROVE UNCHANGED sendVars
  BY <1>5 DEF PacketizeFails
<1>6. ASSUME NEW k \in Keys, KeysUpdated(k) PROVE UNCHANGED sendVars
  BY <1>6 DEF KeysUpdated, sendVars
<1>7. UNCHANGED packetVars => UNCHANGED sendVars
  BY DEF packetVars
<1> QED
  BY <1>1, <1>2, <1>3, <1>4, <1>5, <1>6, <1>7 DEF PacketNext

LEMMA FrameInvCovers == FrameInv => FrameCovered
<1> SUFFICES ASSUME FrameInv, Sending PROVE FrameCovered
  BY DEF FrameCovered
<1>1. PICK last \in 0 .. 3 : Covers(batch, last + 1, frame, last)
  BY DEF FrameInv
<1> DEFINE data == {i \in 1 .. Len(batch) : batch[i].payload >= 0}
<1>2. {batch[i].payload : i \in data} = 0 .. frame - 1
  <2>1. ASSUME NEW i \in data PROVE batch[i].payload \in 0 .. frame - 1
    <3>1. batch[i].payload \in -1 .. frame - 1 /\ batch[i].payload >= 0
      BY <1>1 DEF Covers
    <3> QED
      BY <3>1
  <2>2. ASSUME NEW p \in 0 .. frame - 1 PROVE \E i \in data : batch[i].payload = p
    <3>1. PICK i \in 1 .. Len(batch) : batch[i].payload = p
      BY <1>1 DEF Covers
    <3> QED
      BY <3>1
  <2> HIDE DEF data
  <2> QED
    BY <2>1, <2>2
<1>3. \A i, j \in data : i < j => batch[i].payload < batch[j].payload
  BY <1>1 DEF Covers
<1>4. \A i \in 1 .. Len(batch) :
        /\ batch[i].block <= batch[i].last_block /\ batch[i].last_block < MAX_BLOCKS
        /\ (batch[i].index = 0) = (i = 1 \/ batch[i - 1].block # batch[i].block)
        /\ (batch[i].payload = -1) = (batch[i].index >= batch[i].of)
        /\ batch[i].payload = -1 => batch[i].index < MAX_SHARDS
  <2> SUFFICES ASSUME NEW i \in 1 .. Len(batch)
               PROVE  /\ batch[i].block <= batch[i].last_block /\ batch[i].last_block < MAX_BLOCKS
                      /\ (batch[i].index = 0) = (i = 1 \/ batch[i - 1].block # batch[i].block)
                      /\ (batch[i].payload = -1) = (batch[i].index >= batch[i].of)
                      /\ batch[i].payload = -1 => batch[i].index < MAX_SHARDS
    OBVIOUS
  <2>1. batch[i].block \in 0 .. last + 1 - 1 /\ batch[i].last_block = last
    BY <1>1 DEF Covers
  <2>2. batch[i].block <= batch[i].last_block /\ batch[i].last_block < MAX_BLOCKS
    BY <2>1 DEF MAX_BLOCKS
  <2>3. /\ (batch[i].index = 0) = (i = 1 \/ batch[i - 1].block # batch[i].block)
        /\ (batch[i].payload = -1) = (batch[i].index >= batch[i].of)
        /\ batch[i].payload = -1 => batch[i].index < MAX_SHARDS
    BY <1>1 DEF Covers
  <2> QED
    BY <2>2, <2>3
<1> QED
  BY <1>2, <1>3, <1>4 DEF FrameCovered

LEMMA FrameInvOrders == FrameInv => SentInOrderOnce
<1> DEFINE place(s) == CHOOSE i \in 1 .. Len(batch) : batch[i] = s
<1> SUFFICES ASSUME FrameInv, NEW i \in 1 .. Len(wire), NEW j \in 1 .. Len(wire), i < j
             PROVE  place(wire[i]) < place(wire[j])
  BY DEF SentInOrderOnce
<1>1. \A m \in 1 .. Len(wire) : \E p \in 1 .. Len(batch) : batch[p] = wire[m]
  <2>1. cursor \in 0 .. Len(batch) /\ Len(batch) \in Nat
    BY DEF FrameInv
  <2>2. 1 .. cursor \subseteq 1 .. Len(batch)
    BY <2>1
  <2> QED
    BY <2>2 DEF FrameInv, Among
<1>2. \A m \in 1 .. Len(wire) : place(wire[m]) \in 1 .. Len(batch) /\ batch[place(wire[m])] = wire[m]
  BY <1>1
<1> HIDE DEF place
<1> QED
  BY <1>2 DEF FrameInv, InOrder

\* What goes out for a frame is the frame, whatever the sizes, the share of parity
\* and the chunks are: every data shard is in one place of one of at most four
\* blocks, no block is longer than an error correction can be, and the shards leave
\* in order and once however chunks are refused (packetize, send_shards).
THEOREM FrameAlwaysDelivered == PacketSafe => []FrameDelivered
<1>1. FrameInv => FrameDelivered
  BY FrameInvCovers, FrameInvOrders DEF FrameDelivered
<1> QED
  BY <1>1, FrameInitially, FrameStep, PTL DEF PacketSafe

-----------------------------------------------------------------------------
(* The playback stream.                                                    *)

\* A stream that fills up waits for no more than its target; one that plays without
\* prebuffering has its target in the buffer, asked for, or missing.
DemandKept ==
  ~tuned /\ Roomy(attr) =>
    /\ awaited <= attr.target
    /\ attr.prebuf = 0 /\ state # "none" => len + owed + missing >= attr.target

StreamInv ==
  /\ PulseTypeOK /\ StreamAccounts /\ DemandKept
  /\ attr.prebuf <= attr.target

LEMMA NextMultiple ==
  ASSUME NEW x \in Nat, NEW m \in Nat \ {0} PROVE next_multiple_of(x, m) \in Nat
<1>1. (x + m - 1) \div m \in Nat
  OBVIOUS
<1>2. \A q \in Nat : q * m \in Nat
  OBVIOUS
<1> QED
  BY <1>1, <1>2 DEF next_multiple_of

\* The attributes that the server settles on (configure_buffer).
LEMMA Configured ==
  ASSUME NEW a \in Asked
  PROVE  configure_buffer(a) \in Attr /\ configure_buffer(a).prebuf <= configure_buffer(a).target
<1> USE PulseAssumption DEF PulseAssumption
<1> DEFINE most == IF a.max = Unset THEN Len10 * DefaultMax ELSE min(a.max, Len10 * LimitMax)
           least == IF a.minreq = Unset THEN Len10 \div 2 ELSE max(a.minreq, Len10 \div 2)
           target == IF a.target = Unset
                     THEN min(next_multiple_of(Len10 * TargetLen, least), most)
                     ELSE max(min(max(next_multiple_of(a.target, least), Len10 * TargetLen), most), 2 * least)
           prebuf == IF a.prebuf = Unset THEN target
                     ELSE min(next_multiple_of(a.prebuf, least), target)
<1>1. /\ a.max \in Nat \cup {Unset} /\ a.target \in Nat \cup {Unset}
      /\ a.minreq \in Nat \cup {Unset} /\ a.prebuf \in Nat \cup {Unset}
  BY DEF Asked
<1>2. Len10 * DefaultMax \in Nat /\ Len10 * LimitMax \in Nat /\ Len10 * TargetLen \in Nat
  OBVIOUS
<1>3. Len10 \div 2 \in Nat \ {0}
  OBVIOUS
<1>4. most \in Nat
  BY <1>1, <1>2 DEF min
<1>5. least \in Nat \ {0}
  BY <1>1, <1>3 DEF max
<1>6. target \in Nat
  <2> HIDE DEF most, least
  <2>1. a.target # Unset => next_multiple_of(a.target, least) \in Nat
    BY <1>1, <1>5, NextMultiple
  <2>2. next_multiple_of(Len10 * TargetLen, least) \in Nat
    BY <1>2, <1>5, NextMultiple
  <2> HIDE DEF next_multiple_of
  <2> QED
    BY <1>2, <1>4, <1>5, <2>1, <2>2 DEF min, max
<1>7. prebuf \in Nat /\ prebuf <= target
  <2> HIDE DEF target, least
  <2>1. a.prebuf # Unset => next_multiple_of(a.prebuf, least) \in Nat
    BY <1>1, <1>5, NextMultiple
  <2> QED
    BY <1>6, <2>1 DEF min
<1>8. configure_buffer(a) = [max |-> most, target |-> target, minreq |-> least, prebuf |-> prebuf]
  BY DEF configure_buffer
<1> QED
  <2> HIDE DEF most, least, target, prebuf
  <2> QED
    BY <1>4, <1>5, <1>6, <1>7, <1>8 DEF Attr

LEMMA RequestSums ==
  ASSUME NEW m \in Nat, NEW r \in Nat, NEW least \in Nat, NEW filling \in BOOLEAN, owed \in Nat,
         Request(m, r, least, filling)
  PROVE  /\ missing' \in Nat /\ requested' \in Nat /\ owed' \in Nat
         /\ owed' + missing' = owed + m /\ m <= owed' + missing'
         /\ \A k \in Nat : k + owed' + missing' = k + owed + m
BY DEF Request, pop_missing

\* The demand stays covered: a stream is seeded with what it waits for, every block
\* takes off what it waits for as much as it fills the buffer, a tick that takes
\* samples makes them missing, and whatever moves the target marks it tuned.
LEMMA StreamStep == ASSUME StreamInv, [PulseNext]_pulseVars PROVE StreamInv'
<1>0. TickLen \in Nat \ {0} /\ Excess \in Nat /\ Attrs \subseteq Asked /\ Drains \subseteq Nat
  BY PulseAssumption DEF PulseAssumption
<1>1. /\ attr \in Attr /\ attr.max \in Nat /\ attr.target \in Nat /\ attr.minreq \in Nat /\ attr.prebuf \in Nat
      /\ len \in Nat /\ missing \in Nat /\ requested \in Nat /\ owed \in Nat /\ awaited \in Nat /\ ahead \in Int
      /\ state \in StreamState /\ drainSeq \in Drains \cup {NoSeq} /\ open \subseteq Drains /\ tuned \in BOOLEAN
      /\ (state = "draining") = (drainSeq # NoSeq)
      /\ NoSeq \notin Drains
  BY <1>0 DEF StreamInv, PulseTypeOK, Attr, NoSeq
<1>2. /\ state # "prebuffering" => awaited = 0
      /\ ahead = len /\ Fed /\ DemandKept /\ attr.prebuf <= attr.target
  BY DEF StreamInv, PulseTypeOK, StreamAccounts, LatencyExact
<1>3. ASSUME NEW a \in Attrs
      PROVE  /\ configure_buffer(a) \in Attr
             /\ configure_buffer(a).max \in Nat /\ configure_buffer(a).target \in Nat
             /\ configure_buffer(a).minreq \in Nat /\ configure_buffer(a).prebuf \in Nat
             /\ configure_buffer(a).prebuf <= configure_buffer(a).target
  BY <1>0, Configured DEF Attr
\* What a step has to show: the new values are typed, and the demand is kept unless
\* the stream was tuned.
<1> DEFINE Typed ==
             /\ state' \in StreamState /\ awaited' \in Nat /\ (state' # "prebuffering" => awaited' = 0)
             /\ drainSeq' \in Drains \cup {NoSeq} /\ (state' = "draining") = (drainSeq' # NoSeq)
             /\ attr' \in Attr /\ open' \subseteq Drains
             /\ len' \in Nat /\ missing' \in Nat /\ requested' \in Nat /\ owed' \in Nat /\ ahead' = len'
             /\ attr'.prebuf <= attr'.target
           Lasting ==
             /\ state = "prebuffering" => awaited <= owed + missing /\ awaited <= attr.max - len
             /\ state = "playing" /\ owed = 0 /\ len < TickLen => attr.prebuf > 0 \/ missing >= attr.minreq
             /\ awaited <= attr.target
             /\ attr.prebuf = 0 /\ state # "none" => len + owed + missing >= attr.target
           LastingNext ==
             /\ state' = "prebuffering" => awaited' <= owed' + missing' /\ awaited' <= attr'.max - len'
             /\ state' = "playing" /\ owed' = 0 /\ len' < TickLen =>
                  attr'.prebuf > 0 \/ missing' >= attr'.minreq
             /\ awaited' <= attr'.target
             /\ attr'.prebuf = 0 /\ state' # "none" => len' + owed' + missing' >= attr'.target
<1>a. ~tuned /\ Roomy(attr) => Lasting
  BY <1>2 DEF Fed, DemandKept
<1>b. ASSUME Typed, tuned' \in BOOLEAN, ~tuned' /\ Roomy(attr)' => LastingNext PROVE StreamInv'
  <2>1. PulseTypeOK'
    BY <1>b DEF PulseTypeOK
  <2>2. Fed' /\ DemandKept'
    BY <1>b DEF Fed, DemandKept
  <2>3. LatencyExact' /\ attr'.prebuf <= attr'.target
    BY <1>b DEF LatencyExact
  <2> QED
    BY <2>1, <2>2, <2>3 DEF StreamInv, StreamAccounts
<1> HIDE DEF Typed, Lasting, LastingNext
<1>c. ASSUME Typed, UNCHANGED <<tuned, attr>>, Roomy(attr) /\ Lasting => LastingNext PROVE StreamInv'
  <2>1. Roomy(attr)' = Roomy(attr)
    BY <1>c DEF Roomy
  <2> QED
    BY <1>1, <1>a, <1>b, <1>c, <2>1
<1>d. ASSUME Typed, tuned' = TRUE PROVE StreamInv'
  BY <1>b, <1>d
<1>e. ASSUME Typed, tuned' = FALSE, Roomy(attr)' => LastingNext PROVE StreamInv'
  BY <1>b, <1>e
<1>f. Roomy(attr) =>
        /\ attr.target <= attr.max /\ attr.prebuf + TickLen <= attr.max + 1
        /\ attr.prebuf = 0 => attr.minreq + TickLen <= attr.target + 1
  BY DEF Roomy
<1>4. ASSUME NEW a \in Attrs, NEW corked \in BOOLEAN, CreatePlaybackStream(a, corked) PROVE StreamInv'
  <2> DEFINE ask == configure_buffer(a)
             filling == ~(ask.prebuf = 0 \/ corked)
  <2>1. /\ state = "none" /\ attr' = ask /\ len' = 0 /\ ahead' = 0 /\ tuned' = FALSE
        /\ drainSeq' = drainSeq /\ open' = open
        /\ IF filling THEN state' = "prebuffering" /\ awaited' = ask.prebuf
           ELSE state' = "corked" /\ awaited' = 0
        /\ Request(ask.target, 0, ask.minreq, filling)
    BY <1>4 DEF CreatePlaybackStream, Enters, Prebuffers
  <2>2. ask \in Attr /\ ask.max \in Nat /\ ask.target \in Nat /\ ask.minreq \in Nat
        /\ ask.prebuf \in Nat /\ ask.prebuf <= ask.target
    BY <1>3
  <2> HIDE DEF ask
  <2>3. /\ missing' \in Nat /\ requested' \in Nat /\ owed' \in Nat
        /\ owed' + missing' = owed + ask.target /\ ask.target <= owed' + missing'
        /\ \A k \in Nat : k + owed' + missing' = k + owed + ask.target
    BY <1>1, <2>1, <2>2, RequestSums
  <2>4. state' \in {"prebuffering", "corked"} /\ awaited' \in {0, ask.prebuf} /\ (state' = "corked" => awaited' = 0)
    BY <2>1
  <2>5. attr' = ask /\ len' = 0 /\ ahead' = 0 /\ drainSeq' = drainSeq /\ open' = open /\ state = "none"
    BY <2>1
  <2>7. Typed
    BY <2>2, <2>3, <2>4, <2>5, <1>0, <1>1, <1>2, <1>f DEF Typed, Roomy, Enters, Prebuffers, StreamState
  <2>8. ASSUME Roomy(attr)' PROVE LastingNext
    <3>0. Roomy(ask)
      BY <2>5, <2>8 DEF Roomy
    <3>1. state' = "prebuffering" => awaited' <= owed' + missing' /\ awaited' <= attr'.max - len'
      <4>1. 0 <= owed' + missing' /\ ask.prebuf <= owed' + missing'
        <5>1. owed' \in Nat /\ missing' \in Nat /\ ask.target <= owed' + missing'
          BY <2>3
        <5>2. owed' + missing' \in Nat
          <6>1. \A x, y \in Nat : x + y \in Nat
            OBVIOUS
          <6> QED
            BY <5>1, <6>1
        <5>3. ask.prebuf \in Nat /\ ask.target \in Nat /\ ask.prebuf <= ask.target
          BY <2>2
        <5>4. \A x, y, z \in Nat : x <= y /\ y <= z => x <= z /\ 0 <= z
          OBVIOUS
        <5> QED
          BY <5>1, <5>2, <5>3, <5>4
      <4>2. ask.prebuf <= ask.max - 0 /\ 0 <= ask.max - 0
        BY <1>0, <2>2, <3>0 DEF Roomy
      <4> QED
        BY <2>4, <2>5, <4>1, <4>2
    <3>3. awaited' <= attr'.target
      BY <3>0, <2>2, <2>3, <2>4, <2>5, <1>0, <1>1, <1>2, <1>f DEF Roomy, Enters, Prebuffers, StreamState
    <3>4. attr'.prebuf = 0 /\ state' # "none" => len' + owed' + missing' >= attr'.target
      BY <3>0, <2>2, <2>3, <2>4, <2>5, <1>0, <1>1, <1>2, <1>f DEF Roomy, Enters, Prebuffers, StreamState
    <3>5. state' = "playing" /\ owed' = 0 /\ len' < TickLen => attr'.prebuf > 0 \/ missing' >= attr'.minreq
      BY <3>0, <3>4, <2>2, <2>3, <2>4, <2>5, <1>0, <1>1, <1>2, <1>f DEF Roomy, Enters, Prebuffers, StreamState
    <3> QED
      BY <3>1, <3>3, <3>4, <3>5 DEF LastingNext
  <2>9. tuned' = FALSE
    BY <2>1
  <2> QED
    BY <2>7, <2>8, <2>9, <1>e
<1>5. ASSUME NEW a \in Attrs, SetPlaybackStreamBufferAttr(a) PROVE StreamInv'
  <2>7. Typed
    BY <1>3, <1>5, <1>0, <1>1, <1>2, <1>f DEF Typed, Roomy, SetPlaybackStreamBufferAttr, Enters, Prebuffers, StreamState, saturating_sub
  <2>9. tuned' = TRUE
    BY <1>3, <1>5 DEF SetPlaybackStreamBufferAttr
  <2> QED
    BY <2>7, <2>9, <1>d
<1>6. ASSUME NEW seq \in Drains, DrainPlaybackStream(seq) PROVE StreamInv'
  <2>7. Typed
    BY <1>6, <1>0, <1>1, <1>2, <1>f DEF Typed, Roomy, DrainPlaybackStream, Enters, Prebuffers, StreamState
  <2>8. Roomy(attr) /\ Lasting => LastingNext
    BY <1>6, <1>0, <1>1, <1>2, <1>f DEF Lasting, LastingNext, DrainPlaybackStream, Enters, Prebuffers, StreamState
  <2>9. UNCHANGED <<tuned, attr>>
    BY <1>6 DEF DrainPlaybackStream
  <2> QED
    BY <2>7, <2>8, <2>9, <1>c
<1>7. CASE Cork
  <2>7. Typed
    BY <1>7, <1>0, <1>1, <1>2, <1>f DEF Typed, Roomy, Cork, Enters, Prebuffers, StreamState
  <2>8. Roomy(attr) /\ Lasting => LastingNext
    BY <1>7, <1>0, <1>1, <1>2, <1>f DEF Lasting, LastingNext, Cork, Enters, Prebuffers, StreamState
  <2>9. UNCHANGED <<tuned, attr>>
    BY <1>7 DEF Cork
  <2> QED
    BY <2>7, <2>8, <2>9, <1>c
<1>8. CASE Uncork
  <2> DEFINE want == saturating_sub(attr.target, len)
  <2>1. want \in Nat /\ want <= attr.target /\ len + want >= attr.target /\ (want > 0 => len + want = attr.target)
    BY <1>1 DEF saturating_sub
  <2>2. Request(want, 0, attr.minreq, TRUE)
    BY <1>8 DEF Uncork
  <2>3. /\ missing' \in Nat /\ requested' \in Nat /\ owed' \in Nat
        /\ owed' + missing' = owed + want /\ want <= owed' + missing'
        /\ \A k \in Nat : k + owed' + missing' = k + owed + want
    BY <1>1, <2>1, <2>2, RequestSums
  <2> HIDE DEF want
  <2>4. /\ state = "corked" /\ tuned' = FALSE /\ UNCHANGED <<drainSeq, attr, len, ahead, open>>
        /\ IF want > 0 THEN state' = "prebuffering" /\ awaited' = want ELSE state' = "playing" /\ awaited' = 0
    BY <1>8 DEF Uncork, Prebuffers, Enters, want
  <2>5. UNCHANGED <<drainSeq, attr, len, ahead, open>> /\ state = "corked" /\ awaited' = want
        /\ state' \in {"prebuffering", "playing"} /\ (state' = "playing" => want = 0)
        /\ (state' = "prebuffering" => want > 0)
    BY <2>1, <2>4
  <2>6. len' + owed' + missing' = len + owed + want
    BY <1>1, <2>3, <2>5
  <2>10. len + owed + want >= attr.target /\ (Roomy(attr) /\ want > 0 => want <= attr.max - len)
    BY <1>1, <1>f, <2>1, <2>5
  <2>7. Typed
    BY <2>1, <2>3, <2>5, <2>6, <2>10, <1>0, <1>1, <1>2, <1>f DEF Typed, Roomy, Enters, Prebuffers, StreamState
  <2>8. ASSUME Roomy(attr)' PROVE LastingNext
    <3>0. Roomy(attr)
      BY <2>5, <2>8 DEF Roomy
    <3>1. state' = "prebuffering" => awaited' <= owed' + missing' /\ awaited' <= attr'.max - len'
      BY <3>0, <2>1, <2>3, <2>5, <2>6, <2>10, <1>0, <1>1, <1>2, <1>f DEF Roomy, Enters, Prebuffers, StreamState
    <3>3. awaited' <= attr'.target
      BY <3>0, <2>1, <2>3, <2>5, <2>6, <2>10, <1>0, <1>1, <1>2, <1>f DEF Roomy, Enters, Prebuffers, StreamState
    <3>4. attr'.prebuf = 0 /\ state' # "none" => len' + owed' + missing' >= attr'.target
      BY <3>0, <2>1, <2>3, <2>5, <2>6, <2>10, <1>0, <1>1, <1>2, <1>f DEF Roomy, Enters, Prebuffers, StreamState
    <3>5. state' = "playing" /\ owed' = 0 /\ len' < TickLen => attr'.prebuf > 0 \/ missing' >= attr'.minreq
      BY <3>0, <3>4, <2>1, <2>3, <2>5, <2>6, <2>10, <1>0, <1>1, <1>2, <1>f DEF Roomy, Enters, Prebuffers, StreamState
    <3> QED
      BY <3>1, <3>3, <3>4, <3>5 DEF LastingNext
  <2>9. tuned' = FALSE
    BY <2>4
  <2> QED
    BY <2>7, <2>8, <2>9, <1>e
<1>9. CASE FlushPlaybackStream
  <2>7. Typed
    BY <1>9, <1>0, <1>1, <1>2, <1>f DEF Typed, Roomy, FlushPlaybackStream, Enters, Prebuffers, StreamState
  <2>8. Roomy(attr) /\ Lasting => LastingNext
    BY <1>9, <1>0, <1>1, <1>2, <1>f DEF Lasting, LastingNext, FlushPlaybackStream, Enters, Prebuffers, StreamState
  <2>9. UNCHANGED <<tuned, attr>>
    BY <1>9 DEF FlushPlaybackStream
  <2> QED
    BY <2>7, <2>8, <2>9, <1>c
<1>10. CASE TriggerPlaybackStream
  <2>7. Typed
    BY <1>10, <1>0, <1>1, <1>2, <1>f DEF Typed, Roomy, TriggerPlaybackStream, Enters, Prebuffers, StreamState
  <2>8. Roomy(attr) /\ Lasting => LastingNext
    BY <1>10, <1>0, <1>1, <1>2, <1>f DEF Lasting, LastingNext, TriggerPlaybackStream, Enters, Prebuffers, StreamState
  <2>9. UNCHANGED <<tuned, attr>>
    BY <1>10 DEF TriggerPlaybackStream
  <2> QED
    BY <2>7, <2>8, <2>9, <1>c
<1>11. CASE PrebufPlaybackStream
  <2>7. Typed
    BY <1>11, <1>0, <1>1, <1>2, <1>f DEF Typed, Roomy, PrebufPlaybackStream, Enters, Prebuffers, StreamState
  <2>9. tuned' = TRUE
    BY <1>11 DEF PrebufPlaybackStream
  <2> QED
    BY <2>7, <2>9, <1>d
<1>12. ASSUME Removed, open' \subseteq open PROVE StreamInv'
  <2>7. Typed
    BY <1>12, <1>0, <1>1, <1>2, <1>f DEF Typed, Roomy, Removed, Enters, Prebuffers, StreamState, NoAttr, Attr
  <2>8. LastingNext
    BY <1>12, <1>0, <1>1, <1>2, <1>f DEF LastingNext, Roomy, Removed, Enters, Prebuffers, StreamState, NoAttr, Attr
  <2>9. tuned' = FALSE
    BY <1>12 DEF Removed
  <2> QED
    BY <2>7, <2>8, <2>9, <1>e
<1>13. ASSUME NEW n \in 1 .. owed + Excess, handle_stream_write(n) PROVE StreamInv'
  <2> DEFINE taken == min(n, saturating_sub(attr.max, len))
  <2>1. taken \in Nat /\ taken <= n /\ n \in Nat
    BY <1>0, <1>1 DEF min, saturating_sub
  <2>2. taken = n \/ len + taken >= attr.max
    BY <1>0, <1>1 DEF min, saturating_sub
  <2>3. /\ IF state = "prebuffering" /\ awaited > taken
           THEN state' = "prebuffering" /\ awaited' = awaited - taken
           ELSE state' = (IF state = "prebuffering" THEN "playing" ELSE state) /\ awaited' = 0
        /\ len' = len + taken /\ requested' = saturating_sub(requested, taken)
        /\ ahead' = ahead + taken /\ owed' = saturating_sub(owed, n)
        /\ state # "none" /\ UNCHANGED <<drainSeq, attr, missing, open, tuned>>
    BY <1>13 DEF handle_stream_write, Prebuffers, Enters
  <2>4. tuned' = tuned /\ UNCHANGED <<drainSeq, attr, missing, open>>
    BY <2>3
  <2> HIDE DEF taken
  <2>5. requested' \in Nat /\ owed' \in Nat /\ owed' >= owed - n
    BY <1>1, <2>1, <2>3 DEF saturating_sub
  <2>6. /\ len' = len + taken /\ ahead' = ahead + taken /\ state # "none"
        /\ UNCHANGED <<drainSeq, attr, missing, open>>
        /\ \/ state = "prebuffering" /\ awaited > taken /\ state' = state /\ awaited' = awaited - taken
           \/ state = "prebuffering" /\ awaited <= taken /\ state' = "playing" /\ awaited' = 0
           \/ state # "prebuffering" /\ state' = state /\ awaited' = 0
    BY <1>1, <2>1, <2>3
  <2>7. Typed
    BY <2>1, <2>2, <2>5, <2>6, <1>0, <1>1, <1>2, <1>f DEF Typed, Roomy, Enters, Prebuffers, StreamState
  <2>8. Roomy(attr) /\ Lasting => LastingNext
    BY <2>1, <2>2, <2>5, <2>6, <1>0, <1>1, <1>2, <1>f DEF Lasting, LastingNext, Enters, Prebuffers, StreamState
  <2>9. UNCHANGED <<tuned, attr>>
    BY <2>4
  <2> QED
    BY <2>7, <2>8, <2>9, <1>c
<1>14. CASE TickPlays
  <2>1. CASE state = "playing"
    <3>1. Request(missing + TickLen, requested, attr.minreq, FALSE)
      BY <1>14, <2>1 DEF TickPlays
    <3>2. missing + TickLen \in Nat
      BY <1>0, <1>1
    <3>3. /\ missing' \in Nat /\ requested' \in Nat /\ owed' \in Nat
          /\ owed' + missing' = owed + (missing + TickLen) /\ (missing + TickLen) <= owed' + missing'
          /\ \A k \in Nat : k + owed' + missing' = k + owed + (missing + TickLen)
      BY <1>1, <3>1, <3>2, RequestSums
    <3>4. len' = len - TickLen /\ ahead' = ahead - TickLen /\ len >= TickLen
      BY <1>14, <2>1 DEF TickPlays, Drained
    <3>5. UNCHANGED <<state, awaited, drainSeq, attr, open>> /\ tuned' = tuned
      BY <1>14, <2>1 DEF TickPlays
    <3>6. len' + owed' + missing' = len + owed + missing
      <4>1. len - TickLen \in Nat
        BY <1>0, <1>1, <3>4
      <4>2. len' + owed' + missing' = (len - TickLen) + owed + (missing + TickLen)
        BY <3>3, <3>4, <4>1
      <4> QED
        BY <1>0, <1>1, <4>2
    <3>7. Typed
      BY <2>1, <3>3, <3>4, <3>5, <3>6, <1>0, <1>1, <1>2, <1>f DEF Typed, Roomy, Enters, Prebuffers, StreamState
    <3>8. Roomy(attr) /\ Lasting => LastingNext
      <4> SUFFICES ASSUME Lasting, Roomy(attr) PROVE LastingNext
        OBVIOUS
      <4>1. state' = "prebuffering" => awaited' <= owed' + missing' /\ awaited' <= attr'.max - len'
        BY <2>1, <3>3, <3>4, <3>5, <3>6, <1>0, <1>1, <1>2, <1>f DEF Lasting, Enters, Prebuffers, StreamState
      <4>3. awaited' <= attr'.target
        BY <2>1, <3>3, <3>4, <3>5, <3>6, <1>0, <1>1, <1>2, <1>f DEF Lasting, Enters, Prebuffers, StreamState
      <4>4. attr'.prebuf = 0 /\ state' # "none" => len' + owed' + missing' >= attr'.target
        BY <2>1, <3>3, <3>4, <3>5, <3>6, <1>0, <1>1, <1>2, <1>f DEF Lasting, Enters, Prebuffers, StreamState
      <4>5. state' = "playing" /\ owed' = 0 /\ len' < TickLen => attr'.prebuf > 0 \/ missing' >= attr'.minreq
        BY <4>4, <2>1, <3>3, <3>4, <3>5, <3>6, <1>0, <1>1, <1>2, <1>f DEF Lasting, Enters, Prebuffers, StreamState
      <4> QED
        BY <4>1, <4>3, <4>4, <4>5 DEF LastingNext
    <3>9. UNCHANGED <<tuned, attr>>
      BY <3>5
    <3> QED
      BY <3>7, <3>8, <3>9, <1>c
  <2>2. CASE state = "draining" /\ len > TickLen
    <3>1. len' = len - TickLen /\ ahead' = ahead - TickLen /\ missing' = missing + TickLen
      BY <1>0, <1>1, <1>14, <2>2 DEF TickPlays
    <3>2. UNCHANGED <<state, awaited, drainSeq, attr, requested, owed, open>> /\ tuned' = tuned
      BY <1>0, <1>1, <1>14, <2>2 DEF TickPlays
    <3>7. Typed
      BY <2>2, <3>1, <3>2, <1>0, <1>1, <1>2, <1>f DEF Typed, Roomy, Enters, Prebuffers, StreamState
    <3>8. Roomy(attr) /\ Lasting => LastingNext
      BY <2>2, <3>1, <3>2, <1>0, <1>1, <1>2, <1>f DEF Lasting, LastingNext, Enters, Prebuffers, StreamState
    <3>9. UNCHANGED <<tuned, attr>>
      BY <3>2
    <3> QED
      BY <3>7, <3>8, <3>9, <1>c
  <2>3. CASE state = "draining" /\ len = TickLen
    <3>1. Removed /\ open' \subseteq open
      BY <1>14, <2>3, <1>0 DEF TickPlays
    <3> QED
      BY <3>1, <1>12
  <2> QED
    BY <1>14, <2>1, <2>2, <2>3 DEF TickPlays
<1>15. CASE TickUnderruns
  <2>0. len < TickLen
    BY <1>15, <1>0, <1>1 DEF TickUnderruns, Drained
  <2>1. CASE attr.prebuf > 0
    <3>1. attr.prebuf # 0
      BY <2>1, <1>1
    <3>2. Request(attr.prebuf, 0, attr.minreq, TRUE)
      BY <1>15, <3>1 DEF TickUnderruns
    <3>3. /\ missing' \in Nat /\ requested' \in Nat /\ owed' \in Nat
          /\ owed' + missing' = owed + attr.prebuf /\ attr.prebuf <= owed' + missing'
          /\ \A k \in Nat : k + owed' + missing' = k + owed + attr.prebuf
      BY <1>1, <3>2, RequestSums
    <3>4. /\ state = "playing" /\ state' = "prebuffering" /\ awaited' = attr.prebuf
          /\ UNCHANGED <<drainSeq, attr, len, ahead, open>> /\ tuned' = FALSE
      BY <1>15, <3>1 DEF TickUnderruns, Prebuffers
    <3>7. Typed
      BY <2>0, <2>1, <3>3, <3>4, <1>0, <1>1, <1>2, <1>f DEF Typed, Roomy, Enters, Prebuffers, StreamState
    <3>8. ASSUME Roomy(attr)' PROVE LastingNext
      <4>1. Roomy(attr)
        BY <3>4, <3>8 DEF Roomy
      <4> QED
        BY <4>1, <2>0, <2>1, <3>3, <3>4, <1>0, <1>1, <1>2, <1>f DEF LastingNext, Enters, Prebuffers, StreamState
    <3>9. tuned' = FALSE
      BY <3>4
    <3> QED
      BY <3>7, <3>8, <3>9, <1>e
  <2>2. CASE attr.prebuf = 0
    <3>1. ~(attr.prebuf > 0)
      BY <2>2
    <3>2. Request(missing, requested, attr.minreq, FALSE)
      BY <1>15, <3>1 DEF TickUnderruns
    <3>3. /\ missing' \in Nat /\ requested' \in Nat /\ owed' \in Nat
          /\ owed' + missing' = owed + missing /\ missing <= owed' + missing'
          /\ \A k \in Nat : k + owed' + missing' = k + owed + missing
      BY <1>1, <3>2, RequestSums
    <3>4. UNCHANGED <<state, awaited, drainSeq, attr, len, ahead, open>> /\ tuned' = tuned /\ state = "playing"
      BY <1>15, <3>1 DEF TickUnderruns
    <3>6. len' + owed' + missing' = len + owed + missing
      BY <1>1, <3>3, <3>4
    <3>7. Typed
      BY <2>0, <2>2, <3>3, <3>4, <3>6, <1>0, <1>1, <1>2, <1>f DEF Typed, Roomy, Enters, Prebuffers, StreamState
    <3>8. Roomy(attr) /\ Lasting => LastingNext
      <4> SUFFICES ASSUME Lasting, Roomy(attr) PROVE LastingNext
        OBVIOUS
      <4>1. state' = "prebuffering" => awaited' <= owed' + missing' /\ awaited' <= attr'.max - len'
        BY <2>0, <2>2, <3>3, <3>4, <3>6, <1>0, <1>1, <1>2, <1>f DEF Lasting, Enters, Prebuffers, StreamState
      <4>3. awaited' <= attr'.target
        BY <2>0, <2>2, <3>3, <3>4, <3>6, <1>0, <1>1, <1>2, <1>f DEF Lasting, Enters, Prebuffers, StreamState
      <4>4. attr'.prebuf = 0 /\ state' # "none" => len' + owed' + missing' >= attr'.target
        BY <2>0, <2>2, <3>3, <3>4, <3>6, <1>0, <1>1, <1>2, <1>f DEF Lasting, Enters, Prebuffers, StreamState
      <4>5. state' = "playing" /\ owed' = 0 /\ len' < TickLen => attr'.prebuf > 0 \/ missing' >= attr'.minreq
        BY <4>4, <2>0, <2>2, <3>3, <3>4, <3>6, <1>0, <1>1, <1>2, <1>f DEF Lasting, Enters, Prebuffers, StreamState
      <4> QED
        BY <4>1, <4>3, <4>4, <4>5 DEF LastingNext
    <3>9. UNCHANGED <<tuned, attr>>
      BY <3>4
    <3> QED
      BY <3>7, <3>8, <3>9, <1>c
  <2> QED
    BY <1>1, <2>1, <2>2
<1>16. CASE TickRequests
  <2>1. Request(missing, requested, attr.minreq, state = "prebuffering")
    BY <1>16 DEF TickRequests
  <2>2. /\ missing' \in Nat /\ requested' \in Nat /\ owed' \in Nat
        /\ owed' + missing' = owed + missing /\ missing <= owed' + missing'
        /\ \A k \in Nat : k + owed' + missing' = k + owed + missing
    BY <1>1, <2>1, RequestSums
  <2>3. UNCHANGED <<state, awaited, drainSeq, attr, len, ahead, open>> /\ tuned' = tuned /\ state # "playing"
    BY <1>16 DEF TickRequests
  <2>6. len' + owed' + missing' = len + owed + missing
    BY <1>1, <2>2, <2>3
  <2>7. Typed
    BY <2>2, <2>3, <2>6, <1>0, <1>1, <1>2, <1>f DEF Typed, Roomy, Enters, Prebuffers, StreamState
  <2>8. Roomy(attr) /\ Lasting => LastingNext
    <3> SUFFICES ASSUME Lasting, Roomy(attr) PROVE LastingNext
      OBVIOUS
    <3>1. state' = "prebuffering" => awaited' <= owed' + missing' /\ awaited' <= attr'.max - len'
      BY <2>2, <2>3, <2>6, <1>0, <1>1, <1>2, <1>f DEF Lasting, Enters, Prebuffers, StreamState
    <3>3. awaited' <= attr'.target
      BY <2>2, <2>3, <2>6, <1>0, <1>1, <1>2, <1>f DEF Lasting, Enters, Prebuffers, StreamState
    <3>4. attr'.prebuf = 0 /\ state' # "none" => len' + owed' + missing' >= attr'.target
      BY <2>2, <2>3, <2>6, <1>0, <1>1, <1>2, <1>f DEF Lasting, Enters, Prebuffers, StreamState
    <3>5. state' = "playing" /\ owed' = 0 /\ len' < TickLen => attr'.prebuf > 0 \/ missing' >= attr'.minreq
      BY <3>4, <2>2, <2>3, <2>6, <1>0, <1>1, <1>2, <1>f DEF Lasting, Enters, Prebuffers, StreamState
    <3> QED
      BY <3>1, <3>3, <3>4, <3>5 DEF LastingNext
  <2>9. UNCHANGED <<tuned, attr>>
    BY <2>3
  <2> QED
    BY <2>7, <2>8, <2>9, <1>c
<1>17. CASE UNCHANGED pulseVars
  BY <1>17 DEF pulseVars, StreamInv, PulseTypeOK, StreamAccounts, LatencyExact, Fed, DemandKept, Roomy
<1>18. CASE DeletePlaybackStream \/ ClientGone
  BY <1>18, <1>12 DEF DeletePlaybackStream, ClientGone
<1> QED
  BY <1>4, <1>5, <1>6, <1>7, <1>8, <1>9, <1>10, <1>11, <1>13, <1>14, <1>15, <1>16, <1>17, <1>18
     DEF PulseNext, Tick, Command

\* The offsets of a stream agree with its buffer, and while its attributes leave room so
\* does its demand, for any attributes that clients ask for and any order of commands,
\* writes and ticks (clock_tick, handle_stream_write, the commands of handle_command).
THEOREM AccountsAgree == PulseSafe => []StreamAccounts
<1>1. PulseInit => StreamInv
  <2> SUFFICES ASSUME PulseInit PROVE StreamInv
    OBVIOUS
  <2>1. PulseTypeOK
    <3>1. (state = "draining") = (drainSeq # NoSeq)
      BY DEF PulseInit
    <3>2. attr \in Attr
      BY DEF PulseInit, NoAttr, Attr
    <3>3. awaited = 0 /\ state \in StreamState /\ drainSeq \in Drains \cup {NoSeq} /\ tuned \in BOOLEAN
      BY DEF PulseInit, StreamState
    <3>4. {len, missing, requested, owed} \subseteq Nat /\ ahead \in Int /\ open \subseteq Drains
      BY DEF PulseInit
    <3> QED
      BY <3>1, <3>2, <3>3, <3>4 DEF PulseTypeOK
  <2>2. StreamAccounts /\ DemandKept
    BY DEF PulseInit, StreamAccounts, LatencyExact, Fed, DemandKept, NoAttr
  <2>3. attr.prebuf <= attr.target
    BY DEF PulseInit, NoAttr
  <2> QED
    BY <2>1, <2>2, <2>3 DEF StreamInv
<1>2. StreamInv => StreamAccounts
  BY DEF StreamInv
<1>3. StreamInv /\ [PulseNext]_pulseVars => StreamInv'
  BY StreamStep
<1> QED
  BY <1>1, <1>2, <1>3, PTL DEF PulseSafe

-----------------------------------------------------------------------------
(* The audio server's loop.                                                *)

Receives(p) == loop = "recv" /\ reading = p

\* A client that the server hears of: an edge, an event of the last poll, or its reads.
Noticed(p) ==
  \/ p \in fresh \/ Receives(p)
  \/ Event(p, "readable") \in events \/ Event(p, "closed") \in events

\* Between two polls, too: replies are watched or their reader is served, input is
\* noticed, and what a client leaves behind is empty.
LoopInv ==
  /\ clients \subseteq Peers /\ backlog \subseteq Peers
  /\ out \in [Peers -> Nat]
  /\ sock \in [Peers -> Int] /\ peer \in [Peers -> {"away", "connected", "closed"}]
  /\ loop = "poll" => events = {}
  /\ loop = "recv" => reading \in clients
  /\ \A p \in Peers \ clients : out[p] = 0
  /\ \A p \in clients : out[p] > 0 => p \in watched \/ Receives(p)
  /\ \A p \in clients : sock[p] > 0 \/ peer[p] = "closed" => Noticed(p)

\* Of the clients it is for, a flush leaves those watched that have not taken all
\* their replies; it only drops clients, and leaves nothing of them (flush_client).
LEMMA Flushed ==
  ASSUME NEW ps, ps \subseteq Peers, NEW pending \in [Peers -> Nat], clients \subseteq Peers,
         \A p \in Peers \ clients : pending[p] = 0,
         flush_client(ps, pending)
  PROVE  /\ clients' \subseteq clients /\ out' \in [Peers -> Nat]
         /\ \A p \in Peers \ clients' : out'[p] = 0
         /\ \A p \in clients' \cap ps : out'[p] > 0 => p \in watched'
         /\ \A p \in clients' \ ps : out'[p] = pending[p] /\ (p \in watched => p \in watched')
<1> DEFINE lost == {p \in ps \cap clients : Hopeless(p, pending[p])}
           alive == (ps \cap clients) \ lost
<1>1. PICK left \in [alive -> 0 .. OutgoingCap] :
        /\ clients' = clients \ lost
        /\ out' = [p \in Peers |-> IF p \in alive THEN left[p] ELSE IF p \in lost THEN 0 ELSE pending[p]]
        /\ watched' = (watched \ ps) \cup {p \in alive : left[p] > 0}
  BY DEF flush_client
<1>2. \A p \in alive : left[p] \in Nat
  BY ServerAssumption DEF ServerAssumption
<1> HIDE DEF lost
<1>3. out' \in [Peers -> Nat]
  BY <1>1, <1>2
<1>4. ASSUME NEW p \in Peers \ clients' PROVE out'[p] = 0
  BY <1>1, <1>4
<1>5. ASSUME NEW p \in clients' \cap ps, out'[p] > 0 PROVE p \in watched'
  BY <1>1, <1>5
<1>6. ASSUME NEW p \in clients' \ ps PROVE out'[p] = pending[p] /\ (p \in watched => p \in watched')
  BY <1>1
<1> QED
  BY <1>1, <1>3, <1>4, <1>5, <1>6

\* Dropping a client leaves nothing of it, and the others as they are.
LEMMA Dropped ==
  ASSUME LoopInv, NEW p \in Peers, Drop(p), UNCHANGED <<sock, peer, backlog>>, fresh \subseteq fresh',
         loop' # "recv", loop' # "poll", loop = "recv" => reading = p,
         \A q \in Peers, kind \in {"readable", "closed"} :
           q # p /\ Event(q, kind) \in events => Event(q, kind) \in events'
  PROVE  LoopInv'
<1> USE DEF LoopInv, Drop, Noticed, Receives
<1>1. clients' \subseteq Peers /\ out' \in [Peers -> Nat] /\ \A q \in Peers \ clients' : out'[q] = 0
  OBVIOUS
<1>2. \A q \in clients' : out'[q] > 0 => q \in watched'
  OBVIOUS
<1>3. \A q \in clients' : sock'[q] > 0 \/ peer'[q] = "closed" => Noticed(q)'
  OBVIOUS
<1> QED
  BY <1>1, <1>2, <1>3

\* Whatever the loop does between two polls, and whatever the applications do to their
\* sockets meanwhile, no client is forgotten (the loop of PulseServer::run, recv,
\* flush_client).
LEMMA LoopKeeps == ASSUME LoopInv, [ServerNext]_serverVars PROVE LoopInv'
<1> USE DEF LoopInv, Noticed, Receives
<1>1. ASSUME NEW p \in Peers, PeerConnects(p) PROVE LoopInv'
  BY <1>1 DEF PeerConnects, loopVars, tableVars
<1>2. ASSUME NEW p \in Peers, PeerSends(p) PROVE LoopInv'
  BY <1>2 DEF PeerSends, Reaches, loopVars, tableVars
<1>3. ASSUME NEW p \in Peers, PeerHangsUp(p) PROVE LoopInv'
  BY <1>3 DEF PeerHangsUp, Reaches, loopVars, tableVars
<1>4. CASE Poll
  <2>1. /\ loop = "poll" /\ loop' # "recv" /\ loop' # "poll"
        /\ UNCHANGED <<peer, backlog, sock, clients, out, watched>>
    BY <1>4 DEF Poll, tableVars
  <2>2. ASSUME NEW p \in clients, p \in fresh PROVE Event(p, "readable") \in events' \/ Event(p, "closed") \in events'
    <3>1. PICK clock \in SUBSET {Clock}, room \in SUBSET watched :
            events' = clock \cup {Accept : q \in backlog} \cup UNION {Edge(q, room) : q \in Peers}
      BY <1>4 DEF Poll
    <3>2. Event(p, "closed") \in Edge(p, room) \/ Event(p, "readable") \in Edge(p, room)
      BY <2>2 DEF Edge
    <3> QED
      BY <2>2, <3>1, <3>2
  <2> QED
    BY <2>1, <2>2
<1>5. CASE EventsDone
  BY <1>5 DEF EventsDone, peerVars, tableVars
<1>6. CASE HandleListener
  <2>1. /\ loop = "events" /\ events' = events \ {Accept} /\ UNCHANGED <<loop, reading, peer, sock, out, watched>>
        /\ clients' = clients \cup backlog /\ fresh' = fresh \cup backlog /\ backlog' = {}
    BY <1>6 DEF HandleListener, Takes
  <2>2. \A p \in Peers : Event(p, "readable") # Accept /\ Event(p, "closed") # Accept
    BY DEF Event, Accept
  <2>3. \A p \in clients' : out'[p] > 0 => p \in watched'
    BY <2>1
  <2>4. \A p \in clients' : sock'[p] > 0 \/ peer'[p] = "closed" => Noticed(p)'
    BY <2>1, <2>2
  <2> QED
    BY <2>1, <2>3, <2>4
<1>7. ASSUME NEW p \in Peers, HandleReadClosed(p) PROVE LoopInv'
  <2>1. /\ loop = "events" /\ loop' = loop /\ Drop(p) /\ UNCHANGED <<peer, backlog, sock, fresh>>
        /\ events' = events \ {Event(p, "closed")}
    BY <1>7 DEF HandleReadClosed, Takes, peerVars
  <2>2. \A q \in Peers, kind \in {"readable", "closed"} : q # p => Event(q, kind) # Event(p, "closed")
    BY DEF Event
  <2> QED
    BY <2>1, <2>2, Dropped
<1>8. ASSUME NEW p \in Peers, HandleReadable(p) PROVE LoopInv'
  <2>1. /\ loop = "events" /\ UNCHANGED <<peer, backlog, sock, fresh, clients, out, watched>>
        /\ events' = events \ {Event(p, "readable")}
        /\ IF p \in clients THEN loop' = "recv" /\ reading' = p ELSE UNCHANGED <<loop, reading>>
    BY <1>8 DEF HandleReadable, Takes, peerVars, tableVars
  <2>2. \A q \in Peers, kind \in {"readable", "closed"} :
          Event(q, kind) # Event(p, "readable") \/ (q = p /\ kind = "readable")
    BY DEF Event
  <2>3. \A q \in clients' : sock'[q] > 0 \/ peer'[q] = "closed" => Noticed(q)'
    BY <2>1, <2>2
  <2> QED
    BY <2>1, <2>3
<1>9. ASSUME NEW p \in Peers, HandleWritable(p) PROVE LoopInv'
  <2>1. /\ loop = "events" /\ UNCHANGED <<loop, reading, peer, backlog, sock, fresh>>
        /\ events' = events \ {Event(p, "writable")} /\ flush_client({p}, out)
    BY <1>9 DEF HandleWritable, Takes, peerVars
  <2>2. \A q \in Peers, kind \in {"readable", "closed"} : Event(q, kind) # Event(p, "writable")
    BY DEF Event
  <2>3. /\ clients' \subseteq clients /\ out' \in [Peers -> Nat]
        /\ \A q \in Peers \ clients' : out'[q] = 0
        /\ \A q \in clients' : out'[q] > 0 => q \in watched'
    BY <2>1, Flushed
  <2> QED
    BY <2>1, <2>2, <2>3
<1>10. CASE RecvMessage
  <2>1. /\ loop = "recv" /\ UNCHANGED <<loop, reading, events, peer, backlog, fresh, clients, watched>>
        /\ sock' = [sock EXCEPT ![reading] = @ - 1]
    BY <1>10 DEF RecvMessage, loopVars
  <2>2. PICK replies \in Replies :
          out' = [out EXCEPT ![reading] = IF @ > OutgoingCap THEN @ ELSE @ + replies]
    BY <1>10 DEF RecvMessage
  <2>3. replies \in Nat /\ reading \in Peers
    BY <2>1 DEF Replies
  <2>4. out' \in [Peers -> Nat] /\ \A q \in Peers : q # reading => out'[q] = out[q]
    BY <2>2, <2>3
  <2>5. sock' \in [Peers -> Int] /\ \A q \in Peers : q # reading => sock'[q] = sock[q]
    BY <2>1, <2>3
  <2> QED
    BY <2>1, <2>3, <2>4, <2>5
<1>11. CASE RecvFails
  <2>1. /\ loop = "recv" /\ loop' = "events" /\ events' = events /\ Drop(reading)
        /\ sock' = [sock EXCEPT ![reading] = @ - 1] /\ UNCHANGED <<peer, backlog, fresh>> /\ reading \in Peers
    BY <1>11 DEF RecvFails, Returns
  <2>2. sock' \in [Peers -> Int] /\ \A q \in Peers : q # reading => sock'[q] = sock[q]
    BY <2>1
  <2>3. clients' \subseteq Peers /\ out' \in [Peers -> Nat] /\ \A q \in Peers \ clients' : out'[q] = 0
    BY <2>1 DEF Drop
  <2>4. \A q \in clients' : out'[q] > 0 => q \in watched'
    BY <2>1 DEF Drop
  <2>5. \A q \in clients' : sock'[q] > 0 \/ peer'[q] = "closed" => Noticed(q)'
    BY <2>1, <2>2 DEF Drop
  <2> QED
    BY <2>1, <2>2, <2>3, <2>4, <2>5
<1>12. CASE RecvWouldBlock
  <2>1. /\ loop = "recv" /\ sock[reading] = 0 /\ peer[reading] # "closed" /\ flush_client({reading}, out)
        /\ loop' = "events" /\ events' = events /\ UNCHANGED <<peer, backlog, sock, fresh>> /\ reading \in Peers
    BY <1>12 DEF RecvWouldBlock, Returns, peerVars
  <2>2. /\ clients' \subseteq clients /\ out' \in [Peers -> Nat]
        /\ \A q \in Peers \ clients' : out'[q] = 0
        /\ \A q \in clients' : out'[q] > 0 => q \in watched'
    BY <2>1, Flushed
  <2>3. \A q \in clients' : sock'[q] > 0 \/ peer'[q] = "closed" => Noticed(q)'
    BY <2>1, <2>2
  <2> QED
    BY <2>1, <2>2, <2>3
<1>13. CASE clock_tick
  <2>1. /\ loop = "events" /\ UNCHANGED <<loop, reading, peer, backlog, sock, fresh>>
        /\ events' = events \ {Clock}
    BY <1>13 DEF clock_tick, Takes, peerVars
  <2>2. \A p \in Peers : Event(p, "readable") # Clock /\ Event(p, "closed") # Clock
    BY DEF Event, Clock
  <2>3. PICK ticked \in SUBSET clients :
          flush_client(clients, [p \in Peers |-> out[p] + IF p \in ticked THEN 1 ELSE 0])
    BY <1>13 DEF clock_tick
  <2> DEFINE pending == [p \in Peers |-> out[p] + IF p \in ticked THEN 1 ELSE 0]
  <2>4. pending \in [Peers -> Nat] /\ \A p \in Peers \ clients : pending[p] = 0
    OBVIOUS
  <2> HIDE DEF pending
  <2>5. flush_client(clients, pending)
    BY <2>3 DEF pending
  <2>6. /\ clients' \subseteq clients /\ out' \in [Peers -> Nat]
        /\ \A q \in Peers \ clients' : out'[q] = 0
        /\ \A q \in clients' : out'[q] > 0 => q \in watched'
    BY <2>4, <2>5, Flushed
  <2> QED
    BY <2>1, <2>2, <2>6
<1>14. CASE TickGivesUp
  <2>1. /\ loop = "events" /\ UNCHANGED <<loop, reading, peer, backlog, sock, fresh, clients, out, watched>>
        /\ events' = events \ {Clock}
    BY <1>14 DEF TickGivesUp, Takes, peerVars, tableVars
  <2>2. \A p \in Peers : Event(p, "readable") # Clock /\ Event(p, "closed") # Clock
    BY DEF Event, Clock
  <2> QED
    BY <2>1, <2>2
<1>15. ASSUME UNCHANGED <<peerVars, loopVars, tableVars>> PROVE LoopInv'
  BY <1>15 DEF peerVars, loopVars, tableVars
<1>16. CASE RecvEndOfFile \/ EncoderStep \/ EncoderStarts \/ StopTriggered \/ UNCHANGED serverVars
  BY <1>15, <1>16
     DEF RecvEndOfFile, EncoderStep, EncoderTakes, EncoderRecycles, EncoderEnds, EncoderStarts, StopTriggered,
         serverVars
<1> QED
  BY <1>1, <1>2, <1>3, <1>4, <1>5, <1>6, <1>7, <1>8, <1>9, <1>10, <1>11, <1>12, <1>13, <1>14, <1>16
     DEF ServerNext, LoopStep

\* Whenever the server polls, whoever has replies to take is watched, and whoever has
\* sent something or hung up has an edge that the poll will report: nobody is stranded
\* by the edge-triggered poll, for any number of clients, messages and replies
\* (flush_client, the READABLE and WRITABLE arms of the loop).
THEOREM NobodyStranded == ServerSafe => []NothingStranded
<1>1. ServerInit => LoopInv
  BY DEF ServerInit, LoopInv, Receives, Noticed
<1>2. LoopInv => NothingStranded
  BY DEF LoopInv, Receives, Noticed, NothingStranded, PendingWatched, InputSeen
<1>3. LoopInv /\ [ServerNext]_serverVars => LoopInv'
  BY LoopKeeps
<1> QED
  BY <1>1, <1>2, <1>3, PTL DEF ServerSafe

-----------------------------------------------------------------------------
(* The control loop.                                                       *)

\* HdrTold does not need the StartB; a connection that the loop has not heard of yet
\* was told nothing, and the one it knows is not reported again while it lasts.
HdrInv ==
  /\ hdrState \in Nat /\ hdrSeen \in Nat /\ hdrSeen <= hdrState
  /\ connected \in Clients \cup {NoClient} /\ linked \subseteq Clients
  /\ hdrTold \in [Clients -> Int]
  /\ \A c \in unreported \cap linked : hdrTold[c] = -1 /\ connected # c
  /\ connected \in linked /\ hdrTold[connected] \notin {-1, hdrState} => hdrSeen # hdrState

\* The steps of the control loop that tell the client about HDR, or that change whom
\* it would tell, keep what it was told behind what is marked as unseen (SendHdr,
\* HandleConnect, HandleDisconnect of the loop of ControlStreamInner::run).
LEMMA HdrStep == ASSUME HdrInv, [ControlNext]_controlVars PROVE HdrInv'
<1> USE ControlAssumption DEF ControlAssumption, HdrInv
<1>1. ASSUME UNCHANGED <<linkVars, hdrVars>> PROVE HdrInv'
  BY <1>1 DEF linkVars, hdrVars
<1>2. ASSUME NEW c \in Clients, PeerLinks(c) PROVE HdrInv'
  BY <1>2 DEF PeerLinks, hdrVars
<1>3. ASSUME NEW c \in Clients, PeerLost(c) PROVE HdrInv'
  BY <1>3 DEF PeerLost, hdrVars
<1>4. ASSUME NEW c \in Clients, HandleConnect(c) PROVE HdrInv'
  BY <1>4 DEF HandleConnect, hdrVars
<1>5. ASSUME NEW c \in Clients, HandleDisconnect(c) PROVE HdrInv'
  BY <1>5 DEF HandleDisconnect, hdrVars
<1>6. ASSUME NEW c \in Clients, HandleStartB(c) PROVE HdrInv'
  BY <1>6 DEF HandleStartB
<1>7. CASE SendHdr
  BY <1>7 DEF SendHdr
<1>8. CASE HdrStateChanges
  BY <1>8 DEF HdrStateChanges, linkVars
<1>9. CASE UNCHANGED controlVars
  BY <1>9, <1>1 DEF controlVars
<1>10. CASE ControlLoopEnds \/ TakeFeedback \/ Forwarded \/ HandlerGone
  BY <1>10, <1>1 DEF ControlLoopEnds, TakeFeedback, Forwarded, HandlerGone
<1>11. CASE HandleNothing \/ HandleUndecodable \/ HandleMalformed \/ HandlePing
  BY <1>11, <1>1 DEF HandleNothing, HandleUndecodable, HandleMalformed, HandlePing
<1>12. ASSUME NEW e \in GamepadEvents, HandleGamepadInput(e) PROVE HdrInv'
  BY <1>12, <1>1 DEF HandleGamepadInput
<1>13. CASE HandlerStep \/ DeviceCallback \/ DeadlinePasses \/ SessionStops
  BY <1>13, <1>1 DEF HandlerStep, HandlerTakes, HandlerSends, DeviceCallback, DeadlinePasses, SessionStops
<1> QED
  BY <1>2, <1>3, <1>4, <1>5, <1>6, <1>7, <1>8, <1>9, <1>10, <1>11, <1>12, <1>13
     DEF ControlNext, LoopRound, Handle

\* A client that was told the HDR state is never left with an old one, whatever
\* connections come and go and however often the state changes (send_hdr_mode and
\* hdr_metadata_rx in the loop of ControlStreamInner::run).
THEOREM HdrAlwaysTold == ControlSafe => []HdrTold
<1>1. ControlInit => HdrInv
  BY ControlAssumption DEF ControlAssumption, ControlInit, HdrInv
<1>2. HdrInv => HdrTold
  BY DEF HdrInv, HdrTold
<1> QED
  BY <1>1, <1>2, HdrStep, PTL DEF ControlSafe

-----------------------------------------------------------------------------
(* The Vulkan layer.                                                       *)

\* What an enumeration writes fits the caller's buffer, and is everything exactly when
\* it is said to be: for any numbers of entries (append_hdr_formats).
LEMMA AppendExact ==
  ASSUME NEW have \in Nat, NEW extra \in Nat, NEW caller \in Nat
  PROVE  LET r == append_hdr_formats(have, extra, caller)
         IN /\ r.written \in Nat /\ r.written <= caller
            /\ r.code = "SUCCESS" <=> r.written = have + extra
BY DEF append_hdr_formats

\* The enumeration just made, if any, is exact: every other call forgets it.
\* (get_physical_device_surface_formats, enumerate_device_extension_properties).
THEOREM ListingsExact == WsiInit /\ [][WsiNext]_wsiVars => []ListingExact
<1>1. WsiInit => ListingExact
  BY DEF WsiInit, ListingExact, NoListing
<1>2. ListingExact /\ [WsiNext]_wsiVars => ListingExact'
  <2> SUFFICES ASSUME ListingExact, [WsiNext]_wsiVars PROVE ListingExact'
    OBVIOUS
  <2>1. ASSUME NEW have \in Nat, NEW caller \in Nat, NEW extra \in Nat,
               listing' = Listed(have, extra, caller)
        PROVE  ListingExact'
    BY <2>1, AppendExact DEF Listed, ListingExact
  <2>2. CASE Enumerate
    BY <2>1, <2>2 DEF Enumerate, get_physical_device_surface_formats, enumerate_device_extension_properties
  <2>3. CASE listing' \in {listing, NoListing}
    BY <2>3 DEF ListingExact, NoListing
  <2>4. CASE ~Enumerate
    BY <2>3, <2>4
       DEF WsiNext, wsiVars, CreateInstance, CreateXcbSurface, DestroySurface, WindowChanges,
           LimiterChanges, CompositorGone, RefreshCycle, InsertSwapchain, Presented, DestroySwapchain,
           QueuePresent, CreateSwapchain, WorldStill, LayerStill
  <2> QED
    BY <2>2, <2>4
<1> QED
  BY <1>1, <1>2, PTL
=============================================================================
