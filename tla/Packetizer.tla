----------------------------- MODULE Packetizer ------------------------------
(***************************************************************************)
(* From an encoded frame to UDP packets: the packetizer splits it into     *)
(* blocks of data shards with parity shards, numbers and encrypts them,    *)
(* and the packet handler sends the batch in GSO chunks or shard by shard. *)
(* A frame is known by the number of its data shards, a shard by its place *)
(* in the frame; payload bytes, timestamps and tags are left out.          *)
(***************************************************************************)
EXTENDS Integers, Sequences, Lists

CONSTANTS
  MAX_SHARDS,     \* shards of a block: 255 in the code
  FecPercentage,  \* of the session
  MinimumFec,     \* minimum_fec_packets
  FrameSizes,     \* data shards of the frames that are encoded
  Keys,           \* session keys, each with a key id of its own
  KeyIdOf(_),     \* remote_input_key_id of a key
  Encrypt,        \* the client asked for encrypted video
  MaxSegments,    \* segments per GSO send: kernel cap and datagram size together
  PacketLimit     \* bound: shards numbered in a run

MAX_BLOCKS == 4
NoKey == "no key"

ASSUME PacketAssumption ==
  /\ MAX_SHARDS \in Nat \ {0} /\ FecPercentage \in 0 .. 255 /\ MinimumFec \in Nat
  /\ FrameSizes \subseteq Nat \ {0} /\ NoKey \notin Keys
  /\ Encrypt \in BOOLEAN /\ MaxSegments \in Nat /\ PacketLimit \in Nat

VARIABLES
  keys,      \* the value of the watch channel, set by /resume
  lastId,    \* last_key_id, NoKey before the first frame
  cipher,    \* the key of the cipher, NoKey without one
  iv,        \* gcm_iv_counter
  used,      \* history: per key the encryptions so far and the counters passed
  number,    \* sequence_number of the next shard
  frame,     \* data shards of the frame whose batch is being sent, 0 for none
  batch,     \* the batch: a sequence of shards
  cursor,    \* shards of the batch that are behind the sender
  wire       \* history: the shards of the batch that were sent, in order

cipherVars == <<keys, lastId, cipher, iv, used>>
sendVars   == <<frame, batch, cursor, wire>>
packetVars == <<cipherVars, number, sendVars>>

PacketInit ==
  /\ keys \in Keys /\ lastId = NoKey /\ cipher = NoKey /\ iv = 0
  /\ used = [k \in Keys |-> [times |-> 0, passed |-> 0]]
  /\ number = 0
  /\ frame = 0 /\ batch = <<>> /\ cursor = 0 /\ wire = <<>>

-----------------------------------------------------------------------------
(* The blocks of a frame of n data shards.                                 *)

min2(x, y) == IF x < y THEN x ELSE y
max2(x, y) == IF x < y THEN y ELSE x

DataPerBlock == MAX_SHARDS - (MAX_SHARDS * FecPercentage) \div (100 + FecPercentage)
BlockCount(n) == (n - 1) \div DataPerBlock + 1
LastBlock(n) == min2(BlockCount(n), MAX_BLOCKS) - 1

\* Mutant: the remaining shards of a large frame are cut off.
BlockEndCut(n, b) == min2((b + 1) * DataPerBlock, n)

\* The data shards first .. end - 1 of block b; the fourth block has the rest.
BlockStart(b) == b * DataPerBlock
BlockEnd(n, b) ==
  IF b = MAX_BLOCKS - 1 THEN n ELSE min2((b + 1) * DataPerBlock, n)

ParityShards(d) ==
  min2(max2((d * FecPercentage) \div 100, MinimumFec),
       IF d < MAX_SHARDS THEN MAX_SHARDS - d ELSE 0)

\* The shards of block b: data, then parity.  fec_info and the flags of a shard
\* hold its index in the block, the block's data shards and the block's number.
Block(n, b) ==
  LET d == BlockEnd(n, b) - BlockStart(b)
  IN [i \in 1 .. d + ParityShards(d) |->
       [block |-> b, last_block |-> LastBlock(n), index |-> i - 1, of |-> d,
        start |-> i = 1, end |-> i = d,
        payload |-> IF i <= d THEN BlockStart(b) + i - 1 ELSE -1]]

\* The shards of the blocks 0 .. b, one after the other; there are at most four.
Blocks(n, b) ==
  LET block(i) == IF i <= b THEN Block(n, i) ELSE <<>>
  IN block(0) \o block(1) \o block(2) \o block(3)

-----------------------------------------------------------------------------
(* Encryption.                                                             *)

\* maybe_update_cipher(): a new key id brings its key and a counter from 0.
CipherNow == IF Encrypt /\ KeyIdOf(keys) # lastId THEN keys ELSE cipher
IvNow     == IF Encrypt /\ KeyIdOf(keys) # lastId THEN 0 ELSE iv

Encrypts(k, from, m) ==
  used' = IF k = NoKey THEN used
          ELSE [used EXCEPT ![k] = [times |-> @.times + m,
                                    passed |-> max2(@.passed, from + m)]]

\* Mutant: a frame that fails gives its counters back.
EncryptShardsOnce(m, failed) ==
  /\ cipher' = CipherNow
  /\ lastId' = IF Encrypt THEN KeyIdOf(keys) ELSE lastId
  /\ iv' = IF CipherNow = NoKey \/ failed THEN IvNow ELSE IvNow + m
  /\ Encrypts(CipherNow, IvNow, m)

\* m shards are encrypted, each under the next counter.
EncryptShards(m, failed) ==
  /\ cipher' = CipherNow
  /\ lastId' = IF Encrypt THEN KeyIdOf(keys) ELSE lastId
  /\ iv' = IF CipherNow = NoKey THEN IvNow ELSE IvNow + m
  /\ Encrypts(CipherNow, IvNow, m)

-----------------------------------------------------------------------------
(* Steps.                                                                  *)

\* packetize() of a frame; the batch goes to the packet handler.
packetize(n) ==
  LET shards == Blocks(n, LastBlock(n))
  IN /\ frame = 0
     /\ number + Len(shards) <= PacketLimit
     /\ EncryptShards(Len(shards), FALSE)
     /\ number' = number + Len(shards)
     /\ frame' = n /\ batch' = shards /\ cursor' = 0 /\ wire' = <<>>
     /\ UNCHANGED keys

\* The error correction of block b fails: the frame is dropped, the numbers of
\* its data shards and of everything before are used up.
PacketizeFails(n, b) ==
  LET before == Blocks(n, b - 1)
      data == BlockEnd(n, b) - BlockStart(b)
  IN /\ frame = 0 /\ b <= LastBlock(n) /\ ParityShards(data) > 0
     /\ number + Len(before) + data <= PacketLimit
     /\ EncryptShards(Len(before), TRUE)
     /\ number' = number + Len(before) + data
     /\ UNCHANGED <<keys, sendVars>>

KeysUpdated(k) ==
  /\ k # keys
  /\ used[k].times = 0
  /\ keys' = k
  /\ UNCHANGED <<lastId, cipher, iv, used, number, sendVars>>

Sending == frame # 0

SegmentsPerSend == max2(MaxSegments, 1)

\* The shards of the chunk at the cursor.
Chunk == SubSeq(batch, cursor + 1, min2(cursor + SegmentsPerSend, Len(batch)))

\* A chunk goes out as one GSO send, or shard by shard when the kernel rejects it
\* or has no GSO; single sends may fail.
SendChunk ==
  /\ Sending /\ cursor < Len(batch)
  /\ cursor' = cursor + Len(Chunk)
  /\ wire' = wire \o Chunk
  /\ UNCHANGED <<cipherVars, number, frame, batch>>

SendShards ==
  /\ Sending /\ cursor < Len(batch)
  /\ \E sent \in SUBSET {Chunk[i] : i \in 1 .. Len(Chunk)} : wire' = wire \o Kept(Chunk, sent)
  /\ cursor' = cursor + Len(Chunk)
  /\ UNCHANGED <<cipherVars, number, frame, batch>>

\* The handler has no client address, or is done with the batch.
BatchDone ==
  /\ Sending
  /\ cursor = 0 \/ cursor = Len(batch)
  /\ frame' = 0 /\ batch' = <<>> /\ cursor' = 0 /\ wire' = <<>>
  /\ UNCHANGED <<cipherVars, number>>

PacketNext ==
  \/ \E n \in FrameSizes : \/ packetize(n)
                           \/ \E b \in 0 .. MAX_BLOCKS - 1 : PacketizeFails(n, b)
  \/ \E k \in Keys : KeysUpdated(k)
  \/ SendChunk \/ SendShards \/ BatchDone

PacketSafe == PacketInit /\ [][PacketNext]_packetVars

-----------------------------------------------------------------------------
\* A batch carries its frame exactly once: the data shards are those of the frame
\* in order, they fall into at most four blocks with an own start and end, and a
\* block with parity has at most MAX_SHARDS shards.
FrameCovered ==
  Sending =>
    LET data == {i \in 1 .. Len(batch) : batch[i].payload >= 0}
    IN /\ {batch[i].payload : i \in data} = 0 .. frame - 1
       /\ \A i, j \in data : i < j => batch[i].payload < batch[j].payload
       /\ \A i \in 1 .. Len(batch) :
            /\ batch[i].block <= batch[i].last_block /\ batch[i].last_block < MAX_BLOCKS
            /\ (batch[i].index = 0) = (i = 1 \/ batch[i - 1].block # batch[i].block)
            /\ (batch[i].payload = -1) = (batch[i].index >= batch[i].of)
            /\ batch[i].payload = -1 => batch[i].index < MAX_SHARDS

\* No two shards are ever encrypted with the same key and counter, whatever fails
\* and whenever the keys change, as long as a key does not come back.
NoncesUnique ==
  \A k \in Keys : used[k].times = used[k].passed

\* The wire has a batch's shards in order and never twice, also when chunks are
\* rejected and repeated as single shards.
SentInOrderOnce ==
  LET place(s) == CHOOSE i \in 1 .. Len(batch) : batch[i] = s
  IN \A i, j \in 1 .. Len(wire) : i < j => place(wire[i]) < place(wire[j])

\* What goes out for a frame is the frame: every shard of it belongs to exactly one
\* place of one block, and shards leave in order and once, however chunks are
\* refused and repeated (packetize, send_shards).
FrameDelivered == FrameCovered /\ SentInOrderOnce
=============================================================================
