---------------------------- MODULE SampleStream ----------------------------
(***************************************************************************)
(* What the storage of one acquisition promises: the filled blocks of all  *)
(* channels form one queue, and the stored blocks of a channel are its     *)
(* filled blocks, each once, in the order they were filled.                *)
(***************************************************************************)
EXTENDS Integers, Sequences

CONSTANTS
  Streams,     \* the channels
  BlockSizes,  \* possible lengths of a block, bytes
  SampleSize   \* bytes of one sample

VARIABLES
  pending,   \* filled blocks not stored yet, oldest first
  stored,    \* the stored blocks of each channel
  nextSeq    \* number of the first sample of each channel's next block

streamVars == <<pending, stored, nextSeq>>

Init ==
  /\ pending = <<>>
  /\ stored = [c \in Streams |-> <<>>]
  /\ nextSeq = [c \in Streams |-> 0]

HandOver(c, len) ==
  /\ pending' = Append(pending, [ch |-> c, seq |-> nextSeq[c], len |-> len])
  /\ nextSeq' = [nextSeq EXCEPT ![c] = @ + len \div SampleSize]
  /\ UNCHANGED stored

Store ==
  /\ pending # <<>>
  /\ LET b == Head(pending)
     IN  stored' = [stored EXCEPT ![b.ch] = Append(@, [seq |-> b.seq, len |-> b.len])]
  /\ pending' = Tail(pending)
  /\ UNCHANGED nextSeq

Next ==
  \/ \E c \in Streams, len \in BlockSizes : HandOver(c, len)
  \/ Store

Spec == Init /\ [][Next]_streamVars
=============================================================================
