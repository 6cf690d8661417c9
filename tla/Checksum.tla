------------------------------ MODULE Checksum ------------------------------
(***************************************************************************)
(* The checksums of a packet that is about to be written: ip_checksum and  *)
(* udp_tcp_checksum, one step per turn of their loops, in the order of     *)
(* calculate_checksums.                                                    *)
(*                                                                         *)
(* The words of a packet are chosen when they are read; the word of the    *)
(* check field, which has been set to 0, is one of them.  A word has two   *)
(* bytes of ByteBase values each, and the sum is a number of two words.    *)
(***************************************************************************)
EXTENDS Integers

CONSTANTS
  ByteBase,    \* 256
  Words,       \* the words that occur in packets
  FoldBit,     \* 0x800, the bit after which ip_checksum adds the carries
  Lengths      \* the lengths in bytes over which a checksum is taken

\* The values of a word (uint16_t) and of the sum (uint32_t).
Base == ByteBase * ByteBase
SumBase == Base * Base

ASSUME ChecksumAssumption ==
  /\ ByteBase \in Nat /\ ByteBase >= 4
  /\ Words \subseteq 0..(Base - 1)
  /\ FoldBit \in 1..Base
  /\ Lengths \subseteq 0..(Base - 1)

\* What the sender does next to the sum.
Phases == {"idle", "words", "odd", "pseudo", "carries", "done"}

VARIABLES
  kind,      \* "ip", "udp" or "tcp": the checksum under way
  phase,
  length,    \* the length of what is summed up
  left,      \* len
  added,     \* how many of the six words of the pseudo header have been added
  sum,
  check,     \* the value returned last, the check field
  total      \* history: the true sum of all words

checksumVars == <<kind, phase, length, left, added, sum, check, total>>

ChecksumTypeOK ==
  /\ kind \in {"ip", "udp", "tcp"}
  /\ phase \in Phases
  /\ length \in 0..(Base - 1)
  /\ left \in 0..length
  /\ added \in 0..6
  /\ sum \in 0..(SumBase - 1)
  /\ check \in 0..(Base - 1)
  /\ total \in Nat

ChecksumInit ==
  /\ kind = "ip"
  /\ phase = "idle"
  /\ length = 0 /\ left = 0 /\ added = 0
  /\ sum = 0 /\ total = 0
  /\ check = 0

\* Carries added once: the lower word plus the upper word.
Fold(s) == (s % Base) + (s \div Base)

\* htons: the two bytes of a word are exchanged.
Swap(w) == ((w % ByteBase) * ByteBase) + (w \div ByteBase)

Add(w) == (sum + w) % SumBase

---------------------------------------------------------------------------
\* An IP header has a multiple of 4 bytes (ihl * 4); the lengths of UDP and
\* TCP are those that the headers say.
Start(k) ==
  /\ kind' = k
  /\ phase' = "words"
  /\ sum' = 0 /\ total' = 0
  /\ added' = 0
  /\ length' \in IF k = "ip" THEN {l \in Lengths : l % 4 = 0} ELSE Lengths
  /\ left' = length'
  /\ UNCHANGED check

\* Mutant: the last byte of an odd length is taken for a word.
AddWordWhileLeft(w) ==
  /\ phase = "words" /\ left > 0
  /\ LET s == Add(w)
     IN sum' = IF kind = "ip" /\ (s \div FoldBit) % 2 = 1 THEN Fold(s) ELSE s
  /\ total' = total + w
  /\ left' = left - 2
  /\ UNCHANGED <<kind, phase, length, added, check>>

AddWord(w) ==
  /\ phase = "words" /\ left > 1
  /\ LET s == Add(w)
     IN sum' = IF kind = "ip" /\ (s \div FoldBit) % 2 = 1 THEN Fold(s) ELSE s
  /\ total' = total + w
  /\ left' = left - 2
  /\ UNCHANGED <<kind, phase, length, added, check>>

\* if (len & 1): the last byte, as a word whose other byte is 0.
AddOddByte(w) ==
  /\ phase = "words" /\ left = 1
  /\ sum' = Add(w % ByteBase)
  /\ total' = total + (w % ByteBase)
  /\ left' = 0
  /\ UNCHANGED <<kind, phase, length, added, check>>

WordsDone ==
  /\ phase = "words" /\ left = 0
  /\ phase' = IF kind = "ip" THEN "carries" ELSE "pseudo"
  /\ UNCHANGED <<kind, length, left, added, sum, check, total>>

\* Addresses, protocol and length, in network order.
AddPseudoWord(w) ==
  /\ phase = "pseudo" /\ added < 6
  /\ LET v == IF added = 5 THEN Swap(length) ELSE w
     IN sum' = Add(v) /\ total' = total + v
  /\ added' = added + 1
  /\ phase' = IF added = 5 THEN "carries" ELSE "pseudo"
  /\ UNCHANGED <<kind, length, left, check>>

AddCarries ==
  /\ phase = "carries" /\ sum >= Base
  /\ sum' = Fold(sum)
  /\ UNCHANGED <<kind, phase, length, left, added, check, total>>

\* Mutant: the carries are added once only.
ReturnEarly ==
  /\ phase = "carries"
  /\ check' = Base - 1 - (Fold(sum) % Base)
  /\ phase' = "done"
  /\ UNCHANGED <<kind, length, left, added, sum, total>>

\* ~sum, cut to a word.
Return ==
  /\ phase = "carries" /\ sum < Base
  /\ check' = Base - 1 - sum
  /\ phase' = "done"
  /\ UNCHANGED <<kind, length, left, added, sum, total>>

ChecksumStep ==
  \/ \E w \in Words : AddWord(w) \/ AddOddByte(w) \/ AddPseudoWord(w)
  \/ WordsDone \/ AddCarries \/ Return

\* calculate_checksums: the IP header, then UDP, TCP or nothing.
CalculateChecksums ==
  \/ phase = "idle" /\ Start("ip")
  \/ phase = "done" /\ kind = "ip" /\ \E k \in {"udp", "tcp"} : Start(k)
  \/ ChecksumStep

\* The packet is on its way.
ChecksumReset ==
  /\ kind' = "ip" /\ phase' = "idle"
  /\ length' = 0 /\ left' = 0 /\ added' = 0
  /\ sum' = 0 /\ total' = 0 /\ check' = 0

ChecksumSpec ==
  ChecksumInit
  /\ [][CalculateChecksums \/ (phase = "done" /\ ChecksumReset)]_checksumVars

---------------------------------------------------------------------------
(***************************************************************************)
(* However many words have been added and however often ip_checksum has    *)
(* added carries too early (checksum.cpp, line 55), the sum is the true    *)
(* sum of the packet but for a multiple of Base - 1, and is 0 only when    *)
(* that is: no carry is lost and uint32_t is wide enough.                  *)
(***************************************************************************)
SumIsCongruent ==
  /\ (total - sum) % (Base - 1) = 0
  /\ sum <= total
  /\ sum = 0 => total = 0

(***************************************************************************)
(* A receiver that adds up the packet with its check field, and then all   *)
(* carries, gets a word of ones: it accepts the packet (checksum.cpp,      *)
(* lines 42 and 69).                                                       *)
(***************************************************************************)
ReceiverAccepts ==
  phase = "done" =>
    /\ (total + check) % (Base - 1) = 0
    /\ total + check > 0
==============================================================================
