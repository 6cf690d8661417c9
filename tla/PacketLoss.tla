---------------------------- MODULE PacketLoss ----------------------------
(***************************************************************************)
(* One PacketLoss object: the SendingThread numbers the packets of one     *)
(* direction 1, 2, 3, ... and asks loss(id, timestamp) for each.  Only     *)
(* that thread uses the object, so one call is one step.                   *)
(*                                                                         *)
(* With intervals on, the object remembers when the packets it dropped     *)
(* had arrived; when the pauses between them grow steadily, the sender is  *)
(* taken to back off, and the rest of the gap is let through.              *)
(***************************************************************************)
EXTENDS LossParams, Sequences, FiniteSets

CONSTANTS
  Pauses,    \* times between the arrivals of consecutive packets
  MaxId      \* bound of the model: length of the stream

ASSUME StreamAssumption == Pauses \subseteq Nat /\ MaxId \in Nat

VARIABLES
  lossParams,
  timestamps,   \* arrival times of the last packets dropped
  resetId,      \* no packet before this one is dropped
  id,           \* number of the last packet asked about
  now,          \* its timestamp
  lost,         \* auxiliary: the packets for which loss returned true
  cuts          \* auxiliary: the packets at which a gap was cut short

vars == <<lossParams, timestamps, resetId, id, now, lost, cuts>>

\* Long.MIN_VALUE, which no id reaches
Never == -1

TypeOK ==
  /\ lossParams \in Profiles
  /\ timestamps \in Seq(Nat)
  /\ Len(timestamps) <= lossParams.interval + 1
  /\ resetId \in Int
  /\ id \in 0..MaxId
  /\ now \in Nat
  /\ lost \subseteq 1..id
  /\ cuts \subseteq 1..id

Init ==
  /\ lossParams \in Profiles
  /\ timestamps = <<>>
  /\ resetId = Never
  /\ id = 0
  /\ now = 0
  /\ lost = {}
  /\ cuts = {}

---------------------------------------------------------------------------
\* Mutant: the oldest timestamp is kept.
RememberAll(timestamp) == Append(timestamps, timestamp)

\* timestamps.add, and remove(0) when there are too many
Remember(timestamp) ==
  LET ts == Append(timestamps, timestamp)
  IN  IF Len(ts) > lossParams.interval + 1 THEN Tail(ts) ELSE ts

(***************************************************************************)
(* The test of checkInterval: enough packets were dropped, and each pause  *)
(* was shorter than the next.  The first of the pauses is left out, as the *)
(* loop starts from 1.                                                     *)
(***************************************************************************)
BackedOff(ts) ==
  /\ Len(ts) = lossParams.interval + 1
  /\ \A i \in 2..(lossParams.interval - 1) : ts[i + 1] - ts[i] < ts[i + 2] - ts[i + 1]

\* loss() returns false without looking at the timestamp
Pass ==
  /\ \/ id + 1 < resetId
     \/ ~lossParams.enabled
     \/ ~CheckLossGap(lossParams, id + 1)
  /\ UNCHANGED <<timestamps, resetId, lost, cuts>>

InGapNow ==
  id + 1 >= resetId /\ lossParams.enabled /\ CheckLossGap(lossParams, id + 1)

Drop(timestamp) ==
  /\ InGapNow
  /\ lossParams.intervals => ~BackedOff(Remember(timestamp))
  /\ timestamps' = IF lossParams.intervals THEN Remember(timestamp) ELSE timestamps
  /\ lost' = lost \cup {id + 1}
  /\ UNCHANGED <<resetId, cuts>>

\* Mutant: the timestamps are not cleared.
CutKeepsTimestamps(timestamp) ==
  /\ InGapNow
  /\ lossParams.intervals
  /\ BackedOff(Remember(timestamp))
  /\ timestamps' = Remember(timestamp)
  /\ resetId' = GetResetId(lossParams, id + 1)
  /\ cuts' = cuts \cup {id + 1}
  /\ UNCHANGED lost

Cut(timestamp) ==
  /\ InGapNow
  /\ lossParams.intervals
  /\ BackedOff(Remember(timestamp))
  /\ timestamps' = <<>>
  /\ resetId' = GetResetId(lossParams, id + 1)
  /\ cuts' = cuts \cup {id + 1}
  /\ UNCHANGED lost

Loss(timestamp) ==
  /\ id < MaxId
  /\ id' = id + 1
  /\ now' = timestamp
  /\ Pass \/ Drop(timestamp) \/ Cut(timestamp)
  /\ UNCHANGED lossParams

Next == \E pause \in Pauses : Loss(now + pause)

Spec == Init /\ [][Next]_vars

---------------------------------------------------------------------------
(* Properties.  They compare the stream with the profile read as a set of  *)
(* packet numbers.                                                         *)

InGap(i) ==
  /\ lossParams.enabled
  /\ i >= lossParams.x0
  /\ (i - lossParams.x0) % Period(lossParams) >= lossParams.up

SameGap(i, j) ==
  (i - lossParams.x0) \div Period(lossParams) = (j - lossParams.x0) \div Period(lossParams)

\* A profile that passes nothing begins early: the truncated quotient of whole
\* periods before x0 leaves 0, like that of whole periods after it.
Stray(i) ==
  /\ lossParams.enabled /\ lossParams.up = 0
  /\ i < lossParams.x0
  /\ (lossParams.x0 - i) % Period(lossParams) = 0

(***************************************************************************)
(* checkLossGap, with the truncating division and its subtraction, names   *)
(* the packets of the profile's gaps: nothing else is ever dropped, but    *)
(* for single packets before x0 when the profile passes nothing at all.    *)
(***************************************************************************)
LossOnlyInGaps == \A i \in lost : InGap(i) \/ Stray(i)

(***************************************************************************)
(* Every packet of a gap is dropped unless the gap was cut short at or     *)
(* before it.  In particular the resetId of an earlier gap, which          *)
(* getResetId computes without x0 and so -x0 packets late, has passed when *)
(* the next gap begins.                                                    *)
(***************************************************************************)
GapsComplete ==
  \A i \in 1..id :
    InGap(i) /\ (\A c \in cuts : SameGap(c, i) => i < c) => i \in lost

(***************************************************************************)
(* A gap that is cut short stays cut: from there to its end nothing is     *)
(* dropped (resetId is past the gap).                                      *)
(***************************************************************************)
CutEndsGap == \A c \in cuts, i \in lost : SameGap(c, i) => i < c

(***************************************************************************)
(* A gap is cut only on evidence of its own: interval packets have been    *)
(* dropped since the cut before it (checkInterval clears the timestamps).  *)
(***************************************************************************)
CutsAreEarned ==
  \A c \in cuts :
    Cardinality({i \in lost : i < c /\ \A d \in cuts : d < c => d < i})
      >= lossParams.interval
===========================================================================
