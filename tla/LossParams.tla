---------------------------- MODULE LossParams ----------------------------
(***************************************************************************)
(* PacketLoss.LossParams and the arithmetic of PacketLoss over it: which   *)
(* packets of a numbered stream the loss profile drops.  A profile repeats *)
(* with period up + down: up packets pass, down packets are lost.          *)
(***************************************************************************)
EXTENDS Integers

CONSTANT
  Profiles    \* the "lossProfile" entries of the configuration

(***************************************************************************)
(* up + down = 0 divides by zero in checkLossGap, interval = 0 asks for an *)
(* array of -1 elements in checkInterval; neither can end in a packet.     *)
(* Without intervals, configuration.json leaves interval out, which is 0.  *)
(* getResetId leaves x0 out, which is right only for these x0: see         *)
(* PacketLoss!GapsComplete and PacketLoss!CutEndsGap.                      *)
(***************************************************************************)
ASSUME ProfilesAssumption ==
  /\ Profiles \subseteq [x0 : Int, up : Nat, down : Nat, interval : Nat,
                         enabled : BOOLEAN, intervals : BOOLEAN]
  /\ \A p \in Profiles : p.up + p.down > 0
  /\ \A p \in Profiles : p.intervals => p.interval > 0 /\ -p.up <= p.x0 /\ p.x0 <= 0

Period(p) == p.up + p.down

\* The division of Java, which rounds toward zero.
JavaDiv(a, b) == IF a >= 0 THEN a \div b ELSE -((-a) \div b)

\* Mutant: the last packet that should pass is in the gap.
GapStartsEarly(p, id) ==
  LET local == (id - p.x0) - JavaDiv(id - p.x0, Period(p)) * Period(p)
  IN  local - p.up >= -1

CheckLossGap(p, id) ==
  LET local == (id - p.x0) - JavaDiv(id - p.x0, Period(p)) * Period(p)
  IN  local - p.up >= 0

\* Mutant: the loss resumes with the period after the next one.
ResetSkipsPeriod(p, id) == (JavaDiv(id - p.x0, Period(p)) + 2) * Period(p)

\* Mutant: the loss may resume at once.
ResetAtOnce(p, id) == id

GetResetId(p, id) == (JavaDiv(id - p.x0, Period(p)) + 1) * Period(p)
===========================================================================
