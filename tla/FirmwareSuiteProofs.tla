-------------------------- MODULE FirmwareSuiteProofs --------------------------
(* Theorems about FirmwareSuite, for any number of retries and any bound on  *)
(* the unread lines, with proofs.                                            *)
EXTENDS FirmwareSuite, TLAPS

(***************************************************************************)
(* The inductive invariant.  PassIsOfThisBoot is about the end of the      *)
(* suite; it holds there because an emulator is only ever read after the   *)
(* reset of the same attempt (ReadsOwnBoot) and because a verdict ends the *)
(* suite (VerdictEnds).  LeftoversAreOld needs to know what may be running *)
(* at any time: the emulator the target knows, and those it forgot, each   *)
(* of them from the reset of an earlier attempt (OthersAreOld).            *)
(***************************************************************************)

ReadsOwnBoot ==
  kind = "qemu" /\ pc \in {"read", "line"} =>
    /\ current = <<attempt, "reset">>
    /\ \A line \in output : line[1] = <<attempt, "reset">>

VerdictEnds == passed => pc \in {"close", "done"}

Old == {<<a, "reset">> : a \in 0..(attempt - 1)}

OthersAreOld ==
  kind = "qemu" =>
    /\ alive \subseteq Old \cup {current}
    /\ pc \in {"flash", "done"} => alive \subseteq Old

PassInv == ReadsOwnBoot /\ VerdictEnds /\ PassIsOfThisBoot

-----------------------------------------------------------------------------

LEMMA TypeInit == Init => TypeOK
<1>1. 0 \in Attempts
  BY RetriesAssumption DEF Attempts
<1> QED
  BY <1>1 DEF Init, TypeOK

LEMMA TypeNext == TypeOK /\ [Next]_vars => TypeOK'
<1> SUFFICES ASSUME TypeOK, [Next]_vars PROVE TypeOK'
  OBVIOUS
<1> USE DEF TypeOK
<1>0. attempt < Retries => attempt + 1 \in Attempts
  BY RetriesAssumption DEF Attempts
<1>r. Retry => attempt' \in Attempts /\ pc' \in {"flash", "close"}
  BY RetriesAssumption DEF Attempts, Retry
<1>1. CASE Flash
  <2>1. <<attempt, "flash">> \in Boots
    BY DEF Boots
  <2> QED
    BY <1>1, <2>1 DEF Flash, Boot
<1>2. CASE Reset
  <2>1. <<attempt, "reset">> \in Boots
    BY DEF Boots
  <2>2. alive' \subseteq Boots
    BY <1>2, <2>1 DEF Reset
  <2>3. current' \in Boots
    BY <1>2, <2>1 DEF Reset
  <2> QED
    BY <1>2, <2>2, <2>3 DEF Reset
<1>3. CASE AwaitLine \/ EndOfFile
  BY <1>3 DEF AwaitLine, EndOfFile
<1>4. CASE GotLine
  BY <1>4 DEF GotLine, Readable
<1>5. CASE TakeBuffer
  BY <1>5 DEF TakeBuffer, Readable
<1>6. CASE Judge
  <2>1. passed' \in BOOLEAN
    BY <1>6 DEF Judge
  <2>2. pc' \in {"flash", "close"} /\ attempt' \in Attempts
    BY <1>6, <1>r DEF Judge
  <2> QED
    BY <1>6, <2>1, <2>2 DEF Judge
<1>7. CASE Close
  BY <1>7 DEF Close
<1>8. CASE FlashRaises
  BY <1>8, <1>r DEF FlashRaises
<1>9. CASE ResetRaises
  BY <1>9, <1>r DEF ResetRaises
<1>10. CASE ReadRaises
  <2>1. output' = {} /\ pc' \in {"flash", "close"} /\ attempt' \in Attempts
    BY <1>10, <1>r DEF ReadRaises
  <2> QED
    BY <1>10, <2>1 DEF ReadRaises
<1>11. CASE WindowElapses
  BY <1>11 DEF WindowElapses
<1>12. CASE Firmware
  <2>1. PICK boot \in Boots : Exits(boot) \/ \E x \in Lines : Prints(boot, x)
    BY <1>12 DEF Firmware
  <2>2. CASE Exits(boot)
    BY <2>2 DEF Exits
  <2>3. CASE \E x \in Lines : Prints(boot, x)
    <3>1. PICK x \in Lines : Prints(boot, x)
      BY <2>3
    <3>2. unread' \subseteq Boots \X Lines
      BY <3>1 DEF Prints
    <3> QED
      BY <3>1, <3>2 DEF Prints
  <2> QED
    BY <2>1, <2>2, <2>3
<1>13. CASE UNCHANGED vars
  BY <1>13 DEF vars
<1> QED
  BY <1>1, <1>2, <1>3, <1>4, <1>5, <1>6, <1>7, <1>8, <1>9, <1>10, <1>11, <1>12, <1>13
  DEF Next, Works, Raises

\* Every variable keeps its type; in particular the attempts never exceed the
\* retries (FirmwareTester.run).
THEOREM TypeCorrect == Spec => []TypeOK
  BY TypeInit, TypeNext, PTL DEF Spec

-----------------------------------------------------------------------------

LEMMA PassNext == TypeOK /\ PassInv /\ [Next]_vars => PassInv'
<1> SUFFICES ASSUME TypeOK, PassInv, [Next]_vars PROVE PassInv'
  OBVIOUS
<1> USE DEF PassInv, ReadsOwnBoot, VerdictEnds, PassIsOfThisBoot, Saw
<1>1. CASE Flash
  BY <1>1 DEF Flash, Boot
<1>2. CASE Reset
  BY <1>2 DEF Reset
<1>3. CASE AwaitLine
  BY <1>3 DEF AwaitLine
<1>4. CASE EndOfFile
  BY <1>4 DEF EndOfFile
<1>5. CASE GotLine
  <2>1. ~passed
    BY <1>5 DEF GotLine
  <2>2. kind = "qemu" => \A line \in output' : line[1] = <<attempt, "reset">>
    BY <1>5 DEF GotLine, Readable
  <2> QED
    BY <1>5, <2>1, <2>2 DEF GotLine
<1>6. CASE TakeBuffer
  <2>1. kind # "qemu" /\ ~passed
    BY <1>6 DEF TakeBuffer
  <2> QED
    BY <1>6, <2>1 DEF TakeBuffer
<1>7. CASE Judge
  <2>1. VerdictEnds'
    BY <1>7 DEF Judge
  <2>2. PassIsOfThisBoot'
    <3> SUFFICES ASSUME passed', kind = "qemu"
                 PROVE  /\ Saw("pass") /\ ~Saw("fail") /\ attempt' = attempt
                        /\ \A line \in output : line[1] = <<attempt, "reset">>
      BY <1>7 DEF Judge
    <3> QED
      BY <1>7 DEF Judge
  <2>3. ReadsOwnBoot'
    BY <1>7 DEF Judge, Retry
  <2> QED
    BY <2>1, <2>2, <2>3
<1>8. CASE Close
  BY <1>8 DEF Close
<1>9. CASE FlashRaises
  <2>1. ~passed /\ pc' \notin {"read", "line"}
    BY <1>9 DEF FlashRaises, Retry
  <2> QED
    BY <1>9, <2>1 DEF FlashRaises
<1>10. CASE ResetRaises
  <2>1. ~passed /\ pc' \notin {"read", "line"}
    BY <1>10 DEF ResetRaises, Retry
  <2> QED
    BY <1>10, <2>1 DEF ResetRaises
<1>11. CASE ReadRaises
  <2>1. ~passed /\ pc' \notin {"read", "line"}
    BY <1>11 DEF ReadRaises, Retry
  <2> QED
    BY <1>11, <2>1 DEF ReadRaises
<1>12. CASE WindowElapses
  BY <1>12 DEF WindowElapses
<1>13. CASE Firmware
  <2>1. UNCHANGED <<kind, pc, attempt, current, output, timeUp, passed>>
    BY <1>13 DEF Firmware, Exits, Prints
  <2> QED
    BY <2>1
<1>14. CASE UNCHANGED vars
  BY <1>14 DEF vars
<1> QED
  BY <1>1, <1>2, <1>3, <1>4, <1>5, <1>6, <1>7, <1>8, <1>9, <1>10, <1>11, <1>12, <1>13, <1>14
  DEF Next, Works, Raises

\* A pass on an emulated target was printed by the emulator of the last
\* reset of the attempt that passed (FirmwareTester.run,
\* QEMUTarget.read_serial).
THEOREM PassIsOfThisBootAlways == Spec => []PassIsOfThisBoot
<1>1. Init => PassInv
  BY DEF Init, PassInv, ReadsOwnBoot, VerdictEnds, PassIsOfThisBoot
<1>2. PassInv => PassIsOfThisBoot
  BY DEF PassInv
<1> QED
  BY <1>1, <1>2, PassNext, TypeCorrect, PTL DEF Spec

-----------------------------------------------------------------------------

\* The attempts only grow, and with them what counts as old.
LEMMA RangeGrows ==
  ASSUME NEW m \in Nat, NEW n \in Nat, m <= n
  PROVE  0..(m - 1) \subseteq 0..(n - 1)
  OBVIOUS

LEMMA OldGrows ==
  ASSUME TypeOK, Retry, attempt' \in Attempts
  PROVE  /\ Old \subseteq Old'
         /\ pc' = "flash" => <<attempt, "reset">> \in Old'
         /\ pc' \in {"flash", "close"}
<1>1. attempt \in Nat /\ attempt' \in Nat /\ attempt <= attempt'
  BY RetriesAssumption DEF TypeOK, Attempts, Retry
<1>2. pc' = "flash" => attempt' = attempt + 1
  BY DEF Retry
<1>3. pc' \in {"flash", "close"}
  BY DEF Retry
<1>4. 0..(attempt - 1) \subseteq 0..(attempt' - 1)
  BY <1>1, RangeGrows
<1>5. pc' = "flash" => attempt \in 0..(attempt' - 1)
  BY <1>1, <1>2
<1> QED
  BY <1>3, <1>4, <1>5, Zenon DEF Old

LEMMA LeftoversNext ==
  TypeOK /\ TypeOK' /\ ReadsOwnBoot /\ OthersAreOld /\ [Next]_vars => OthersAreOld'
<1> SUFFICES ASSUME TypeOK, TypeOK', ReadsOwnBoot, OthersAreOld, [Next]_vars, kind' = "qemu"
             PROVE  /\ alive' \subseteq Old' \cup {current'}
                    /\ pc' \in {"flash", "done"} => alive' \subseteq Old'
  BY DEF OthersAreOld
<1>0. attempt' \in Attempts
  BY DEF TypeOK
<1>1. CASE Flash
  BY <1>1 DEF Flash, Boot, OthersAreOld, Old
<1>2. CASE Reset
  BY <1>2 DEF Reset, OthersAreOld, Old
<1>3. CASE AwaitLine \/ EndOfFile \/ GotLine \/ TakeBuffer
  BY <1>3 DEF AwaitLine, EndOfFile, GotLine, TakeBuffer, OthersAreOld, Old
<1>4. CASE Judge
  <2>1. current = <<attempt, "reset">> /\ alive \subseteq Old \cup {current}
        /\ alive' = alive /\ current' = current
    BY <1>4 DEF Judge, ReadsOwnBoot, OthersAreOld
  <2>2. CASE Retry
    BY <2>1, <2>2, <1>0, OldGrows
  <2>3. CASE pc' = "close" /\ attempt' = attempt
    BY <2>1, <2>3 DEF Old
  <2> QED
    BY <1>4, <2>2, <2>3 DEF Judge
<1>5. CASE Close
  BY <1>5 DEF Close, OthersAreOld, Old
<1>6. CASE FlashRaises
  <2>1. alive \subseteq Old /\ alive' = alive /\ Retry
    BY <1>6 DEF FlashRaises, OthersAreOld
  <2> QED
    BY <2>1, <1>0, OldGrows
<1>7. CASE ResetRaises
  <2>1. alive' \subseteq Old /\ Retry
    BY <1>7 DEF ResetRaises, OthersAreOld
  <2> QED
    BY <2>1, <1>0, OldGrows
<1>8. CASE ReadRaises
  <2>1. current = <<attempt, "reset">> /\ alive \subseteq Old \cup {current}
        /\ alive' = alive /\ current' = current /\ Retry
    BY <1>8 DEF ReadRaises, ReadsOwnBoot, OthersAreOld
  <2> QED
    BY <2>1, <1>0, OldGrows
<1>9. CASE WindowElapses
  BY <1>9 DEF WindowElapses, OthersAreOld, Old
<1>10. CASE Firmware
  BY <1>10 DEF Firmware, Exits, Prints, OthersAreOld, Old
<1>11. CASE UNCHANGED vars
  BY <1>11 DEF vars, OthersAreOld, Old
<1> QED
  BY <1>1, <1>2, <1>3, <1>4, <1>5, <1>6, <1>7, <1>8, <1>9, <1>10, <1>11 DEF Next, Works, Raises

\* When the target is closed, the emulators left are those that the resets of
\* earlier attempts started: one at most for each (QEMUTarget.flash, close).
THEOREM LeftoversAreOldAlways == Spec => []LeftoversAreOld
<1>1. Init => PassInv /\ OthersAreOld
  BY DEF Init, PassInv, ReadsOwnBoot, VerdictEnds, PassIsOfThisBoot, OthersAreOld
<1>2. PassInv => ReadsOwnBoot
  BY DEF PassInv
<1>3. OthersAreOld => LeftoversAreOld
  BY DEF OthersAreOld, LeftoversAreOld, Old
<1> QED
  BY <1>1, <1>2, <1>3, PassNext, LeftoversNext, TypeCorrect, PTL DEF Spec

=============================================================================
