-------------------------- MODULE Goroutines_proofs --------------------------
(***************************************************************************)
(* Proofs about the run of startBackup, for every number of members, every *)
(* limit of NO_TASK answers and any number of failing calls, and about the *)
(* controller of a Jet job, for every course of its cluster and any number *)
(* of edits, runs, goroutines that submit, and mishaps.                    *)
(***************************************************************************)
EXTENDS Goroutines, TLAPS

----------------------------------------------------------------------------
(* The inductive invariant.                                                *)

WaitPCs     == {"poll", "sleep", "interrupt", "ok", "failed"}
TransferPCs == GoPCs \ {"idle", "poll", "sleep", "interrupt"}

\* The types that the other conjuncts need.
PcType == /\ members \subseteq Members /\ gpc \in [Members -> GoPCs]
          /\ memberTask \in [Members -> TaskStates] /\ agent \in [Members -> AgentStates]

\* Where the goroutines are in each phase of startBackup: only the members that
\* NewClusterBackup found have one, and a phase starts after all have returned.
PhaseInv ==
    /\ main \in MainPCs
    /\ \A m \in Members :
           /\ m \notin members \/ main \in {"new", "start"} => gpc[m] = "idle"
           /\ main = "wait" /\ m \in members => gpc[m] \in WaitPCs
           /\ main = "transfer" /\ m \in members => gpc[m] \in TransferPCs
           /\ main \in {"waited", "cleanup", "remove", "done"} =>
                  gpc[m] \in {"idle", "ok", "failed"}

\* The group knows of the goroutines that failed.
ErrorInv ==
    main \in {"wait", "transfer"} => \A m \in Members : gpc[m] = "failed" => groupErr

\* A goroutine of the first group that returned without an error saw the end of
\* the backup of its member, which stays.
MemberInv ==
    \A m \in members :
        /\ main = "wait" /\ gpc[m] = "ok" => memberTask[m] = "SUCCESS"
        /\ main \in {"waited", "transfer"} => memberTask[m] = "SUCCESS"

\* What the second group has done when its goroutines reach a step.
TransferInv ==
    /\ main \notin {"cleanup", "remove", "done"} =>
           \A m \in Members : agent[m] = "SUCCESS" => m \in bucket
    /\ main = "transfer" => \A m \in members :
           /\ gpc[m] \in {"finRead", "finWrite", "appRead", "appWrite"} => m \in bucket
           /\ gpc[m] \in {"appRead", "appWrite", "ok"} => m \in uuids
           /\ gpc[m] = "ok" /\ external => m \in bucket

OutcomeInv ==
    /\ outcome = "Success" => main \in {"remove", "done"}
    /\ SuccessIsComplete

\* Without a failing call an upload has a goroutine that looks after it.
UploadInv ==
    faults = 0 =>
        \A m \in Members : agent[m] = "IN_PROGRESS" => gpc[m] \in {"status", "pause", "cancel"}

\* The types of the other variables.
CounterInv ==
    /\ faults \in 0..MaxFaults /\ interrupts \in Nat
    /\ polls \in [Members -> 0..(NoTaskLimit + 1)]

RestInv ==
    /\ external \in BOOLEAN /\ groupErr \in BOOLEAN /\ cancelled \in BOOLEAN
    /\ uploads \subseteq Members /\ finished \subseteq Members
    /\ captured \in [Members -> SUBSET Members]
    /\ uuids \subseteq Members /\ todo \subseteq Members
    /\ outcome \in {"", "Success", "Failure"}
    /\ known \subseteq Members /\ bucket \subseteq Members

Inv ==
    /\ PcType /\ CounterInv /\ RestInv
    /\ PhaseInv /\ ErrorInv /\ MemberInv /\ TransferInv /\ OutcomeInv
    /\ InterruptedOnce /\ UploadInv

----------------------------------------------------------------------------
(* The steps preserve it.                                                  *)

LEMMA StepPcType ==
    ASSUME PcType, [Next]_vars
    PROVE  PcType'
<1> USE DEF PcType, GoPCs, TaskStates, AgentStates
<1>1. CASE NewClusterBackup
  BY <1>1 DEF NewClusterBackup, group, slices, cluster, request
<1>2. CASE Start
  BY <1>2 DEF Start, group, slices, cluster, request
<1>3. CASE WaitedForMembers
  BY <1>3 DEF WaitedForMembers, Joined, group, slices, cluster, request
<1>4. CASE StartTransfer
  BY <1>4 DEF StartTransfer, group, slices, cluster, request
<1>5. CASE TransferEnded
  BY <1>5 DEF TransferEnded, Joined, TransferFailed, group, slices, cluster, request
<1>6. CASE CleanupEnded
  BY <1>6 DEF CleanupEnded, group, slices, cluster, request
<1>7. CASE RemoveEnded
  BY <1>7 DEF RemoveEnded, group, slices, cluster, request
<1>8. CASE Cancel
  BY <1>8 DEF Cancel, group, slices, cluster, request
<1>9. CASE \E m \in Members : Cleanup(m)
  BY <1>9 DEF Cleanup, group, slices, cluster, request
<1>10. CASE \E m \in Members : Remove(m)
  BY <1>10 DEF Remove, group, slices, cluster, request
<1>11. CASE \E m \in Members : Poll(m)
  BY <1>11 DEF Poll, Continue, Goto, WaitVerdict, group, slices, cluster, request
<1>12. CASE \E m \in Members : Sleep(m)
  BY <1>12 DEF Sleep, Continue, Goto, group, slices, cluster, request
<1>13. CASE \E m \in Members : Interrupt(m)
  BY <1>13 DEF Interrupt, Fail, Goto, group, slices, cluster, request
<1>14. CASE \E m \in Members : Locate(m)
  BY <1>14 DEF Locate, Continue, Fail, Goto, group, slices, cluster, request
<1>15. CASE \E m \in Members : Upload(m)
  BY <1>15 DEF Upload, Continue, Goto, group, slices, cluster, request
<1>16. CASE \E m \in Members : Status(m)
  BY <1>16 DEF Status, Continue, Goto, UploadVerdict, group, slices, cluster, request
<1>17. CASE \E m \in Members : Pause(m)
  BY <1>17 DEF Pause, Continue, Goto, GivenUp, group, slices, cluster, request
<1>18. CASE \E m \in Members : CancelUpload(m)
  BY <1>18 DEF CancelUpload, Continue, Goto, group, slices, cluster, request
<1>19. CASE \E m \in Members : AppendRead(m)
  BY <1>19 DEF AppendRead, Continue, Goto, group, slices, cluster, request
<1>20. CASE \E m \in Members : FinishedWrite(m)
  BY <1>20 DEF FinishedWrite, Continue, Goto, group, slices, cluster, request
<1>21. CASE \E m \in Members : UploadsWrite(m)
  BY <1>21 DEF UploadsWrite, Continue, Fail, Goto, group, slices, cluster, request
<1>22. CASE \E m \in Members : MemberStep(m)
  BY <1>22 DEF MemberStep, group, slices, cluster, request
<1>23. CASE \E m \in Members : AgentStep(m)
  BY <1>23 DEF AgentStep, group, slices, cluster, request
<1>24. CASE UNCHANGED vars
  BY <1>24, Zenon DEF vars, group, slices, cluster, request
<1> QED
  BY <1>1, <1>2, <1>3, <1>4, <1>5, <1>6, <1>7, <1>8, <1>9, <1>10, <1>11, <1>12,
     <1>13, <1>14, <1>15, <1>16, <1>17, <1>18, <1>19, <1>20, <1>21, <1>22, <1>23, <1>24
     DEF Next, Main, Goroutine

LEMMA StepPhase ==
    ASSUME PcType, PhaseInv, [Next]_vars
    PROVE  PhaseInv'
<1> USE DEF PcType, PhaseInv, GoPCs, WaitPCs, TransferPCs, MainPCs
<1>1. CASE NewClusterBackup
  BY <1>1 DEF NewClusterBackup, group, slices, cluster, request
<1>2. CASE Start
  BY <1>2 DEF Start, group, slices, cluster, request
<1>3. CASE WaitedForMembers
  BY <1>3 DEF WaitedForMembers, Joined, group, slices, cluster, request
<1>4. CASE StartTransfer
  BY <1>4 DEF StartTransfer, group, slices, cluster, request
<1>5. CASE TransferEnded
  BY <1>5 DEF TransferEnded, Joined, TransferFailed, group, slices, cluster, request
<1>6. CASE CleanupEnded
  BY <1>6 DEF CleanupEnded, group, slices, cluster, request
<1>7. CASE RemoveEnded
  BY <1>7 DEF RemoveEnded, group, slices, cluster, request
<1>8. CASE Cancel
  BY <1>8 DEF Cancel, group, slices, cluster, request
<1>9. CASE \E m \in Members : Cleanup(m)
  BY <1>9 DEF Cleanup, group, slices, cluster, request
<1>10. CASE \E m \in Members : Remove(m)
  BY <1>10 DEF Remove, group, slices, cluster, request
<1>11. CASE \E m \in Members : Poll(m)
  BY <1>11 DEF Poll, Continue, Goto, WaitVerdict, group, slices, cluster, request
<1>12. CASE \E m \in Members : Sleep(m)
  BY <1>12 DEF Sleep, Continue, Goto, group, slices, cluster, request
<1>13. CASE \E m \in Members : Interrupt(m)
  BY <1>13 DEF Interrupt, Fail, Goto, group, slices, cluster, request
<1>14. CASE \E m \in Members : Locate(m)
  BY <1>14 DEF Locate, Continue, Fail, Goto, group, slices, cluster, request
<1>15. CASE \E m \in Members : Upload(m)
  BY <1>15 DEF Upload, Continue, Goto, group, slices, cluster, request
<1>16. CASE \E m \in Members : Status(m)
  BY <1>16 DEF Status, Continue, Goto, UploadVerdict, group, slices, cluster, request
<1>17. CASE \E m \in Members : Pause(m)
  BY <1>17 DEF Pause, Continue, Goto, GivenUp, group, slices, cluster, request
<1>18. CASE \E m \in Members : CancelUpload(m)
  BY <1>18 DEF CancelUpload, Continue, Goto, group, slices, cluster, request
<1>19. CASE \E m \in Members : AppendRead(m)
  BY <1>19 DEF AppendRead, Continue, Goto, group, slices, cluster, request
<1>20. CASE \E m \in Members : FinishedWrite(m)
  BY <1>20 DEF FinishedWrite, Continue, Goto, group, slices, cluster, request
<1>21. CASE \E m \in Members : UploadsWrite(m)
  BY <1>21 DEF UploadsWrite, Continue, Fail, Goto, group, slices, cluster, request
<1>22. CASE \E m \in Members : MemberStep(m)
  BY <1>22 DEF MemberStep, group, slices, cluster, request
<1>23. CASE \E m \in Members : AgentStep(m)
  BY <1>23 DEF AgentStep, group, slices, cluster, request
<1>24. CASE UNCHANGED vars
  BY <1>24 DEF vars, group, slices, cluster, request
<1> QED
  BY <1>1, <1>2, <1>3, <1>4, <1>5, <1>6, <1>7, <1>8, <1>9, <1>10, <1>11, <1>12,
     <1>13, <1>14, <1>15, <1>16, <1>17, <1>18, <1>19, <1>20, <1>21, <1>22, <1>23, <1>24, Zenon
     DEF Next, Main, Goroutine

LEMMA StepError ==
    ASSUME PcType, PhaseInv, ErrorInv, [Next]_vars
    PROVE  ErrorInv'
<1> USE DEF PcType, PhaseInv, ErrorInv, WaitPCs, TransferPCs, GoPCs
<1>1. CASE NewClusterBackup
  BY <1>1 DEF NewClusterBackup, group, slices, cluster, request
<1>2. CASE Start
  BY <1>2 DEF Start, group, slices, cluster, request
<1>3. CASE WaitedForMembers
  BY <1>3 DEF WaitedForMembers, Joined, group, slices, cluster, request
<1>4. CASE StartTransfer
  BY <1>4 DEF StartTransfer, group, slices, cluster, request
<1>5. CASE TransferEnded
  BY <1>5 DEF TransferEnded, Joined, TransferFailed, group, slices, cluster, request
<1>6. CASE CleanupEnded
  BY <1>6 DEF CleanupEnded, group, slices, cluster, request
<1>7. CASE RemoveEnded
  BY <1>7 DEF RemoveEnded, group, slices, cluster, request
<1>8. CASE Cancel
  BY <1>8 DEF Cancel, group, slices, cluster, request
<1>9. CASE \E m \in Members : Cleanup(m)
  BY <1>9 DEF Cleanup, group, slices, cluster, request
<1>10. CASE \E m \in Members : Remove(m)
  BY <1>10 DEF Remove, group, slices, cluster, request
<1>11. CASE \E m \in Members : Poll(m)
  BY <1>11 DEF Poll, Continue, Goto, WaitVerdict, group, slices, cluster, request
<1>12. CASE \E m \in Members : Sleep(m)
  BY <1>12 DEF Sleep, Continue, Goto, group, slices, cluster, request
<1>13. CASE \E m \in Members : Interrupt(m)
  BY <1>13 DEF Interrupt, Fail, Goto, group, slices, cluster, request
<1>14. CASE \E m \in Members : Locate(m)
  BY <1>14 DEF Locate, Continue, Fail, Goto, group, slices, cluster, request
<1>15. CASE \E m \in Members : Upload(m)
  BY <1>15 DEF Upload, Continue, Goto, group, slices, cluster, request
<1>16. CASE \E m \in Members : Status(m)
  BY <1>16 DEF Status, Continue, Goto, UploadVerdict, group, slices, cluster, request
<1>17. CASE \E m \in Members : Pause(m)
  BY <1>17 DEF Pause, Continue, Goto, GivenUp, group, slices, cluster, request
<1>18. CASE \E m \in Members : CancelUpload(m)
  BY <1>18 DEF CancelUpload, Continue, Goto, group, slices, cluster, request
<1>19. CASE \E m \in Members : AppendRead(m)
  BY <1>19 DEF AppendRead, Continue, Goto, group, slices, cluster, request
<1>20. CASE \E m \in Members : FinishedWrite(m)
  BY <1>20 DEF FinishedWrite, Continue, Goto, group, slices, cluster, request
<1>21. CASE \E m \in Members : UploadsWrite(m)
  BY <1>21 DEF UploadsWrite, Continue, Fail, Goto, group, slices, cluster, request
<1>22. CASE \E m \in Members : MemberStep(m)
  BY <1>22 DEF MemberStep, group, slices, cluster, request
<1>23. CASE \E m \in Members : AgentStep(m)
  BY <1>23 DEF AgentStep, group, slices, cluster, request
<1>24. CASE UNCHANGED vars
  BY <1>24, Zenon DEF vars, group, slices, cluster, request
<1> QED
  BY <1>1, <1>2, <1>3, <1>4, <1>5, <1>6, <1>7, <1>8, <1>9, <1>10, <1>11, <1>12,
     <1>13, <1>14, <1>15, <1>16, <1>17, <1>18, <1>19, <1>20, <1>21, <1>22, <1>23, <1>24, Zenon
     DEF Next, Main, Goroutine

LEMMA StepMember ==
    ASSUME PcType, PhaseInv, ErrorInv, MemberInv, [Next]_vars
    PROVE  MemberInv'
<1> USE DEF PcType, PhaseInv, ErrorInv, MemberInv, WaitPCs, TransferPCs, GoPCs
<1>1. CASE NewClusterBackup
  BY <1>1 DEF NewClusterBackup, group, slices, cluster, request
<1>2. CASE Start
  BY <1>2 DEF Start, group, slices, cluster, request
<1>3. CASE WaitedForMembers
  BY <1>3 DEF WaitedForMembers, Joined, group, slices, cluster, request
<1>4. CASE StartTransfer
  BY <1>4 DEF StartTransfer, group, slices, cluster, request
<1>5. CASE TransferEnded
  BY <1>5 DEF TransferEnded, Joined, TransferFailed, group, slices, cluster, request
<1>6. CASE CleanupEnded
  BY <1>6 DEF CleanupEnded, group, slices, cluster, request
<1>7. CASE RemoveEnded
  BY <1>7 DEF RemoveEnded, group, slices, cluster, request
<1>8. CASE Cancel
  BY <1>8 DEF Cancel, group, slices, cluster, request
<1>9. CASE \E m \in Members : Cleanup(m)
  BY <1>9 DEF Cleanup, group, slices, cluster, request
<1>10. CASE \E m \in Members : Remove(m)
  BY <1>10 DEF Remove, group, slices, cluster, request
<1>11. CASE \E m \in Members : Poll(m)
  BY <1>11 DEF Poll, Continue, Goto, WaitVerdict, group, slices, cluster, request
<1>12. CASE \E m \in Members : Sleep(m)
  BY <1>12 DEF Sleep, Continue, Goto, group, slices, cluster, request
<1>13. CASE \E m \in Members : Interrupt(m)
  BY <1>13 DEF Interrupt, Fail, Goto, group, slices, cluster, request
<1>14. CASE \E m \in Members : Locate(m)
  BY <1>14 DEF Locate, Continue, Fail, Goto, group, slices, cluster, request
<1>15. CASE \E m \in Members : Upload(m)
  BY <1>15 DEF Upload, Continue, Goto, group, slices, cluster, request
<1>16. CASE \E m \in Members : Status(m)
  BY <1>16 DEF Status, Continue, Goto, UploadVerdict, group, slices, cluster, request
<1>17. CASE \E m \in Members : Pause(m)
  BY <1>17 DEF Pause, Continue, Goto, GivenUp, group, slices, cluster, request
<1>18. CASE \E m \in Members : CancelUpload(m)
  BY <1>18 DEF CancelUpload, Continue, Goto, group, slices, cluster, request
<1>19. CASE \E m \in Members : AppendRead(m)
  BY <1>19, Zenon DEF AppendRead, Continue, Goto, group, slices, cluster, request
<1>20. CASE \E m \in Members : FinishedWrite(m)
  BY <1>20 DEF FinishedWrite, Continue, Goto, group, slices, cluster, request
<1>21. CASE \E m \in Members : UploadsWrite(m)
  BY <1>21 DEF UploadsWrite, Continue, Fail, Goto, group, slices, cluster, request
<1>22. CASE \E m \in Members : MemberStep(m)
  BY <1>22 DEF MemberStep, group, slices, cluster, request
<1>23. CASE \E m \in Members : AgentStep(m)
  BY <1>23 DEF AgentStep, group, slices, cluster, request
<1>24. CASE UNCHANGED vars
  BY <1>24, Zenon DEF vars, group, slices, cluster, request
<1> QED
  BY <1>1, <1>2, <1>3, <1>4, <1>5, <1>6, <1>7, <1>8, <1>9, <1>10, <1>11, <1>12,
     <1>13, <1>14, <1>15, <1>16, <1>17, <1>18, <1>19, <1>20, <1>21, <1>22, <1>23, <1>24, Zenon
     DEF Next, Main, Goroutine

LEMMA StepTransfer ==
    ASSUME PcType, PhaseInv, TransferInv, [Next]_vars
    PROVE  TransferInv'
<1> USE DEF PcType, PhaseInv, TransferInv, WaitPCs, TransferPCs, GoPCs
<1>1. CASE NewClusterBackup
  BY <1>1 DEF NewClusterBackup, group, slices, cluster, request
<1>2. CASE Start
  BY <1>2 DEF Start, group, slices, cluster, request
<1>3. CASE WaitedForMembers
  BY <1>3 DEF WaitedForMembers, Joined, group, slices, cluster, request
<1>4. CASE StartTransfer
  BY <1>4 DEF StartTransfer, group, slices, cluster, request
<1>5. CASE TransferEnded
  BY <1>5 DEF TransferEnded, Joined, TransferFailed, group, slices, cluster, request
<1>6. CASE CleanupEnded
  BY <1>6 DEF CleanupEnded, group, slices, cluster, request
<1>7. CASE RemoveEnded
  BY <1>7 DEF RemoveEnded, group, slices, cluster, request
<1>8. CASE Cancel
  BY <1>8, Zenon DEF Cancel, group, slices, cluster, request
<1>9. CASE \E m \in Members : Cleanup(m)
  BY <1>9 DEF Cleanup, group, slices, cluster, request
<1>10. CASE \E m \in Members : Remove(m)
  BY <1>10 DEF Remove, group, slices, cluster, request
<1>11. CASE \E m \in Members : Poll(m)
  BY <1>11 DEF Poll, Continue, Goto, WaitVerdict, group, slices, cluster, request
<1>12. CASE \E m \in Members : Sleep(m)
  BY <1>12 DEF Sleep, Continue, Goto, group, slices, cluster, request
<1>13. CASE \E m \in Members : Interrupt(m)
  BY <1>13 DEF Interrupt, Fail, Goto, group, slices, cluster, request
<1>14. CASE \E m \in Members : Locate(m)
  BY <1>14 DEF Locate, Continue, Fail, Goto, group, slices, cluster, request
<1>15. CASE \E m \in Members : Upload(m)
  BY <1>15 DEF Upload, Continue, Goto, group, slices, cluster, request
<1>16. CASE \E m \in Members : Status(m)
  BY <1>16 DEF Status, Continue, Goto, UploadVerdict, group, slices, cluster, request
<1>17. CASE \E m \in Members : Pause(m)
  BY <1>17 DEF Pause, Continue, Goto, GivenUp, group, slices, cluster, request
<1>18. CASE \E m \in Members : CancelUpload(m)
  BY <1>18 DEF CancelUpload, Continue, Goto, group, slices, cluster, request
<1>19. CASE \E m \in Members : AppendRead(m)
  BY <1>19 DEF AppendRead, Continue, Goto, group, slices, cluster, request
<1>20. CASE \E m \in Members : FinishedWrite(m)
  BY <1>20 DEF FinishedWrite, Continue, Goto, group, slices, cluster, request
<1>21. CASE \E m \in Members : UploadsWrite(m)
  BY <1>21 DEF UploadsWrite, Continue, Fail, Goto, group, slices, cluster, request
<1>22. CASE \E m \in Members : MemberStep(m)
  BY <1>22, Zenon DEF MemberStep, group, slices, cluster, request
<1>23. CASE \E m \in Members : AgentStep(m)
  BY <1>23 DEF AgentStep, group, slices, cluster, request
<1>24. CASE UNCHANGED vars
  BY <1>24, Zenon DEF vars, group, slices, cluster, request
<1> QED
  BY <1>1, <1>2, <1>3, <1>4, <1>5, <1>6, <1>7, <1>8, <1>9, <1>10, <1>11, <1>12,
     <1>13, <1>14, <1>15, <1>16, <1>17, <1>18, <1>19, <1>20, <1>21, <1>22, <1>23, <1>24, ZenonT(30)
     DEF Next, Main, Goroutine

LEMMA StepOutcome ==
    ASSUME PcType, PhaseInv, ErrorInv, MemberInv, TransferInv, OutcomeInv, [Next]_vars
    PROVE  OutcomeInv'
<1> USE DEF PcType, PhaseInv, ErrorInv, MemberInv, TransferInv, OutcomeInv, SuccessIsComplete
<1>1. CASE NewClusterBackup
  BY <1>1 DEF NewClusterBackup, group, slices, cluster, request
<1>2. CASE Start
  BY <1>2, Zenon DEF Start, group, slices, cluster, request
<1>3. CASE WaitedForMembers
  BY <1>3 DEF WaitedForMembers, Joined, group, slices, cluster, request
<1>4. CASE StartTransfer
  BY <1>4, Zenon DEF StartTransfer, group, slices, cluster, request
<1>5. CASE TransferEnded
  BY <1>5, Zenon DEF TransferEnded, Joined, TransferFailed, group, slices, cluster, request
<1>6. CASE CleanupEnded
  BY <1>6 DEF CleanupEnded, group, slices, cluster, request
<1>7. CASE RemoveEnded
  BY <1>7, Zenon DEF RemoveEnded, group, slices, cluster, request
<1>8. CASE Cancel
  BY <1>8, Zenon DEF Cancel, group, slices, cluster, request
<1>9. CASE \E m \in Members : Cleanup(m)
  BY <1>9, Zenon DEF Cleanup, group, slices, cluster, request
<1>10. CASE \E m \in Members : Remove(m)
  BY <1>10 DEF Remove, group, slices, cluster, request
<1>11. CASE \E m \in Members : Poll(m)
  BY <1>11, Zenon DEF Poll, Continue, Goto, WaitVerdict, group, slices, cluster, request
<1>12. CASE \E m \in Members : Sleep(m)
  BY <1>12, Zenon DEF Sleep, Continue, Goto, group, slices, cluster, request
<1>13. CASE \E m \in Members : Interrupt(m)
  BY <1>13, Zenon DEF Interrupt, Fail, Goto, group, slices, cluster, request
<1>14. CASE \E m \in Members : Locate(m)
  BY <1>14, Zenon DEF Locate, Continue, Fail, Goto, group, slices, cluster, request
<1>15. CASE \E m \in Members : Upload(m)
  BY <1>15 DEF Upload, Continue, Goto, group, slices, cluster, request
<1>16. CASE \E m \in Members : Status(m)
  BY <1>16, Zenon DEF Status, Continue, Goto, UploadVerdict, group, slices, cluster, request
<1>17. CASE \E m \in Members : Pause(m)
  BY <1>17, Zenon DEF Pause, Continue, Goto, GivenUp, group, slices, cluster, request
<1>18. CASE \E m \in Members : CancelUpload(m)
  BY <1>18, Zenon DEF CancelUpload, Continue, Goto, group, slices, cluster, request
<1>19. CASE \E m \in Members : AppendRead(m)
  BY <1>19, Zenon DEF AppendRead, Continue, Goto, group, slices, cluster, request
<1>20. CASE \E m \in Members : FinishedWrite(m)
  BY <1>20, Zenon DEF FinishedWrite, Continue, Goto, group, slices, cluster, request
<1>21. CASE \E m \in Members : UploadsWrite(m)
  BY <1>21 DEF UploadsWrite, Continue, Fail, Goto, group, slices, cluster, request
<1>22. CASE \E m \in Members : MemberStep(m)
  BY <1>22, Zenon DEF MemberStep, group, slices, cluster, request
<1>23. CASE \E m \in Members : AgentStep(m)
  BY <1>23 DEF AgentStep, group, slices, cluster, request
<1>24. CASE UNCHANGED vars
  BY <1>24, Zenon DEF vars, group, slices, cluster, request
<1> QED
  BY <1>1, <1>2, <1>3, <1>4, <1>5, <1>6, <1>7, <1>8, <1>9, <1>10, <1>11, <1>12,
     <1>13, <1>14, <1>15, <1>16, <1>17, <1>18, <1>19, <1>20, <1>21, <1>22, <1>23, <1>24, ZenonT(30)
     DEF Next, Main, Goroutine

LEMMA StepInterrupted ==
    ASSUME PcType, PhaseInv, interrupts \in Nat, InterruptedOnce, [Next]_vars
    PROVE  InterruptedOnce'
<1> USE DEF PcType, PhaseInv, InterruptedOnce, WaitPCs, TransferPCs, GoPCs, MayInterrupt
<1>1. CASE NewClusterBackup
  BY <1>1 DEF NewClusterBackup, group, slices, cluster, request
<1>2. CASE Start
  BY <1>2 DEF Start, group, slices, cluster, request
<1>3. CASE WaitedForMembers
  BY <1>3 DEF WaitedForMembers, Joined, group, slices, cluster, request
<1>4. CASE StartTransfer
  BY <1>4 DEF StartTransfer, group, slices, cluster, request
<1>5. CASE TransferEnded
  BY <1>5 DEF TransferEnded, Joined, TransferFailed, group, slices, cluster, request
<1>6. CASE CleanupEnded
  BY <1>6 DEF CleanupEnded, group, slices, cluster, request
<1>7. CASE RemoveEnded
  BY <1>7 DEF RemoveEnded, group, slices, cluster, request
<1>8. CASE Cancel
  BY <1>8 DEF Cancel, group, slices, cluster, request
<1>9. CASE \E m \in Members : Cleanup(m)
  BY <1>9 DEF Cleanup, group, slices, cluster, request
<1>10. CASE \E m \in Members : Remove(m)
  BY <1>10 DEF Remove, group, slices, cluster, request
<1>11. CASE \E m \in Members : Poll(m)
  BY <1>11 DEF Poll, Continue, Goto, WaitVerdict, group, slices, cluster, request
<1>12. CASE \E m \in Members : Sleep(m)
  BY <1>12 DEF Sleep, Continue, Goto, group, slices, cluster, request
<1>13. CASE \E m \in Members : Interrupt(m)
  BY <1>13 DEF Interrupt, Fail, Goto, group, slices, cluster, request
<1>14. CASE \E m \in Members : Locate(m)
  BY <1>14 DEF Locate, Continue, Fail, Goto, group, slices, cluster, request
<1>15. CASE \E m \in Members : Upload(m)
  BY <1>15 DEF Upload, Continue, Goto, group, slices, cluster, request
<1>16. CASE \E m \in Members : Status(m)
  BY <1>16 DEF Status, Continue, Goto, UploadVerdict, group, slices, cluster, request
<1>17. CASE \E m \in Members : Pause(m)
  BY <1>17 DEF Pause, Continue, Goto, GivenUp, group, slices, cluster, request
<1>18. CASE \E m \in Members : CancelUpload(m)
  BY <1>18 DEF CancelUpload, Continue, Goto, group, slices, cluster, request
<1>19. CASE \E m \in Members : AppendRead(m)
  BY <1>19 DEF AppendRead, Continue, Goto, group, slices, cluster, request
<1>20. CASE \E m \in Members : FinishedWrite(m)
  BY <1>20, Zenon DEF FinishedWrite, Continue, Goto, group, slices, cluster, request
<1>21. CASE \E m \in Members : UploadsWrite(m)
  BY <1>21 DEF UploadsWrite, Continue, Fail, Goto, group, slices, cluster, request
<1>22. CASE \E m \in Members : MemberStep(m)
  BY <1>22 DEF MemberStep, group, slices, cluster, request
<1>23. CASE \E m \in Members : AgentStep(m)
  BY <1>23 DEF AgentStep, group, slices, cluster, request
<1>24. CASE UNCHANGED vars
  BY <1>24, Zenon DEF vars, group, slices, cluster, request
<1> QED
  BY <1>1, <1>2, <1>3, <1>4, <1>5, <1>6, <1>7, <1>8, <1>9, <1>10, <1>11, <1>12,
     <1>13, <1>14, <1>15, <1>16, <1>17, <1>18, <1>19, <1>20, <1>21, <1>22, <1>23, <1>24, Zenon
     DEF Next, Main, Goroutine

LEMMA StepUpload ==
    ASSUME PcType, PhaseInv, faults \in Nat, UploadInv, [Next]_vars
    PROVE  UploadInv'
<1> USE DEF PcType, PhaseInv, UploadInv, WaitPCs, TransferPCs, GoPCs, AgentStates, Fault, NoFault
<1>1. CASE NewClusterBackup
  BY <1>1 DEF NewClusterBackup, group, slices, cluster, request
<1>2. CASE Start
  BY <1>2 DEF Start, group, slices, cluster, request
<1>3. CASE WaitedForMembers
  BY <1>3 DEF WaitedForMembers, Joined, group, slices, cluster, request
<1>4. CASE StartTransfer
  BY <1>4 DEF StartTransfer, group, slices, cluster, request
<1>5. CASE TransferEnded
  BY <1>5 DEF TransferEnded, Joined, TransferFailed, group, slices, cluster, request
<1>6. CASE CleanupEnded
  BY <1>6 DEF CleanupEnded, group, slices, cluster, request
<1>7. CASE RemoveEnded
  BY <1>7 DEF RemoveEnded, group, slices, cluster, request
<1>8. CASE Cancel
  BY <1>8 DEF Cancel, group, slices, cluster, request
<1>9. CASE \E m \in Members : Cleanup(m)
  BY <1>9 DEF Cleanup, group, slices, cluster, request
<1>10. CASE \E m \in Members : Remove(m)
  BY <1>10 DEF Remove, group, slices, cluster, request
<1>11. CASE \E m \in Members : Poll(m)
  BY <1>11 DEF Poll, Continue, Goto, WaitVerdict, group, slices, cluster, request
<1>12. CASE \E m \in Members : Sleep(m)
  BY <1>12 DEF Sleep, Continue, Goto, group, slices, cluster, request
<1>13. CASE \E m \in Members : Interrupt(m)
  BY <1>13 DEF Interrupt, Fail, Goto, group, slices, cluster, request
<1>14. CASE \E m \in Members : Locate(m)
  BY <1>14 DEF Locate, Continue, Fail, Goto, group, slices, cluster, request
<1>15. CASE \E m \in Members : Upload(m)
  BY <1>15 DEF Upload, Continue, Goto, group, slices, cluster, request
<1>16. CASE \E m \in Members : Status(m)
  BY <1>16 DEF Status, Continue, Goto, UploadVerdict, group, slices, cluster, request
<1>17. CASE \E m \in Members : Pause(m)
  BY <1>17 DEF Pause, Continue, Goto, GivenUp, group, slices, cluster, request
<1>18. CASE \E m \in Members : CancelUpload(m)
  BY <1>18 DEF CancelUpload, Continue, Goto, group, slices, cluster, request
<1>19. CASE \E m \in Members : AppendRead(m)
  BY <1>19 DEF AppendRead, Continue, Goto, group, slices, cluster, request
<1>20. CASE \E m \in Members : FinishedWrite(m)
  BY <1>20 DEF FinishedWrite, Continue, Goto, group, slices, cluster, request
<1>21. CASE \E m \in Members : UploadsWrite(m)
  BY <1>21 DEF UploadsWrite, Continue, Fail, Goto, group, slices, cluster, request
<1>22. CASE \E m \in Members : MemberStep(m)
  BY <1>22 DEF MemberStep, group, slices, cluster, request
<1>23. CASE \E m \in Members : AgentStep(m)
  BY <1>23 DEF AgentStep, group, slices, cluster, request
<1>24. CASE UNCHANGED vars
  BY <1>24, Zenon DEF vars, group, slices, cluster, request
<1> QED
  BY <1>1, <1>2, <1>3, <1>4, <1>5, <1>6, <1>7, <1>8, <1>9, <1>10, <1>11, <1>12,
     <1>13, <1>14, <1>15, <1>16, <1>17, <1>18, <1>19, <1>20, <1>21, <1>22, <1>23, <1>24, ZenonT(30)
     DEF Next, Main, Goroutine

LEMMA StepRest ==
    ASSUME PcType, RestInv, [Next]_vars
    PROVE  RestInv'
<1> USE DEF PcType, RestInv
<1>1. CASE NewClusterBackup
  BY <1>1, Zenon DEF NewClusterBackup, group, slices, cluster, request
<1>2. CASE Start
  BY <1>2, Zenon DEF Start, group, slices, cluster, request
<1>3. CASE WaitedForMembers
  BY <1>3, Zenon DEF WaitedForMembers, Joined, group, slices, cluster, request
<1>4. CASE StartTransfer
  BY <1>4, Zenon DEF StartTransfer, group, slices, cluster, request
<1>5. CASE TransferEnded
  BY <1>5, Zenon DEF TransferEnded, Joined, TransferFailed, group, slices, cluster, request
<1>6. CASE CleanupEnded
  BY <1>6, Zenon DEF CleanupEnded, group, slices, cluster, request
<1>7. CASE RemoveEnded
  BY <1>7, Zenon DEF RemoveEnded, group, slices, cluster, request
<1>8. CASE Cancel
  BY <1>8, Zenon DEF Cancel, group, slices, cluster, request
<1>9. CASE \E m \in Members : Cleanup(m)
  BY <1>9, Zenon DEF Cleanup, group, slices, cluster, request
<1>10. CASE \E m \in Members : Remove(m)
  BY <1>10, Zenon DEF Remove, group, slices, cluster, request
<1>11. CASE \E m \in Members : Poll(m)
  BY <1>11, Zenon DEF Poll, Continue, Goto, WaitVerdict, group, slices, cluster, request
<1>12. CASE \E m \in Members : Sleep(m)
  BY <1>12, Zenon DEF Sleep, Continue, Goto, group, slices, cluster, request
<1>13. CASE \E m \in Members : Interrupt(m)
  BY <1>13, Zenon DEF Interrupt, Fail, Goto, group, slices, cluster, request
<1>14. CASE \E m \in Members : Locate(m)
  BY <1>14, Zenon DEF Locate, Continue, Fail, Goto, group, slices, cluster, request
<1>15. CASE \E m \in Members : Upload(m)
  BY <1>15, Zenon DEF Upload, Continue, Goto, group, slices, cluster, request
<1>16. CASE \E m \in Members : Status(m)
  BY <1>16, Zenon DEF Status, Continue, Goto, UploadVerdict, group, slices, cluster, request
<1>17. CASE \E m \in Members : Pause(m)
  BY <1>17, Zenon DEF Pause, Continue, Goto, GivenUp, group, slices, cluster, request
<1>18. CASE \E m \in Members : CancelUpload(m)
  BY <1>18, Zenon DEF CancelUpload, Continue, Goto, group, slices, cluster, request
<1>19. CASE \E m \in Members : AppendRead(m)
  BY <1>19, Zenon DEF AppendRead, Continue, Goto, group, slices, cluster, request
<1>20. CASE \E m \in Members : FinishedWrite(m)
  BY <1>20, Zenon DEF FinishedWrite, Continue, Goto, group, slices, cluster, request
<1>21. CASE \E m \in Members : UploadsWrite(m)
  BY <1>21, Zenon DEF UploadsWrite, Continue, Fail, Goto, group, slices, cluster, request
<1>22. CASE \E m \in Members : MemberStep(m)
  BY <1>22, Zenon DEF MemberStep, group, slices, cluster, request
<1>23. CASE \E m \in Members : AgentStep(m)
  BY <1>23, Zenon DEF AgentStep, group, slices, cluster, request
<1>24. CASE UNCHANGED vars
  BY <1>24, Zenon DEF vars, group, slices, cluster, request
<1> QED
  BY <1>1, <1>2, <1>3, <1>4, <1>5, <1>6, <1>7, <1>8, <1>9, <1>10, <1>11, <1>12,
     <1>13, <1>14, <1>15, <1>16, <1>17, <1>18, <1>19, <1>20, <1>21, <1>22, <1>23, <1>24, ZenonT(30)
     DEF Next, Main, Goroutine

\* A step makes one call that fails, or none.
LEMMA StepFaults ==
    ASSUME [Next]_vars
    PROVE  Fault \/ NoFault
<1>1. CASE Main \/ Cancel
  BY <1>1, Zenon
     DEF NoFault, Main, Cancel, NewClusterBackup, Start, WaitedForMembers,
         StartTransfer, TransferEnded, CleanupEnded, RemoveEnded, Cleanup, Remove,
         Joined, group, slices, cluster, request
<1>2. CASE \E m \in Members : MemberStep(m) \/ AgentStep(m)
  BY <1>2, Zenon
     DEF NoFault, MemberStep, AgentStep, group, slices, cluster, request
<1>3. CASE \E m \in Members : Goroutine(m) /\ ~Poll(m)
  BY <1>3, Zenon
     DEF NoFault, Goroutine, Sleep, Interrupt, Locate, Upload, Status, Pause,
         CancelUpload, AppendRead, FinishedWrite, UploadsWrite, Continue, Fail, Goto,
         group, slices, cluster, request
<1>4. CASE \E m \in Members : Poll(m)
  BY <1>4, Zenon
     DEF NoFault, Poll, Continue, Goto, group, slices, cluster, request
<1>5. CASE UNCHANGED vars
  BY <1>5
     DEF NoFault, vars, group, slices, cluster, request
<1> QED
  BY <1>1, <1>2, <1>3, <1>4, <1>5, Zenon DEF Next, Goroutine

LEMMA StepInterrupts ==
    ASSUME [Next]_vars
    PROVE  interrupts' \in {interrupts, interrupts + 1}
<1>1. CASE Main \/ Cancel
  BY <1>1, Zenon
     DEF MayInterrupt, Main, Cancel, NewClusterBackup, Start, WaitedForMembers,
         StartTransfer, TransferEnded, CleanupEnded, RemoveEnded, Cleanup, Remove,
         Joined, group, slices, cluster, request
<1>2. CASE \E m \in Members : MemberStep(m) \/ AgentStep(m)
  BY <1>2, Zenon
     DEF MayInterrupt, MemberStep, AgentStep, group, slices, cluster, request
<1>3. CASE \E m \in Members : Goroutine(m) /\ ~Poll(m)
  BY <1>3, Zenon
     DEF MayInterrupt, Goroutine, Sleep, Interrupt, Locate, Upload, Status, Pause,
         CancelUpload, AppendRead, FinishedWrite, UploadsWrite, Continue, Fail, Goto,
         group, slices, cluster, request
<1>4. CASE \E m \in Members : Poll(m)
  BY <1>4
     DEF MayInterrupt, Poll, Continue, Goto, group, slices, cluster, request
<1>5. CASE UNCHANGED vars
  BY <1>5
     DEF MayInterrupt, vars, group, slices, cluster, request
<1> QED
  BY <1>1, <1>2, <1>3, <1>4, <1>5, Zenon DEF Next, Goroutine

LEMMA StepPolls ==
    ASSUME polls \in [Members -> 0..(NoTaskLimit + 1)], [Next]_vars
    PROVE  polls' \in [Members -> 0..(NoTaskLimit + 1)]
<1>1. CASE Main \/ Cancel
  BY <1>1, Zenon
     DEF Main, Cancel, NewClusterBackup, Start, WaitedForMembers, StartTransfer,
         TransferEnded, CleanupEnded, RemoveEnded, Cleanup, Remove, Joined,
         group, slices, cluster, request
<1>2. CASE \E m \in Members : MemberStep(m) \/ AgentStep(m)
  BY <1>2, Zenon
     DEF MemberStep, AgentStep, group, slices, cluster, request
<1>3. CASE \E m \in Members : Goroutine(m) /\ ~Poll(m)
  BY <1>3, Zenon
     DEF Goroutine, Sleep, Interrupt, Locate, Upload, Status, Pause, CancelUpload,
         AppendRead, FinishedWrite, UploadsWrite, Continue, Fail, Goto,
         group, slices, cluster, request
<1>4. CASE \E m \in Members : Poll(m)
  <2> SUFFICES ASSUME NEW m \in Members, Poll(m)
               PROVE  polls' \in [Members -> 0..(NoTaskLimit + 1)]
    BY <1>4
  <2>1. polls[m] \in 0..(NoTaskLimit + 1)
    OBVIOUS
  <2>2. NoTaskCount(memberTask[m], polls[m]) \in 0..(NoTaskLimit + 1)
    BY <2>1, ConstantsAssumption DEF NoTaskCount
  <2>3. \/ polls' = [polls EXCEPT ![m] = NoTaskCount(memberTask[m], polls[m])]
        \/ UNCHANGED polls
    BY DEF Poll
  <2> QED
    BY <2>2, <2>3
<1>5. CASE UNCHANGED vars
  BY <1>5
     DEF vars, group, slices, cluster, request
<1> QED
  BY <1>1, <1>2, <1>3, <1>4, <1>5, Zenon DEF Next, Goroutine

LEMMA StepCounters ==
    ASSUME CounterInv, [Next]_vars
    PROVE  CounterInv'
<1>1. faults \in 0..MaxFaults /\ MaxFaults \in Nat
  BY ConstantsAssumption DEF CounterInv
<1>2. faults' \in 0..MaxFaults
  BY <1>1, StepFaults DEF Fault, NoFault
<1>3. interrupts \in Nat
  BY DEF CounterInv
<1>4. interrupts' \in Nat
  BY <1>3, StepInterrupts
<1>5. polls' \in [Members -> 0..(NoTaskLimit + 1)]
  BY StepPolls DEF CounterInv
<1> QED
  BY <1>2, <1>4, <1>5 DEF CounterInv

LEMMA InitInv == Init => Inv
<1> SUFFICES ASSUME Init PROVE Inv
  OBVIOUS
<1>1. PcType /\ PhaseInv /\ ErrorInv /\ MemberInv
  BY Zenon DEF Init, PcType, PhaseInv, ErrorInv, MemberInv, GoPCs, TaskStates, AgentStates, MainPCs
<1>2. TransferInv /\ OutcomeInv
  BY Zenon DEF Init, TransferInv, OutcomeInv, SuccessIsComplete
<1>3. InterruptedOnce
  <2>1. interrupts = 0 /\ members = {}
    BY Zenon DEF Init
  <2> QED
    BY <2>1 DEF InterruptedOnce
<1>4. UploadInv
  BY Zenon DEF Init, UploadInv
<1>6. CounterInv
  <2>1. 0 \in 0..MaxFaults /\ 0 \in 0..(NoTaskLimit + 1)
    BY ConstantsAssumption
  <2> QED
    BY <2>1, Zenon DEF Init, CounterInv
<1>5. RestInv
  BY ConstantsAssumption, Zenon DEF Init, RestInv
<1> QED
  BY <1>1, <1>2, <1>3, <1>4, <1>5, <1>6 DEF Inv

LEMMA NextInv == Inv /\ [Next]_vars => Inv'
<1> SUFFICES ASSUME Inv, [Next]_vars PROVE Inv'
  OBVIOUS
<1>1. /\ PcType /\ CounterInv /\ RestInv /\ PhaseInv /\ ErrorInv /\ MemberInv
      /\ TransferInv /\ OutcomeInv /\ InterruptedOnce /\ UploadInv
  BY DEF Inv
<1>2. faults \in Nat /\ interrupts \in Nat
  BY <1>1, ConstantsAssumption DEF CounterInv
<1>3. PcType' /\ CounterInv' /\ RestInv'
  BY <1>1, StepPcType, StepCounters, StepRest
<1>4. PhaseInv' /\ ErrorInv' /\ MemberInv'
  BY <1>1, StepPhase, StepError, StepMember
<1>5. TransferInv' /\ OutcomeInv'
  BY <1>1, StepTransfer, StepOutcome
<1>6. InterruptedOnce' /\ UploadInv'
  BY <1>1, <1>2, StepInterrupted, StepUpload
<1> QED
  BY <1>3, <1>4, <1>5, <1>6 DEF Inv

\* Every reachable state of a run of startBackup satisfies the invariant.
LEMMA Invariance == Spec => []Inv
  BY InitInv, NextInv, PTL DEF Spec

----------------------------------------------------------------------------
(* What follows.                                                           *)

\* Every variable of the run keeps its type.
THEOREM TypeCorrect == Spec => []TypeOK
<1>1. Inv => TypeOK
  BY Zenon DEF Inv, TypeOK, PcType, CounterInv, RestInv, PhaseInv
<1> QED
  BY <1>1, Invariance, PTL

\* startBackup reports Success only for a backup that is complete: every member
\* it looked after has its backup, and in the bucket if it is external
\* (MemberBackup.Wait, the uploads, errgroup).
THEOREM Complete == Spec => []SuccessIsComplete
<1>1. Inv => SuccessIsComplete
  BY DEF Inv, OutcomeInv
<1> QED
  BY <1>1, Invariance, PTL

\* The backup of the cluster is interrupted at most once, and before a member
\* is given up (cancelOnce).
THEOREM Interrupted == Spec => []InterruptedOnce
<1>1. Inv => InterruptedOnce
  BY DEF Inv
<1> QED
  BY <1>1, Invariance, PTL

\* Without a failing call no agent is left uploading when startBackup has
\* ended (u.Cancel after groupCtx is done).
THEOREM NoneLeft == Spec => []NoUploadLeft
<1>1. Inv => NoUploadLeft
  BY Zenon DEF Inv, UploadInv, PhaseInv, NoUploadLeft
<1> QED
  BY <1>1, Invariance, PTL

----------------------------------------------------------------------------
(* The controller of a Jet job: records and fields.                        *)

LEMMA JetPhases ==
    /\ {"", "Failed", "NotRunning", "Starting"} \subseteq Jet!Phases
    /\ \A s \in Jet!Statuses : Jet!JobStatusPhase(s) \in Jet!Phases
<1>1. Jet!Statuses \subseteq 0 .. 7
  BY DEF Jet!Statuses, Jet!Running, Jet!Suspended, Jet!Failed, Jet!Completed
<1>2. Jet!JobStatusPhase(0) = "NotRunning" /\ Jet!JobStatusPhase(1) = "Starting"
  BY DEF Jet!JobStatusPhase
<1>3. \A s \in 0 .. 7 : Jet!JobStatusPhase(s) \in Jet!Phases
  BY Zenon DEF Jet!Phases
<1>4. 0 \in 0 .. 7 /\ 1 \in 0 .. 7 /\ {"", "Failed"} \subseteq Jet!Phases
  BY DEF Jet!Phases
<1>5. "NotRunning" \in Jet!Phases /\ "Starting" \in Jet!Phases
  BY <1>2, <1>3, <1>4, Zenon
<1> QED
  BY <1>1, <1>3, <1>4, <1>5, Zenon

LEMMA JetNewFields ==
    /\ Jet!None \in Jet!Specs
    /\ Jet!New \in Jet!Objects /\ Jet!New.live /\ ~Jet!New.fin /\ Jet!New.id = 0
    /\ Jet!Gone(Jet!New) \in Jet!Objects /\ ~Jet!Gone(Jet!New).fin /\ Jet!Gone(Jet!New).id = 0
    /\ Jet!Idle \in [pc : Jet!Steps, job : Jet!Objects]
    /\ Jet!Idle.pc = "idle" /\ Jet!Idle.job.id = 0
    /\ Jet!Idle.job = Jet!Gone(Jet!New)
<1>1. Jet!None \in Jet!Specs
  BY DEF Jet!None, Jet!Specs, Jet!States
<1>2. [state |-> "Running", jar |-> 0] \in Jet!Specs
  BY DEF Jet!Specs, Jet!States
<1>3. Jet!New \in Jet!Objects /\ Jet!New.live /\ ~Jet!New.fin /\ Jet!New.id = 0
  BY <1>1, <1>2, JetPhases, Zenon DEF Jet!New, Jet!Objects
<1>4. /\ Jet!Gone(Jet!New) \in Jet!Objects /\ ~Jet!Gone(Jet!New).fin
      /\ Jet!Gone(Jet!New).id = 0
  BY <1>3, Zenon DEF Jet!Gone, Jet!Objects
<1> QED
  BY <1>1, <1>3, <1>4 DEF Jet!Idle, Jet!Steps

\* What a write of the object changes.
LEMMA JetFields ==
    ASSUME NEW j \in Jet!Objects
    PROVE  /\ \A b \in BOOLEAN :
                  /\ [j EXCEPT !.live = b] \in Jet!Objects
                  /\ [j EXCEPT !.live = b].fin = j.fin
                  /\ [j EXCEPT !.live = b].id = j.id
                  /\ [j EXCEPT !.live = b].live = b
           /\ \A b \in BOOLEAN :
                  /\ [j EXCEPT !.deleting = b] \in Jet!Objects
                  /\ [j EXCEPT !.deleting = b].fin = j.fin
                  /\ [j EXCEPT !.deleting = b].id = j.id
                  /\ [j EXCEPT !.deleting = b].live = j.live
           /\ \A b \in BOOLEAN :
                  /\ [j EXCEPT !.fin = b] \in Jet!Objects
                  /\ [j EXCEPT !.fin = b].fin = b
                  /\ [j EXCEPT !.fin = b].id = j.id
                  /\ [j EXCEPT !.fin = b].live = j.live
           /\ \A p \in Jet!Phases :
                  /\ [j EXCEPT !.phase = p] \in Jet!Objects
                  /\ [j EXCEPT !.phase = p].fin = j.fin
                  /\ [j EXCEPT !.phase = p].id = j.id
                  /\ [j EXCEPT !.phase = p].live = j.live
           /\ \A s \in Jet!Specs :
                  /\ [j EXCEPT !.ann = s] \in Jet!Objects
                  /\ [j EXCEPT !.ann = s].fin = j.fin
                  /\ [j EXCEPT !.ann = s].id = j.id
                  /\ [j EXCEPT !.ann = s].live = j.live
  BY DEF Jet!Objects

LEMMA JetSpecFields ==
    ASSUME NEW j \in Jet!Objects
    PROVE  /\ \A p \in Jet!States :
                  /\ [j EXCEPT !.spec.state = p] \in Jet!Objects
                  /\ [j EXCEPT !.spec.state = p].fin = j.fin
                  /\ [j EXCEPT !.spec.state = p].id = j.id
                  /\ [j EXCEPT !.spec.state = p].live = j.live
           /\ \A i \in Nat :
                  /\ [j EXCEPT !.spec.jar = i] \in Jet!Objects
                  /\ [j EXCEPT !.spec.jar = i].fin = j.fin
                  /\ [j EXCEPT !.spec.jar = i].id = j.id
                  /\ [j EXCEPT !.spec.jar = i].live = j.live
  BY DEF Jet!Objects, Jet!Specs

LEMMA JetStatusFields ==
    ASSUME NEW j \in Jet!Objects, NEW i \in Nat
    PROVE  /\ \A p \in Jet!Phases :
                  /\ [j EXCEPT !.phase = p, !.id = i] \in Jet!Objects
                  /\ [j EXCEPT !.phase = p, !.id = i].fin = j.fin
                  /\ [j EXCEPT !.phase = p, !.id = i].id = i
                  /\ [j EXCEPT !.phase = p, !.id = i].live = j.live
           /\ \A s \in Jet!Specs :
                  /\ [j EXCEPT !.spec = s, !.id = i] \in Jet!Objects
                  /\ [j EXCEPT !.spec = s, !.id = i].id = i
  BY Zenon DEF Jet!Objects

LEMMA JetObject ==
    ASSUME NEW j \in Jet!Objects
    PROVE  /\ j.live \in BOOLEAN /\ j.deleting \in BOOLEAN /\ j.fin \in BOOLEAN
           /\ j.spec \in Jet!Specs /\ j.ann \in Jet!Specs /\ j.phase \in Jet!Phases /\ j.id \in Nat
  BY DEF Jet!Objects

\* The worker goes to another step.
LEMMA JetTo ==
    ASSUME NEW r \in [pc : Jet!Steps, job : Jet!Objects], NEW p \in Jet!Steps
    PROVE  /\ [r EXCEPT !.pc = p] \in [pc : Jet!Steps, job : Jet!Objects]
           /\ [r EXCEPT !.pc = p].pc = p
           /\ [r EXCEPT !.pc = p].job = r.job
  OBVIOUS

LEMMA JetFailing ==
    /\ [Jet!Idle EXCEPT !.pc = "failed"] \in [pc : Jet!Steps, job : Jet!Objects]
    /\ [Jet!Idle EXCEPT !.pc = "failed"].pc = "failed"
    /\ [Jet!Idle EXCEPT !.pc = "failed"].job.id = 0
<1>1. "failed" \in Jet!Steps
  BY DEF Jet!Steps
<1> QED
  BY <1>1, JetTo, JetNewFields

LEMMA JetSteps ==
    /\ Jet!Applying \subseteq Jet!Steps
    /\ {"idle", "finalizer", "failed", "notrunning", "stop", "remove"} \subseteq Jet!Steps
    /\ \A p \in {"idle", "finalizer", "failed", "notrunning", "stop", "remove"} :
           p \notin Jet!Applying
    /\ {"change", "resume", "submit", "starting", "annotate"} = Jet!Applying
    /\ "remove" \notin Jet!Applying
  BY DEF Jet!Applying, Jet!Steps

LEMMA JetEventsCount ==
    ASSUME Jet!Inv
    PROVE  edits + 1 \in Nat /\ mishaps + 1 \in Nat /\ JetEvents \in Nat
  BY JetAssumption DEF Jet!Inv, Jet!TypeOK

LEMMA JetFaults ==
    ASSUME Jet!Inv, Jet!Fault \/ Jet!NoFault
    PROVE  mishaps' \in Nat
  BY JetEventsCount DEF Jet!Fault, Jet!NoFault, Jet!Inv, Jet!TypeOK

\* The states of the checker.
Checkers == [job : {"none", "stored", "submitted"}, on : BOOLEAN]
Polls(c) == c.job = "submitted" => c.on

LEMMA JetCheckers ==
    ASSUME NEW c \in Checkers, Polls(c)
    PROVE  /\ Jet!Without(c) \in Checkers /\ Polls(Jet!Without(c))
           /\ c.job = "none" => /\ [c EXCEPT !.job = "stored"] \in Checkers
                                /\ Polls([c EXCEPT !.job = "stored"])
                                /\ [c EXCEPT !.on = FALSE] \in Checkers
                                /\ Polls([c EXCEPT !.on = FALSE])
           /\ \A p \in {"none", "submitted"} :
                  /\ Jet!RunChecker([c EXCEPT !.job = p]) \in Checkers
                  /\ Polls(Jet!RunChecker([c EXCEPT !.job = p]))
  BY Zenon DEF Checkers, Polls, Jet!Without, Jet!RunChecker

LEMMA JetTypes ==
    ASSUME Jet!Inv
    PROVE  /\ job \in Jet!Objects /\ cache \in Jet!Objects /\ queued \in BOOLEAN
           /\ hz \in Jet!HzStates /\ runs \in Seq(Jet!Statuses)
           /\ calls \in [send : Nat, report : Nat]
           /\ checker \in Checkers /\ Polls(checker)
           /\ summaries \subseteq [id : Nat, status : Jet!Statuses]
           /\ rec \in [pc : Jet!Steps, job : Jet!Objects]
           /\ rec.pc \in Jet!Steps /\ rec.job \in Jet!Objects
           /\ mixed \in BOOLEAN /\ edits \in Nat /\ mishaps \in Nat
           /\ job.id \in 0 .. Len(runs) /\ cache.id \in 0 .. Len(runs)
           /\ rec.job.id \in 0 .. Len(runs) /\ 0 \in 0 .. Len(runs)
           /\ \A s \in summaries : s.id \in 1 .. Len(runs)
           /\ cache.fin => job.fin
           /\ Jet!Begun => job.fin /\ hz # "missing"
<1>1. Jet!TypeOK /\ Jet!IdInv /\ Jet!FinalizerInv /\ Jet!CheckerRuns
  BY DEF Jet!Inv
<1>2. Len(runs) \in Nat
  BY <1>1 DEF Jet!TypeOK
<1> QED
  BY <1>1, <1>2 DEF Jet!TypeOK, Jet!IdInv, Jet!FinalizerInv, Jet!CheckerRuns, Checkers, Polls

----------------------------------------------------------------------------
(* What every step keeps.                                                  *)

\* A step that starts no run and revives none, and leaves the cluster alone.
LEMMA JetKeeps ==
    ASSUME Jet!Inv, Jet!TypeOK', Polls(checker'), hz' = hz,
           Len(runs') = Len(runs), Jet!Active' \subseteq Jet!Active,
           job'.id \in 0 .. Len(runs), rec'.job.id \in 0 .. Len(runs),
           cache' \in {cache, job},
           \A s \in summaries' : s.id \in 1 .. Len(runs),
           job.fin => job'.fin,
           rec'.pc \in Jet!Applying => Jet!Begun \/ (job'.fin /\ hz # "missing"),
           calls'.send > 0 => Jet!Begun,
           hz \in {"notready", "up"} =>
               /\ rec'.pc = "remove" => rec'.job.id \notin Jet!Active'
               /\ ~job'.live => job'.id \notin Jet!Active'
    PROVE  Jet!Inv'
<1>1. Jet!IdInv'
  <2>1. cache'.id \in 0 .. Len(runs)
    BY JetTypes, Zenon
  <2> QED
    BY <2>1, Zenon DEF Jet!IdInv
<1>2. runs' # <<>> => runs # <<>>
  <2>1. runs' \in Seq(Jet!Statuses) /\ runs \in Seq(Jet!Statuses)
    BY JetTypes, Zenon DEF Jet!TypeOK
  <2> QED
    BY <2>1
<1>3. Jet!FinalizerInv'
  <2>1. cache'.fin => job'.fin
    BY JetTypes, Zenon
  <2>2. Jet!Begun' => job'.fin /\ hz # "missing"
    BY <1>2, JetTypes, Zenon DEF Jet!Begun
  <2> QED
    BY <2>1, <2>2, Zenon DEF Jet!FinalizerInv
<1>4. Jet!StoppedInv'
  BY Zenon DEF Jet!StoppedInv
<1>5. Jet!CheckerRuns'
  BY Zenon DEF Polls, Jet!CheckerRuns
<1> QED
  BY <1>1, <1>3, <1>4, <1>5, Zenon DEF Jet!Inv

\* A step that leaves the runs alone, too, and the finalizer's progress.
LEMMA JetLeaves ==
    ASSUME Jet!Inv, Jet!TypeOK', Polls(checker'), hz' = hz, runs' = runs,
           job'.id = job.id, job'.live = job.live, job.fin => job'.fin,
           rec' = rec \/ rec'.pc # "remove", rec'.job.id \in 0 .. Len(runs),
           cache' \in {cache, job}, summaries' \subseteq summaries,
           rec'.pc \in Jet!Applying => Jet!Begun \/ (job'.fin /\ hz # "missing"),
           calls'.send > 0 => Jet!Begun
    PROVE  Jet!Inv'
<1>1. Jet!Active' = Jet!Active
  BY Zenon DEF Jet!Active
<1>2. hz \in {"notready", "up"} =>
          /\ rec'.pc = "remove" => rec'.job.id \notin Jet!Active'
          /\ ~job'.live => job'.id \notin Jet!Active'
  BY <1>1, Zenon DEF Jet!Inv, Jet!StoppedInv
<1>3. \A s \in summaries' : s.id \in 1 .. Len(runs)
  BY JetTypes, Zenon
<1>4. job'.id \in 0 .. Len(runs)
  BY JetTypes, Zenon
<1> QED
  BY <1>1, <1>2, <1>3, <1>4, JetKeeps, Zenon

----------------------------------------------------------------------------
(* The user, the caches, the cluster and the restarts.                     *)

LEMMA JetStillTyped ==
    ASSUME Jet!Inv, job' \in Jet!Objects, cache' \in Jet!Objects, queued' \in BOOLEAN, hz' = hz,
           runs' \in Seq(Jet!Statuses), calls' \in [send : Nat, report : Nat],
           checker' \in Checkers, summaries' \subseteq [id : Nat, status : Jet!Statuses],
           rec' \in [pc : Jet!Steps, job : Jet!Objects], mixed' \in BOOLEAN,
           edits' \in Nat, mishaps' \in Nat
    PROVE  Jet!TypeOK'
  BY JetTypes, ZenonT(30) DEF Jet!TypeOK, Checkers

LEMMA JetEdit ==
    ASSUME Jet!Inv, Jet!Edit
    PROVE  Jet!Inv'
<1>1. /\ UNCHANGED <<cache, queued, hz, runs, calls, checker, summaries, rec, mixed, mishaps>>
      /\ edits' \in Nat
  BY JetEventsCount DEF Jet!Edit, Jet!inside
<1>2. (\E s \in UserStates : job' = [job EXCEPT !.spec.state = s])
      \/ job' = [job EXCEPT !.spec.jar = 1]
  BY DEF Jet!Edit
<1>3. \A s \in UserStates : s \in Jet!States
  BY JetAssumption
<1>4. job' \in Jet!Objects /\ job'.fin = job.fin /\ job'.id = job.id /\ job'.live = job.live
  <2>1. job \in Jet!Objects /\ 1 \in Nat
    BY JetTypes
  <2>2. CASE \E s \in UserStates : job' = [job EXCEPT !.spec.state = s]
    <3>1. PICK s \in UserStates : job' = [job EXCEPT !.spec.state = s]
      BY <2>2
    <3>2. \A q \in Jet!States : /\ [job EXCEPT !.spec.state = q] \in Jet!Objects
                                 /\ [job EXCEPT !.spec.state = q].fin = job.fin
                                 /\ [job EXCEPT !.spec.state = q].id = job.id
                                 /\ [job EXCEPT !.spec.state = q].live = job.live
      BY <2>1, JetSpecFields
    <3> QED
      BY <1>3, <3>1, <3>2
  <2>3. CASE job' = [job EXCEPT !.spec.jar = 1]
    <3>1. \A i \in Nat : /\ [job EXCEPT !.spec.jar = i] \in Jet!Objects
                          /\ [job EXCEPT !.spec.jar = i].fin = job.fin
                          /\ [job EXCEPT !.spec.jar = i].id = job.id
                          /\ [job EXCEPT !.spec.jar = i].live = job.live
      BY <2>1, JetSpecFields, Zenon
    <3> QED
      BY <2>1, <2>3, <3>1, Zenon
  <2> QED
    BY <1>2, <2>2, <2>3, Zenon
<1>5. Jet!TypeOK'
  BY <1>1, <1>4, JetTypes, JetStillTyped
<1> QED
  BY <1>1, <1>4, <1>5, JetTypes, JetLeaves DEF Jet!Begun

\* Only an object without its finalizer goes at once, and it has no run.
LEMMA JetDelete ==
    ASSUME Jet!Inv, Jet!Delete
    PROVE  Jet!Inv'
<1>1. /\ UNCHANGED <<cache, queued, hz, runs, calls, checker, summaries, rec, mixed, mishaps>>
      /\ edits' \in Nat
  BY JetEventsCount, Zenon DEF Jet!Delete, Jet!inside
<1>2. CASE job.fin
  <2>1. job' = [job EXCEPT !.deleting = TRUE]
    BY <1>2 DEF Jet!Delete
  <2>2. job' \in Jet!Objects /\ job'.fin = job.fin /\ job'.id = job.id /\ job'.live = job.live
    <3>1. job \in Jet!Objects
      BY JetTypes, Zenon
    <3> QED
      BY <2>1, <3>1, Zenon DEF Jet!Objects
  <2>3. Jet!TypeOK'
    BY <1>1, <2>2, JetTypes, JetStillTyped, Zenon
  <2> QED
    BY <1>1, <2>2, <2>3, JetTypes, JetLeaves DEF Jet!Begun
<1>3. CASE ~job.fin
  <2>1. job' = [job EXCEPT !.live = FALSE]
    BY <1>3 DEF Jet!Delete, Jet!Gone
  <2>2. job' \in Jet!Objects /\ job'.fin = job.fin /\ job'.id = job.id
    <3>1. job \in Jet!Objects
      BY JetTypes
    <3> QED
      BY <2>1, <3>1, Zenon DEF Jet!Objects
  <2>3. Jet!TypeOK'
    BY <1>1, <2>2, JetTypes, JetStillTyped
  <2>4. runs = <<>>
    BY <1>3, JetTypes DEF Jet!Begun
  <2>5. Jet!Active' = {}
    BY <1>1, <2>4 DEF Jet!Active
  <2>6. job'.id \in 0 .. Len(runs)
    BY <2>2, JetTypes, Zenon
  <2> QED
    BY <1>1, <2>2, <2>3, <2>5, <2>6, JetTypes, JetKeeps DEF Jet!Begun
<1> QED
  BY <1>2, <1>3

LEMMA JetSync ==
    ASSUME Jet!Inv, Jet!SyncCache
    PROVE  Jet!Inv'
<1>1. /\ UNCHANGED <<job, hz, runs, calls, checker, summaries, rec, mixed, edits, mishaps>>
      /\ cache' = job /\ queued' \in BOOLEAN
  BY DEF Jet!SyncCache, Jet!inside
<1>2. Jet!TypeOK'
  BY <1>1, JetTypes, JetStillTyped, Zenon
<1> QED
  BY <1>1, <1>2, JetTypes, JetLeaves DEF Jet!Begun

LEMMA JetRestart ==
    ASSUME Jet!Inv, Jet!Restart
    PROVE  Jet!Inv'
<1>1. /\ UNCHANGED <<job, hz, runs, mixed, edits>>
      /\ cache' = job /\ queued' \in BOOLEAN
      /\ calls' = [send |-> 0, report |-> 0] /\ summaries' = {} /\ rec' = Jet!Idle
      /\ checker' = [job |-> "none", on |-> FALSE] /\ mishaps' \in Nat
  BY JetFaults DEF Jet!Restart
<1>2. /\ checker' \in Checkers /\ Polls(checker')
      /\ calls' \in [send : Nat, report : Nat] /\ ~(calls'.send > 0)
  BY <1>1 DEF Checkers, Polls
<1>3. Jet!TypeOK'
  BY <1>1, <1>2, JetTypes, JetNewFields, JetStillTyped
<1> QED
  BY <1>1, <1>2, <1>3, JetTypes, JetNewFields, JetSteps, JetLeaves, Zenon

\* A cluster that gets reachable had no run before.
LEMMA JetHazelcast ==
    ASSUME Jet!Inv, Jet!HazelcastChange
    PROVE  Jet!Inv'
<1>1. UNCHANGED <<job, cache, queued, runs, calls, checker, summaries, rec, mixed, edits, mishaps>>
  BY DEF Jet!HazelcastChange, Jet!kube, Jet!inside
<1>2. PICK k \in 1 .. Len(HzCourse) - 1 : hz = HzCourse[k] /\ hz' = HzCourse[k + 1]
  BY DEF Jet!HazelcastChange
<1>3. hz' \in Jet!HzStates /\ Jet!Follows(hz, hz')
  BY <1>2, JetAssumption
<1>4. Jet!TypeOK'
  BY <1>1, <1>3, Zenon DEF Jet!TypeOK, Jet!Inv
<1>5. Jet!IdInv' /\ Jet!CheckerRuns'
  BY <1>1, Zenon DEF Jet!IdInv, Jet!CheckerRuns, Jet!Inv
<1>6. Jet!FinalizerInv'
  BY <1>1, <1>3 DEF Jet!FinalizerInv, Jet!Begun, Jet!Inv, Jet!Follows
<1>7. Jet!Active' = Jet!Active
  BY <1>1 DEF Jet!Active
<1>8. Jet!StoppedInv'
  <2>1. CASE hz = "missing"
    <3>1. runs = <<>>
      BY <2>1, JetTypes DEF Jet!Begun
    <3>2. Jet!Active = {}
      BY <3>1 DEF Jet!Active
    <3> QED
      BY <1>7, <3>2 DEF Jet!StoppedInv
  <2>2. CASE hz # "missing"
    BY <1>1, <1>3, <1>7, <2>2 DEF Jet!StoppedInv, Jet!Inv, Jet!Follows
  <2> QED
    BY <2>1, <2>2
<1> QED
  BY <1>4, <1>5, <1>6, <1>8 DEF Jet!Inv

\* The status of a run that is active is replaced, or of one that gets over.
LEMMA JetRunSet ==
    ASSUME Jet!Inv, NEW i \in Jet!Active, NEW s \in Jet!Statuses,
           runs' = [runs EXCEPT ![i] = s]
    PROVE  /\ runs' \in Seq(Jet!Statuses) /\ Len(runs') = Len(runs)
           /\ Jet!Active' \subseteq Jet!Active
           /\ s \notin {Jet!Running, Jet!Suspended} => i \notin Jet!Active'
<1>1. i \in 1 .. Len(runs) /\ runs \in Seq(Jet!Statuses)
  BY JetTypes DEF Jet!Active
<1>2. /\ runs' \in Seq(Jet!Statuses) /\ Len(runs') = Len(runs)
      /\ DOMAIN runs' = DOMAIN runs
      /\ \A k \in DOMAIN runs : runs'[k] = IF k = i THEN s ELSE runs[k]
  BY <1>1
<1> QED
  BY <1>1, <1>2 DEF Jet!Active

LEMMA JetFinish ==
    ASSUME Jet!Inv, NEW i \in DOMAIN runs, Jet!Finish(i)
    PROVE  Jet!Inv'
<1>1. /\ UNCHANGED <<job, cache, queued, hz, calls, checker, summaries, rec, mixed, edits, mishaps>>
      /\ runs' = [runs EXCEPT ![i] = Jet!Completed]
  BY DEF Jet!Finish, Jet!kube, Jet!inside
<1>2. i \in Jet!Active /\ Jet!Completed \in Jet!Statuses
  BY DEF Jet!Finish, Jet!Active, Jet!Statuses
<1>3. /\ runs' \in Seq(Jet!Statuses) /\ Len(runs') = Len(runs)
      /\ Jet!Active' \subseteq Jet!Active
  BY <1>1, <1>2, JetRunSet, Zenon
<1>4. Jet!TypeOK'
  BY <1>1, <1>3, JetTypes, JetStillTyped
<1>5. hz \in {"notready", "up"} =>
          /\ rec.pc = "remove" => rec.job.id \notin Jet!Active'
          /\ ~job.live => job.id \notin Jet!Active'
  BY <1>3 DEF Jet!Inv, Jet!StoppedInv
<1>6. Polls(checker') /\ cache' \in {cache, job}
  BY <1>1, JetTypes
<1> QED
  BY <1>1, <1>3, <1>4, <1>5, <1>6, JetTypes, JetKeeps DEF Jet!Begun

----------------------------------------------------------------------------
(* Reconcile.                                                              *)

\* What the copy j asks for, once it has its finalizer.
LEMMA JetSetup ==
    ASSUME Jet!Inv, NEW j \in Jet!Objects
    PROVE  /\ Jet!Setup(j) \in {"idle", "failed", "notrunning", "change", "resume", "submit"}
           /\ Jet!Setup(j) \in {"change", "resume", "submit"} => hz = "up"
<1>1. hz \in {"missing", "notready", "up", "deleting", "gone"}
  BY JetTypes DEF Jet!HzStates
<1>2. CASE Jet!NothingToDo(j)
  BY <1>2 DEF Jet!Setup
<1>3. CASE ~Jet!NothingToDo(j) /\ (Jet!Invalid(j) \/ hz \in {"notready", "deleting"})
  BY <1>3 DEF Jet!Setup
<1>4. CASE ~Jet!NothingToDo(j) /\ ~Jet!Invalid(j) /\ hz \in {"missing", "gone"}
  BY <1>4 DEF Jet!Setup
<1>5. CASE ~Jet!NothingToDo(j) /\ ~Jet!Invalid(j) /\ hz = "up"
  BY <1>5 DEF Jet!Setup
<1> QED
  BY <1>1, <1>2, <1>3, <1>4, <1>5

LEMMA JetGoOn ==
    ASSUME Jet!Inv, NEW j \in Jet!Objects, Jet!GoOn(j)
    PROVE  /\ rec' \in [pc : Jet!Steps, job : Jet!Objects]
           /\ rec'.pc # "remove" /\ rec'.job.id \in {0, j.id}
           /\ rec'.pc \in Jet!Applying => hz = "up"
           /\ checker' \in Checkers /\ Polls(checker')
           /\ UNCHANGED <<calls, summaries>>
<1>1. /\ rec' = [pc |-> Jet!Setup(j),
                 job |-> IF Jet!Setup(j) \in {"change", "resume", "submit"}
                         THEN [Jet!Idle.job EXCEPT !.spec = j.spec, !.id = j.id]
                         ELSE Jet!Idle.job]
      /\ checker' = Jet!Registered(j, Jet!Setup(j))
      /\ UNCHANGED <<calls, summaries>>
  BY DEF Jet!GoOn
<1>2. Jet!Setup(j) \in Jet!Steps /\ Jet!Setup(j) # "remove"
  BY JetSetup DEF Jet!Steps, Jet!Applying
<1>3. /\ [Jet!Idle.job EXCEPT !.spec = j.spec, !.id = j.id] \in Jet!Objects
      /\ [Jet!Idle.job EXCEPT !.spec = j.spec, !.id = j.id].id = j.id
  <2>1. Jet!Idle.job \in Jet!Objects /\ j.spec \in Jet!Specs /\ j.id \in Nat
    BY JetNewFields, JetObject, Zenon
  <2> QED
    BY <2>1, Zenon DEF Jet!Objects
<1>4. rec'.job \in Jet!Objects /\ rec'.job.id \in {0, j.id} /\ rec'.pc = Jet!Setup(j)
  BY <1>1, <1>3, JetNewFields
<1>5. rec' \in [pc : Jet!Steps, job : Jet!Objects]
  BY <1>1, <1>2, <1>4
<1>6. rec'.pc \in Jet!Applying => hz = "up"
  BY <1>4, JetSetup DEF Jet!Applying
<1>7. \/ checker' = Jet!Without(checker) \/ checker' = checker
      \/ checker.job = "none" /\ checker' = [checker EXCEPT !.job = "stored"]
  BY <1>1 DEF Jet!Registered
<1>8. checker' \in Checkers /\ Polls(checker')
  BY <1>7, JetTypes, JetCheckers, ZenonT(30)
<1> QED
  BY <1>1, <1>2, <1>4, <1>5, <1>6, <1>8

LEMMA JetReconcile ==
    ASSUME Jet!Inv, Jet!Reconcile
    PROVE  Jet!Inv'
<1>1. /\ UNCHANGED <<job, cache, hz, runs, mixed, edits, mishaps>> /\ queued' = FALSE
  BY ZenonT(30) DEF Jet!Reconcile, Jet!Keep
<1>2. CASE cache.fin /\ Jet!GoOn(cache)
  <2>1. /\ rec' \in [pc : Jet!Steps, job : Jet!Objects]
        /\ rec'.pc # "remove" /\ rec'.job.id \in {0, cache.id}
        /\ rec'.pc \in Jet!Applying => hz = "up"
        /\ checker' \in Checkers /\ Polls(checker')
        /\ UNCHANGED <<calls, summaries>>
    BY <1>2, JetTypes, JetGoOn, Zenon
  <2>2. Jet!TypeOK'
    BY <1>1, <2>1, JetTypes, JetStillTyped, Zenon
  <2>3. rec'.job.id \in 0 .. Len(runs)
    BY <2>1, JetTypes, Zenon
  <2> QED
    BY <1>1, <1>2, <2>1, <2>2, <2>3, JetTypes, JetLeaves DEF Jet!Begun
<1>3. CASE /\ UNCHANGED <<calls, checker, summaries>>
           /\ \/ rec' = Jet!Idle
              \/ \E p \in {"stop", "finalizer"} : rec' = [pc |-> p, job |-> cache]
  <2>1. /\ rec' \in [pc : Jet!Steps, job : Jet!Objects]
        /\ rec'.pc \notin Jet!Applying /\ rec'.pc # "remove"
        /\ rec'.job.id \in {0, cache.id}
    <3>1. CASE rec' = Jet!Idle
      BY <3>1, JetNewFields, JetSteps, ZenonT(30)
    <3>2. CASE \E p \in {"stop", "finalizer"} : rec' = [pc |-> p, job |-> cache]
      BY <3>2, JetTypes, JetSteps
    <3> QED
      BY <1>3, <3>1, <3>2
  <2>2. Jet!TypeOK'
    BY <1>1, <1>3, <2>1, JetTypes, JetStillTyped, Zenon
  <2>3. rec'.job.id \in 0 .. Len(runs)
    BY <2>1, JetTypes, Zenon
  <2> QED
    BY <1>1, <1>3, <2>1, <2>2, <2>3, JetTypes, JetLeaves, ZenonT(30) DEF Jet!Begun
<1> QED
  BY <1>2, <1>3 DEF Jet!Reconcile, Jet!inside

LEMMA JetAddFinalizer ==
    ASSUME Jet!Inv, Jet!AddFinalizer
    PROVE  Jet!Inv'
<1>1. UNCHANGED <<cache, queued, hz, runs, mixed, edits>>
  BY ZenonT(30) DEF Jet!AddFinalizer, Jet!Keep
<1>2. CASE /\ mishaps' = mishaps /\ job' = [job EXCEPT !.fin = TRUE] /\ Jet!GoOn(job')
  <2>1. job' \in Jet!Objects /\ job'.fin /\ job'.id = job.id /\ job'.live = job.live
    BY <1>2, JetTypes, JetFields, Zenon
  <2>2. /\ rec' \in [pc : Jet!Steps, job : Jet!Objects]
        /\ rec'.pc # "remove" /\ rec'.job.id \in {0, job'.id}
        /\ rec'.pc \in Jet!Applying => hz = "up"
        /\ checker' \in Checkers /\ Polls(checker')
        /\ UNCHANGED <<calls, summaries>>
    BY <1>2, <2>1, JetGoOn, Zenon
  <2>3. Jet!TypeOK'
    BY <1>1, <1>2, <2>1, <2>2, JetTypes, JetStillTyped
  <2>4. rec'.job.id \in 0 .. Len(runs)
    BY <2>1, <2>2, JetTypes, Zenon
  <2> QED
    BY <1>1, <2>1, <2>2, <2>3, <2>4, JetTypes, JetLeaves DEF Jet!Begun
<1>3. CASE /\ UNCHANGED <<job, calls, checker, summaries>> /\ mishaps' \in Nat
           /\ rec' = [Jet!Idle EXCEPT !.pc = "failed"]
  <2>1. Jet!TypeOK'
    BY <1>1, <1>3, JetTypes, JetFailing, JetStillTyped
  <2> QED
    BY <1>1, <1>3, <2>1, JetTypes, JetFailing, JetSteps, JetLeaves DEF Jet!Begun
<1> QED
  BY <1>2, <1>3, JetFaults, JetTypes DEF Jet!AddFinalizer, Jet!NoFault, Jet!inside

\* A step that reports or ends the work of Reconcile, and may write a status.
LEMMA JetEnds ==
    ASSUME Jet!Inv, UNCHANGED <<cache, hz, runs, calls, checker, summaries, edits>>,
           queued' \in BOOLEAN, mixed' \in BOOLEAN, mishaps' \in Nat,
           \/ job' = job
           \/ \E p \in Jet!Phases : job' = [job EXCEPT !.phase = p]
           \/ \E s \in Jet!Specs : job' = [job EXCEPT !.ann = s],
           \/ rec' = Jet!Idle \/ rec' = [Jet!Idle EXCEPT !.pc = "failed"]
           \/ rec.pc \in Jet!Applying /\ \E p \in Jet!Applying : rec' = [rec EXCEPT !.pc = p]
    PROVE  Jet!Inv'
<1>1. job' \in Jet!Objects /\ job'.fin = job.fin /\ job'.id = job.id /\ job'.live = job.live
  <2>1. job \in Jet!Objects
    BY JetTypes
  <2>2. CASE job' = job
    BY <2>1, <2>2
  <2>3. CASE \E p \in Jet!Phases : job' = [job EXCEPT !.phase = p]
    <3>1. \A p \in Jet!Phases : /\ [job EXCEPT !.phase = p] \in Jet!Objects
                             /\ [job EXCEPT !.phase = p].fin = job.fin
                             /\ [job EXCEPT !.phase = p].id = job.id
                             /\ [job EXCEPT !.phase = p].live = job.live
      BY <2>1, JetFields
    <3>2. PICK p \in Jet!Phases : job' = [job EXCEPT !.phase = p]
      BY <2>3
    <3> QED
      BY <3>1, <3>2
  <2>4. CASE \E s \in Jet!Specs : job' = [job EXCEPT !.ann = s]
    <3>1. \A s \in Jet!Specs : /\ [job EXCEPT !.ann = s] \in Jet!Objects
                             /\ [job EXCEPT !.ann = s].fin = job.fin
                             /\ [job EXCEPT !.ann = s].id = job.id
                             /\ [job EXCEPT !.ann = s].live = job.live
      BY <2>1, JetFields
    <3>2. PICK s \in Jet!Specs : job' = [job EXCEPT !.ann = s]
      BY <2>4
    <3> QED
      BY <3>1, <3>2
  <2> QED
    BY <2>2, <2>3, <2>4
<1>2. /\ rec' \in [pc : Jet!Steps, job : Jet!Objects] /\ rec'.pc # "remove"
      /\ rec'.job.id \in 0 .. Len(runs)
      /\ rec'.pc \in Jet!Applying => rec.pc \in Jet!Applying
  <2>1. CASE rec' = Jet!Idle
    BY <2>1, JetNewFields, JetSteps, JetTypes
  <2>2. CASE rec' = [Jet!Idle EXCEPT !.pc = "failed"]
    BY <2>2, JetFailing, JetSteps, JetTypes
  <2>3. CASE rec.pc \in Jet!Applying /\ \E p \in Jet!Applying : rec' = [rec EXCEPT !.pc = p]
    BY <2>3, JetTo, JetSteps, JetTypes
  <2> QED
    BY <2>1, <2>2, <2>3
<1>3. Jet!TypeOK'
  BY <1>1, <1>2, JetTypes, JetStillTyped
<1> QED
  BY <1>1, <1>2, <1>3, JetTypes, JetLeaves DEF Jet!Begun

LEMMA JetUpdateStatus ==
    ASSUME Jet!Inv, Jet!UpdateStatus
    PROVE  Jet!Inv'
<1>1. /\ UNCHANGED <<cache, hz, runs, calls, checker, summaries, edits>>
      /\ mixed' = mixed /\ mishaps' = mishaps /\ queued' = TRUE /\ rec' = Jet!Idle
      /\ \/ job' = job
         \/ \E p \in Jet!Phases : job' = [job EXCEPT !.phase = p]
  BY JetPhases, Zenon DEF Jet!UpdateStatus, Jet!Keep, Jet!inside
<1> QED
  BY <1>1, JetTypes, JetEnds

LEMMA JetApplyFailed ==
    ASSUME Jet!Inv, Jet!ApplyFailed
    PROVE  Jet!Inv'
<1>1. /\ UNCHANGED <<cache, hz, runs, calls, checker, summaries, edits>>
      /\ mixed' = mixed /\ mishaps' \in Nat /\ queued' = queued /\ job' = job
      /\ rec' = [Jet!Idle EXCEPT !.pc = "failed"]
  BY JetFaults DEF Jet!ApplyFailed, Jet!Keep, Jet!inside
<1> QED
  BY <1>1, JetTypes, JetEnds

LEMMA JetWriteStarting ==
    ASSUME Jet!Inv, Jet!WriteStarting
    PROVE  Jet!Inv'
<1>1. /\ UNCHANGED <<cache, hz, runs, calls, checker, summaries, edits>>
      /\ mixed' = mixed /\ mishaps' \in Nat /\ queued' \in BOOLEAN
  BY JetFaults, JetTypes, Zenon DEF Jet!WriteStarting, Jet!Keep, Jet!inside
<1>2. job' = job \/ \E p \in Jet!Phases : job' = [job EXCEPT !.phase = p]
  BY JetPhases, Zenon DEF Jet!WriteStarting
<1>3. \/ rec' = Jet!Idle
      \/ rec.pc \in Jet!Applying /\ \E p \in Jet!Applying : rec' = [rec EXCEPT !.pc = p]
  BY JetSteps DEF Jet!WriteStarting, Jet!To
<1> QED
  BY <1>1, <1>2, <1>3, JetTypes, JetEnds

LEMMA JetUpdateLast ==
    ASSUME Jet!Inv, Jet!UpdateLastSuccessful
    PROVE  Jet!Inv'
<1>1. /\ UNCHANGED <<cache, hz, runs, calls, checker, summaries, edits>>
      /\ mixed' \in BOOLEAN /\ mishaps' \in Nat /\ queued' = queued /\ rec' = Jet!Idle
  BY JetFaults, JetTypes, Zenon DEF Jet!UpdateLastSuccessful, Jet!Keep, Jet!inside
<1>2. job' = job \/ \E s \in Jet!Specs : job' = [job EXCEPT !.ann = s]
  BY JetTypes, JetObject DEF Jet!UpdateLastSuccessful
<1> QED
  BY <1>1, <1>2, JetTypes, JetEnds

\* A state is changed, or the job resumed, only of a run that is active.
LEMMA JetChange ==
    ASSUME Jet!Inv, NEW p \in {"change", "resume"}, NEW can \in BOOLEAN, NEW s,
           can => rec.job.id \in Jet!Active /\ s \in Jet!Statuses,
           Jet!Change(p, can, s)
    PROVE  Jet!Inv'
<1>1. /\ UNCHANGED <<job, cache, hz, calls, checker, summaries, edits, mixed>>
      /\ rec.pc = p /\ mishaps' \in Nat
  BY JetFaults, Zenon DEF Jet!Change, Jet!Keep, Jet!inside
<1>2. CASE /\ can /\ runs' = [runs EXCEPT ![rec.job.id] = s]
           /\ rec' = Jet!To("annotate") /\ queued' = queued
  <2>1. /\ runs' \in Seq(Jet!Statuses) /\ Len(runs') = Len(runs)
        /\ Jet!Active' \subseteq Jet!Active
    BY <1>2, JetRunSet, Zenon
  <2>2. /\ rec' \in [pc : Jet!Steps, job : Jet!Objects]
        /\ rec'.pc = "annotate" /\ rec'.job = rec.job
    BY <1>2, JetTo, JetSteps, JetTypes, Zenon DEF Jet!To
  <2>3. Jet!TypeOK'
    BY <1>1, <1>2, <2>1, <2>2, JetTypes, JetStillTyped, Zenon
  <2>4. hz \in {"notready", "up"} => (~job'.live => job'.id \notin Jet!Active')
    BY <1>1, <2>1, Zenon DEF Jet!Inv, Jet!StoppedInv
  <2>5. Jet!Begun
    BY <1>1, JetSteps DEF Jet!Begun
  <2> QED
    BY <1>1, <2>1, <2>2, <2>3, <2>4, <2>5, JetTypes, JetKeeps, Zenon
<1>3. CASE rec' = Jet!Idle /\ queued' = TRUE /\ runs' = runs
  BY <1>1, <1>3, JetTypes, JetEnds, Zenon
<1> QED
  BY <1>2, <1>3, Zenon DEF Jet!Change

LEMMA JetChangeState ==
    ASSUME Jet!Inv, Jet!ChangeJobState
    PROVE  Jet!Inv'
<1> DEFINE state == rec.job.spec.state
           can   == Jet!Terminates(rec.job.id, state)
<1>1. Jet!Change("change", can, Jet!Terminated(state))
  BY Zenon DEF Jet!ChangeJobState
<1>2. can \in BOOLEAN
  BY Zenon DEF Jet!Terminates
<1>3. can => rec.job.id \in Jet!Active
  BY DEF Jet!Terminates, Jet!Known, Jet!Active
<1>4. can => Jet!Terminated(state) \in Jet!Statuses
  BY DEF Jet!Terminates, Jet!Terminated, Jet!Statuses
<1> QED
  BY <1>1, <1>2, <1>3, <1>4, JetChange, Zenon

LEMMA JetResume ==
    ASSUME Jet!Inv, Jet!ResumeJob
    PROVE  Jet!Inv'
<1> DEFINE can == Jet!Known(rec.job.id) /\ runs[rec.job.id] = Jet!Suspended
<1>1. Jet!Change("resume", can, Jet!Running)
  BY Zenon DEF Jet!ResumeJob
<1>2. can => rec.job.id \in Jet!Active
  BY DEF Jet!Known, Jet!Active
<1>3. Jet!Running \in Jet!Statuses
  BY DEF Jet!Statuses
<1> QED
  BY <1>1, <1>2, <1>3, JetChange, Zenon

LEMMA JetCallFields ==
    ASSUME NEW c \in [send : Nat, report : Nat]
    PROVE  /\ [c EXCEPT !.send = @ + 1] \in [send : Nat, report : Nat]
           /\ c.send > 0 => /\ [c EXCEPT !.send = @ - 1] \in [send : Nat, report : Nat]
                            /\ [send |-> c.send - 1, report |-> c.report + 1]
                                   \in [send : Nat, report : Nat]
           /\ c.report > 0 => /\ [c EXCEPT !.report = @ - 1] \in [send : Nat, report : Nat]
                              /\ [c EXCEPT !.report = @ - 1].send = c.send
  OBVIOUS

LEMMA JetSubmit ==
    ASSUME Jet!Inv, Jet!Submit
    PROVE  Jet!Inv'
<1>1. /\ UNCHANGED <<job, cache, queued, hz, runs, summaries, mixed, edits, mishaps>>
      /\ rec.pc = "submit" /\ rec' = Jet!To("starting")
      /\ calls' = [calls EXCEPT !.send = @ + 1]
      /\ checker' = Jet!RunChecker([checker EXCEPT !.job = IF @ = "none" THEN "none" ELSE "submitted"])
  BY DEF Jet!Submit, Jet!Keep
<1>2. /\ rec' \in [pc : Jet!Steps, job : Jet!Objects]
      /\ rec'.pc = "starting" /\ rec'.job = rec.job
  BY <1>1, JetTo, JetSteps, JetTypes DEF Jet!To
<1>3. calls' \in [send : Nat, report : Nat]
  BY <1>1, JetTypes, JetCallFields
<1>4. checker' \in Checkers /\ Polls(checker')
  <2>1. \E q \in {"none", "submitted"} : checker' = Jet!RunChecker([checker EXCEPT !.job = q])
    BY <1>1
  <2> QED
    BY <2>1, JetTypes, JetCheckers, Zenon
<1>5. Jet!TypeOK'
  BY <1>1, <1>2, <1>3, <1>4, JetTypes, JetStillTyped
<1>6. Jet!Begun
  BY <1>1, JetSteps DEF Jet!Begun
<1> QED
  BY <1>1, <1>2, <1>4, <1>5, <1>6, JetTypes, JetLeaves

----------------------------------------------------------------------------
(* executeFinalizer.                                                       *)

\* The run that the copy names is over before the finalizer is removed.
LEMMA JetStop ==
    ASSUME Jet!Inv, Jet!StopJetExecution
    PROVE  Jet!Inv'
<1>1. /\ UNCHANGED <<job, cache, queued, hz, calls, checker, summaries, edits, mixed>>
      /\ rec.pc = "stop" /\ mishaps' \in Nat
  BY JetFaults, Zenon DEF Jet!StopJetExecution, Jet!Keep, Jet!inside
<1>2. CASE /\ runs' = IF hz \in {"gone", "deleting", "missing"} THEN runs ELSE Jet!Stop(rec.job.id)
           /\ rec' = Jet!To("remove")
  <2>1. /\ rec' \in [pc : Jet!Steps, job : Jet!Objects]
        /\ rec'.pc = "remove" /\ rec'.job = rec.job
    BY <1>2, JetTo, JetSteps, JetTypes, Zenon DEF Jet!To
  <2>2. /\ runs' \in Seq(Jet!Statuses) /\ Len(runs') = Len(runs)
        /\ Jet!Active' \subseteq Jet!Active
        /\ hz \in {"notready", "up"} => rec.job.id \notin Jet!Active'
    <3>1. CASE runs' = runs /\ (hz \in {"notready", "up"} => rec.job.id \notin Jet!Active)
      BY <3>1, JetTypes DEF Jet!Active
    <3>2. CASE rec.job.id \in Jet!Active /\ runs' = [runs EXCEPT ![rec.job.id] = Jet!Failed]
      <4>1. Jet!Failed \in Jet!Statuses /\ Jet!Failed \notin {Jet!Running, Jet!Suspended}
        BY DEF Jet!Statuses, Jet!Failed, Jet!Running, Jet!Suspended
      <4> QED
        BY <3>2, <4>1, JetRunSet, Zenon
    <3> QED
      BY <1>2, <3>1, <3>2, Zenon DEF Jet!Stop
  <2>3. Jet!TypeOK'
    BY <1>1, <2>1, <2>2, JetTypes, JetStillTyped, Zenon
  <2>4. hz \in {"notready", "up"} => (~job'.live => job'.id \notin Jet!Active')
    BY <1>1, <2>2 DEF Jet!Inv, Jet!StoppedInv
  <2> QED
    BY <1>1, <2>1, <2>2, <2>3, <2>4, JetTypes, JetSteps, JetKeeps, Zenon DEF Jet!Begun
<1>3. CASE rec' = [Jet!Idle EXCEPT !.pc = "failed"] /\ runs' = runs
  BY <1>1, <1>3, JetTypes, JetEnds
<1> QED
  BY <1>2, <1>3 DEF Jet!StopJetExecution

LEMMA JetRemove ==
    ASSUME Jet!Inv, Jet!RemoveFinalizer
    PROVE  Jet!Inv'
<1>1. /\ UNCHANGED <<cache, queued, hz, runs, calls, summaries, edits, mixed>>
      /\ rec.pc = "remove" /\ mishaps' \in Nat /\ checker' = Jet!Without(checker)
  BY JetFaults DEF Jet!RemoveFinalizer, Jet!Keep
<1>2. checker' \in Checkers /\ Polls(checker')
  BY <1>1, JetTypes, JetCheckers, Zenon
<1>3. Jet!Active' = Jet!Active
  BY <1>1, ZenonT(30) DEF Jet!Active
<1>4. CASE rec.job = job /\ job' = Jet!Gone(job) /\ rec' = Jet!Idle
  <2>1. job' \in Jet!Objects /\ job'.fin = job.fin /\ job'.id = job.id
    <3>1. job \in Jet!Objects /\ job' = [job EXCEPT !.live = FALSE]
      BY <1>4, JetTypes, Zenon DEF Jet!Gone
    <3> QED
      BY <3>1, JetFields, Zenon
  <2>2. Jet!TypeOK'
    BY <1>1, <1>2, <1>4, <2>1, JetTypes, JetNewFields, JetStillTyped, Zenon
  <2>3. hz \in {"notready", "up"} => job'.id \notin Jet!Active'
    BY <1>1, <1>3, <1>4, <2>1, Zenon DEF Jet!Inv, Jet!StoppedInv
  <2>4. rec'.pc = "idle" /\ rec'.job.id = 0
    BY <1>4, JetNewFields
  <2> QED
    BY <1>1, <1>2, <1>3, <2>1, <2>2, <2>3, <2>4, JetTypes, JetSteps, JetKeeps DEF Jet!Begun
<1>5. CASE rec' = [Jet!Idle EXCEPT !.pc = "failed"] /\ job' = job
  <2>1. Jet!TypeOK'
    BY <1>1, <1>2, <1>5, JetTypes, JetFailing, JetStillTyped
  <2> QED
    BY <1>1, <1>2, <1>5, <2>1, JetTypes, JetFailing, JetSteps, JetLeaves DEF Jet!Begun
<1> QED
  BY <1>4, <1>5 DEF Jet!RemoveFinalizer

----------------------------------------------------------------------------
(* The goroutines that submit, and the status checker.                     *)

\* A new run has an id that nobody holds.
LEMMA JetRunJob ==
    ASSUME Jet!Inv, Jet!RunJob
    PROVE  Jet!Inv'
<1>1. /\ UNCHANGED <<job, cache, queued, hz, checker, summaries, rec, edits>>
      /\ calls.send > 0 /\ mishaps' \in Nat
  BY JetFaults DEF Jet!RunJob, Jet!kube
<1>2. Jet!Begun
  BY <1>1 DEF Jet!Begun
<1>3. CASE /\ runs' = Append(runs, Jet!Running) /\ mixed' = mixed
           /\ calls' = [calls EXCEPT !.send = @ - 1]
  <2>1. Jet!Running \in Jet!Statuses
    BY DEF Jet!Statuses
  <2>2. /\ runs' \in Seq(Jet!Statuses) /\ Len(runs') = Len(runs) + 1
        /\ DOMAIN runs = 1 .. Len(runs) /\ DOMAIN runs' = 1 .. Len(runs) + 1
        /\ \A k \in 1 .. Len(runs) : runs'[k] = runs[k]
        /\ Len(runs) \in Nat
    BY <1>3, <2>1, JetTypes
  <2>3. \A i \in 0 .. Len(runs) : i \in Jet!Active' => i \in Jet!Active
    BY <2>2 DEF Jet!Active
  <2>4. calls' \in [send : Nat, report : Nat]
    <3>1. calls \in [send : Nat, report : Nat]
      BY JetTypes
    <3> QED
      BY <1>1, <1>3, <3>1, JetCallFields, Zenon
  <2>5. Jet!TypeOK'
    BY <1>1, <1>3, <2>2, <2>4, JetTypes, JetStillTyped
  <2>6. Jet!IdInv'
    <3>1. \A i : i \in 0 .. Len(runs) => i \in 0 .. Len(runs')
      BY <2>2
    <3>2. \A i : i \in 1 .. Len(runs) => i \in 1 .. Len(runs')
      BY <2>2
    <3> QED
      BY <1>1, <3>1, <3>2, JetTypes DEF Jet!IdInv
  <2>7. Jet!FinalizerInv'
    BY <1>1, <1>2, JetTypes, Zenon DEF Jet!FinalizerInv
  <2>8. Jet!StoppedInv'
    BY <1>1, <2>3, JetTypes DEF Jet!StoppedInv, Jet!Inv
  <2>9. Jet!CheckerRuns'
    BY <1>1, Zenon DEF Jet!CheckerRuns, Jet!Inv
  <2> QED
    BY <2>5, <2>6, <2>7, <2>8, <2>9 DEF Jet!Inv
<1>4. CASE /\ runs' = runs /\ mixed' = TRUE
           /\ calls' = [send |-> calls.send - 1, report |-> calls.report + 1]
  <2>1. calls' \in [send : Nat, report : Nat]
    <3>1. calls \in [send : Nat, report : Nat]
      BY JetTypes, Zenon
    <3> QED
      BY <1>1, <1>4, <3>1, JetCallFields, Zenon
  <2>2. Jet!TypeOK'
    BY <1>1, <1>4, <2>1, JetTypes, JetStillTyped
  <2> QED
    BY <1>1, <1>2, <1>4, <2>2, JetTypes, JetLeaves, Zenon
<1> QED
  BY <1>3, <1>4, Zenon DEF Jet!RunJob

LEMMA JetReport ==
    ASSUME Jet!Inv, Jet!ReportFailure
    PROVE  Jet!Inv'
<1>1. /\ UNCHANGED <<cache, queued, hz, runs, checker, summaries, rec, mixed, edits, mishaps>>
      /\ calls.report > 0 /\ calls' = [calls EXCEPT !.report = @ - 1]
  BY DEF Jet!ReportFailure
<1>2. job' \in Jet!Objects /\ job'.fin = job.fin /\ job'.id = job.id /\ job'.live = job.live
  <2>1. job' = job \/ job' = [job EXCEPT !.phase = "Failed"]
    BY DEF Jet!ReportFailure
  <2>2. job \in Jet!Objects /\ "Failed" \in Jet!Phases
    BY JetTypes, JetPhases, Zenon
  <2>3. \A p \in Jet!Phases : /\ [job EXCEPT !.phase = p] \in Jet!Objects
                               /\ [job EXCEPT !.phase = p].fin = job.fin
                               /\ [job EXCEPT !.phase = p].id = job.id
                               /\ [job EXCEPT !.phase = p].live = job.live
    BY <2>2, JetFields
  <2>4. CASE job' = [job EXCEPT !.phase = "Failed"]
    <3>1. PICK p \in Jet!Phases : job' = [job EXCEPT !.phase = p]
      BY <2>2, <2>4
    <3> QED
      BY <2>3, <3>1
  <2> QED
    BY <2>1, <2>2, <2>4
<1>3. calls' \in [send : Nat, report : Nat] /\ calls'.send = calls.send
  BY <1>1, JetTypes, JetCallFields, Zenon
<1>4. Jet!TypeOK'
  BY <1>1, <1>2, <1>3, JetTypes, JetStillTyped, Zenon
<1> QED
  BY <1>1, <1>2, <1>3, <1>4, JetTypes, JetLeaves DEF Jet!Begun

\* The goroutine ends only when no job is stored.
LEMMA JetTick ==
    ASSUME Jet!Inv, Jet!Tick
    PROVE  Jet!Inv'
<1>1. UNCHANGED <<job, cache, queued, hz, runs, calls, rec, mixed, edits>>
  BY DEF Jet!Tick, Jet!kube
<1>2. mishaps' \in Nat
  BY JetFaults, JetTypes DEF Jet!Tick
<1>3. /\ summaries' \subseteq [id : Nat, status : Jet!Statuses]
      /\ \A s \in summaries' : s.id \in 1 .. Len(runs)
  <2>1. CASE summaries' = summaries
    BY <2>1, JetTypes, ZenonT(30)
  <2>2. CASE summaries' = {[id |-> i, status |-> runs[i]] : i \in DOMAIN runs}
    <3>1. \A i \in DOMAIN runs : i \in Nat /\ i \in 1 .. Len(runs) /\ runs[i] \in Jet!Statuses
      BY JetTypes
    <3> QED
      BY <2>2, <3>1
  <2> QED
    BY <2>1, <2>2 DEF Jet!Tick
<1>4. checker' \in Checkers /\ Polls(checker')
  <2>1. \/ checker' = checker
        \/ checker.job = "none" /\ checker' = [checker EXCEPT !.on = FALSE]
    BY Zenon DEF Jet!Tick, Jet!StaysOn
  <2> QED
    BY <2>1, JetTypes, JetCheckers, Zenon
<1>5. Jet!TypeOK'
  BY <1>1, <1>2, <1>3, <1>4, JetTypes, JetStillTyped, Zenon
<1>6. Jet!Active' = Jet!Active
  BY <1>1, Zenon DEF Jet!Active
<1>7. hz \in {"notready", "up"} =>
          /\ rec'.pc = "remove" => rec'.job.id \notin Jet!Active'
          /\ ~job'.live => job'.id \notin Jet!Active'
  BY <1>1, <1>6, Zenon DEF Jet!Inv, Jet!StoppedInv
<1> QED
  BY <1>1, <1>3, <1>4, <1>5, <1>6, <1>7, JetTypes, JetKeeps, Zenon DEF Jet!Begun

LEMMA JetUpdateJob ==
    ASSUME Jet!Inv, Jet!UpdateJob
    PROVE  Jet!Inv'
<1>1. /\ UNCHANGED <<cache, queued, hz, runs, calls, rec, mixed, edits, mishaps>>
      /\ summaries' \subseteq summaries
      /\ checker' = checker \/ checker' = Jet!Without(checker)
  BY DEF Jet!UpdateJob
<1>2. \/ job' = job
      \/ /\ cache.live /\ cache = job
         /\ \E s \in summaries : job' = [job EXCEPT !.phase = Jet!JobStatusPhase(s.status), !.id = s.id]
  BY Zenon DEF Jet!UpdateJob
<1>3. checker' \in Checkers /\ Polls(checker')
  BY <1>1, JetTypes, JetCheckers, Zenon
<1>4. Jet!Active' = Jet!Active
  BY <1>1 DEF Jet!Active
<1>5. /\ job' \in Jet!Objects /\ job'.fin = job.fin /\ job'.id \in 0 .. Len(runs)
      /\ job' = job \/ job'.live
  <2>1. CASE job' = job
    BY <2>1, JetTypes
  <2>2. CASE /\ cache.live /\ cache = job
             /\ \E s \in summaries : job' = [job EXCEPT !.phase = Jet!JobStatusPhase(s.status), !.id = s.id]
    <3>1. PICK s \in summaries : job' = [job EXCEPT !.phase = Jet!JobStatusPhase(s.status), !.id = s.id]
      BY <2>2, Zenon
    <3>2. s.id \in Nat /\ s.status \in Jet!Statuses /\ s.id \in 1 .. Len(runs)
      BY JetTypes
    <3>3. Jet!JobStatusPhase(s.status) \in Jet!Phases
      BY <3>2, JetPhases, Zenon
    <3>4. \A p \in Jet!Phases : /\ [job EXCEPT !.phase = p, !.id = s.id] \in Jet!Objects
                                 /\ [job EXCEPT !.phase = p, !.id = s.id].fin = job.fin
                                 /\ [job EXCEPT !.phase = p, !.id = s.id].id = s.id
                                 /\ [job EXCEPT !.phase = p, !.id = s.id].live = job.live
      <4>1. job \in Jet!Objects
        BY JetTypes
      <4> QED
        BY <3>2, <4>1, Zenon DEF Jet!Objects
    <3>5. job' \in Jet!Objects /\ job'.fin = job.fin /\ job'.id = s.id /\ job'.live = job.live
      BY <3>1, <3>3, <3>4, Zenon
    <3>6. s.id \in 0 .. Len(runs)
      BY <3>2
    <3> QED
      BY <2>2, <3>5, <3>6, Zenon
  <2> QED
    BY <1>2, <2>1, <2>2, Zenon
<1>6. Jet!TypeOK'
  BY <1>1, <1>3, <1>5, JetTypes, JetStillTyped, Zenon
<1>7. hz \in {"notready", "up"} =>
          /\ rec'.pc = "remove" => rec'.job.id \notin Jet!Active'
          /\ ~job'.live => job'.id \notin Jet!Active'
  BY <1>1, <1>4, <1>5, Zenon DEF Jet!Inv, Jet!StoppedInv
<1> QED
  BY <1>1, <1>3, <1>4, <1>5, <1>6, <1>7, JetTypes, JetKeeps, Zenon DEF Jet!Begun

----------------------------------------------------------------------------
(* The theorems.                                                           *)

LEMMA JetInitInv ==
    ASSUME Jet!Init
    PROVE  Jet!Inv
<1>1. hz \in Jet!HzStates
  <2>1. Head(HzCourse) \in Jet!HzStates
    BY JetAssumption
  <2> QED
    BY <2>1, Zenon DEF Jet!Init
<1>2. /\ job = Jet!New /\ cache = Jet!Gone(Jet!New) /\ queued = FALSE /\ runs = <<>>
      /\ calls = [send |-> 0, report |-> 0] /\ checker = [job |-> "none", on |-> FALSE]
      /\ summaries = {} /\ rec = Jet!Idle /\ mixed = FALSE /\ edits = 0 /\ mishaps = 0
  BY DEF Jet!Init
<1>3. Jet!TypeOK
  <2>1. runs \in Seq(Jet!Statuses) /\ calls \in [send : Nat, report : Nat]
    BY <1>2
  <2>2. checker \in [job : {"none", "stored", "submitted"}, on : BOOLEAN]
    BY <1>2, Zenon
  <2>3. /\ job \in Jet!Objects /\ cache \in Jet!Objects
        /\ rec \in [pc : Jet!Steps, job : Jet!Objects]
    BY <1>2, JetNewFields, ZenonT(30)
  <2> QED
    BY <1>1, <1>2, <2>1, <2>2, <2>3, ZenonT(30) DEF Jet!TypeOK
<1>4. Jet!IdInv
  <2>1. job.id = 0 /\ cache.id = 0 /\ rec.job.id = 0
    BY <1>2, JetNewFields, Zenon
  <2>2. runs = <<>> /\ summaries = {}
    BY <1>2, Zenon
  <2> QED
    BY <2>1, <2>2 DEF Jet!IdInv
<1>5. Jet!FinalizerInv
  <2>1. ~cache.fin /\ rec.pc = "idle" /\ rec.pc \notin Jet!Applying
    BY <1>2, JetNewFields, JetSteps, ZenonT(30)
  <2>2. runs = <<>> /\ calls.send = 0
    BY <1>2
  <2> QED
    BY <2>1, <2>2 DEF Jet!FinalizerInv, Jet!Begun
<1>6. Jet!StoppedInv
  BY <1>2, JetNewFields, Zenon DEF Jet!StoppedInv
<1>7. Jet!CheckerRuns
  BY <1>2 DEF Jet!CheckerRuns
<1> QED
  BY <1>3, <1>4, <1>5, <1>6, <1>7, Zenon DEF Jet!Inv

LEMMA JetNextInv ==
    ASSUME Jet!Inv, Jet!Next
    PROVE  Jet!Inv'
<1>1. CASE Jet!Worker
  BY <1>1, JetReconcile, JetAddFinalizer, JetUpdateStatus, JetApplyFailed, JetChangeState,
     JetResume, JetSubmit, JetWriteStarting, JetUpdateLast, JetStop, JetRemove, Zenon
  DEF Jet!Worker
<1>2. CASE Jet!Ticker \/ Jet!Goroutines
  BY <1>2, JetTick, JetUpdateJob, JetRunJob, JetReport, Zenon DEF Jet!Ticker, Jet!Goroutines
<1> QED
  BY <1>1, <1>2, JetEdit, JetDelete, JetSync, JetRestart, JetHazelcast, JetFinish, Zenon DEF Jet!Next

LEMMA JetStutter ==
    ASSUME Jet!Inv, UNCHANGED jetVars
    PROVE  Jet!Inv'
<1>1. Jet!TypeOK' /\ Jet!IdInv' /\ Jet!CheckerRuns'
  BY Zenon DEF jetVars, Jet!Inv, Jet!TypeOK, Jet!IdInv, Jet!CheckerRuns
<1>2. Jet!Active' = Jet!Active /\ Jet!Begun' = Jet!Begun
  BY DEF jetVars, Jet!Active, Jet!Begun
<1> QED
  BY <1>1, <1>2, Zenon DEF jetVars, Jet!Inv, Jet!FinalizerInv, Jet!StoppedInv

\* Every reachable state of the controller of a Jet job satisfies the invariant.
LEMMA JetInvariance == EitherSpec => []Jet!Inv
<1>1. EitherInit => Jet!Inv
  BY JetInitInv DEF EitherInit
<1>2. Jet!Inv /\ [EitherNext]_allVars => Jet!Inv'
  BY JetNextInv, JetStutter DEF EitherNext, TransferStep, JetStep, allVars
<1> QED
  BY <1>1, <1>2, PTL DEF EitherSpec

\* A JetJob that is gone has stopped the job its status named, as long as its
\* cluster exists, although its id is learnt by a goroutine that polls, and the
\* copies of the worker are stale (executeFinalizer, updateJob).
THEOREM GoneStopped == EitherSpec => []JobGoneIsStopped
<1>1. Jet!Inv => JobGoneIsStopped
  BY DEF Jet!Inv, Jet!StoppedInv, JobGoneIsStopped, Jet!GoneIsStopped
<1> QED
  BY <1>1, JetInvariance, PTL

\* The goroutine of the status checker runs as long as a submitted job is
\* stored, whoever stores and removes it (runChecker, removeJobFromChecker).
THEOREM CheckerPolls == EitherSpec => []CheckerRuns
<1>1. Jet!Inv => CheckerRuns
  BY DEF Jet!Inv, CheckerRuns
<1> QED
  BY <1>1, JetInvariance, PTL
==============================================================================
