------------------------ MODULE StorageReplaceProofs ------------------------
(***************************************************************************)
(* For every set of contents: a published document is never torn, and the  *)
(* replace protocol implements DurableDocument.                            *)
(***************************************************************************)
EXTENDS StorageReplace, TLAPS

\* Before the first replace every file on the card is complete.
LEMMA InitIInv == Init => IInv
BY StorageConstants
DEF Init, IInv, TypeOK, NeverTorn, CommitInv, CommitSteps, RecoverSteps

\* One case per file-system call.
LEMMA NextIInv == IInv /\ [Next]_vars => IInv'
<1> SUFFICES ASSUME IInv, [Next]_vars PROVE IInv'
  OBVIOUS
<1> USE StorageConstants
        DEF IInv, TypeOK, NeverTorn, CommitInv, CommitSteps, RecoverSteps, Goto, disk
<1>1. ASSUME NEW v \in Contents, OpenTemporary(v) PROVE IInv'
  BY <1>1 DEF OpenTemporary
<1>2. CASE WriteFails \/ WriteSucceeds
  BY <1>2 DEF WriteFails, WriteSucceeds
<1>3. CASE CloseSynced
  BY <1>3 DEF CloseSynced
<1>4. CASE StatFinal
  BY <1>4 DEF StatFinal
<1>5. CASE RemoveBackup
  BY <1>5 DEF RemoveBackup
<1>6. CASE MoveFinal
  BY <1>6 DEF MoveFinal
<1>7. CASE Publish
  BY <1>7 DEF Publish
<1>8. CASE Restore
  BY <1>8 DEF Restore
<1>9. CASE ReplaceReturns
  BY <1>9 DEF ReplaceReturns
<1>10. CASE CallRecover \/ RecoverStatFinal \/ RecoverReturns
  BY <1>10 DEF CallRecover, RecoverStatFinal, RecoverReturns
<1>11. CASE RecoverBackup
  BY <1>11 DEF RecoverBackup
<1>12. CASE PowerLoss
  BY <1>12 DEF PowerLoss
<1>13. CASE UNCHANGED vars
  BY <1>13 DEF vars
<1> QED
  BY <1>1, <1>2, <1>3, <1>4, <1>5, <1>6, <1>7, <1>8, <1>9, <1>10, <1>11, <1>12, <1>13
  DEF Next, CommitStep, RecoverStep

\* The files before the first replace are an initial durable document.
LEMMA InitRefines == Init => Durable!Init
BY StorageConstants DEF Init, Durable!Init, Document

\* Every file-system call is a step of the abstract document or leaves it alone.
LEMMA StepRefines == IInv /\ [Next]_vars => [Durable!Next]_(Durable!vars)
<1> SUFFICES ASSUME IInv, [Next]_vars PROVE Durable!Next \/ UNCHANGED Durable!vars
  OBVIOUS
<1> USE StorageConstants
        DEF IInv, TypeOK, NeverTorn, CommitInv, CommitSteps, RecoverSteps, Goto, disk,
            Document, Durable!vars
<1>1. ASSUME NEW v \in Contents, OpenTemporary(v) PROVE Durable!Begin(v)
  BY <1>1 DEF OpenTemporary, Durable!Begin
<1>2. CASE WriteFails \/ WriteSucceeds
  BY <1>2 DEF WriteFails, WriteSucceeds
<1>3. CASE CloseSynced
  BY <1>3 DEF CloseSynced
<1>4. CASE StatFinal
  BY <1>4 DEF StatFinal
<1>5. CASE RemoveBackup
  BY <1>5 DEF RemoveBackup
<1>6. CASE MoveFinal
  BY <1>6 DEF MoveFinal
<1>7. ASSUME Publish PROVE Durable!Publish \/ UNCHANGED Durable!vars
  BY <1>7 DEF Publish, Durable!Publish
<1>8. CASE Restore
  BY <1>8 DEF Restore
<1>9. ASSUME ReplaceReturns PROVE Durable!Succeed \/ Durable!Fail
  BY <1>9 DEF ReplaceReturns, Durable!Succeed, Durable!Fail
<1>10. CASE CallRecover \/ RecoverStatFinal \/ RecoverReturns
  BY <1>10 DEF CallRecover, RecoverStatFinal, RecoverReturns
<1>11. CASE RecoverBackup
  BY <1>11 DEF RecoverBackup
<1>12. ASSUME PowerLoss PROVE Durable!PowerLoss
  BY <1>12 DEF PowerLoss, Durable!PowerLoss
<1>13. CASE UNCHANGED vars
  BY <1>13 DEF vars
<1> QED
  BY <1>1, <1>2, <1>3, <1>4, <1>5, <1>6, <1>7, <1>8, <1>9, <1>10, <1>11, <1>12, <1>13
  DEF Next, CommitStep, RecoverStep, Durable!Next

\* The inductive invariant holds in every reachable state.
THEOREM AlwaysIInv == Spec => []IInv
BY InitIInv, NextIInv, PTL DEF Spec

\* Every published or backed-up file is complete, whatever fails on the way.
THEOREM PublishedIsComplete == Spec => []NeverTorn
<1>1. IInv => NeverTorn
  BY DEF IInv
<1> QED
  BY <1>1, AlwaysIInv, PTL

\* A recovery that succeeds has put the document back under its own name.
THEOREM RecoveryIsComplete == Spec => []RecoveredIsComplete
<1>1. IInv => RecoveredIsComplete
  BY DEF IInv, CommitInv, RecoveredIsComplete, Document
<1> QED
  BY <1>1, AlwaysIInv, PTL

\* The replace protocol implements the durable document, for every set of
\* contents: no failure, rollback or power loss loses or mixes documents.
THEOREM Refinement == Spec => ImplementsDurable
BY InitRefines, StepRefines, AlwaysIInv, PTL DEF Spec, ImplementsDurable, Durable!Spec
=============================================================================
