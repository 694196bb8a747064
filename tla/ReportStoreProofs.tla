------------------------- MODULE ReportStoreProofs --------------------------
(***************************************************************************)
(* What ReportStore guarantees for every number of reports and requests,   *)
(* every schema and every content.                                         *)
(***************************************************************************)
EXTENDS ReportStore, FiniteSetTheorems, SequenceTheorems, TLAPS

USE DEF tables

-----------------------------------------------------------------------------
(* The request a request id stands for before it arrives is a request.     *)
LEMMA EmptyContentType == EmptyContent \in Content
  BY DEF EmptyContent, Content

LEMMA NewRequestType ==
  ASSUME NEW q \in Requests, NEW k \in Writing \cup {"get", "agent", "fetch"},
         NEW r \in Reports, NEW c \in Content
  PROVE  NewRequest(q, k, r, c) \in Request
  BY EmptyContentType DEF NewRequest, Request, Record

(* Filling in one field of a request, a record or a content.               *)
LEMMA WithParts ==
  ASSUME NEW c \in Content, NEW x \in SUBSET PartRows
  PROVE  [c EXCEPT !.parts = x] \in Content
  BY DEF Content

LEMMA WithValues ==
  ASSUME NEW c \in Content, NEW x \in [Fields -> Values \cup {None}]
  PROVE  [c EXCEPT !.values = x] \in Content
  BY DEF Content

LEMMA WithSeen ==
  ASSUME NEW x \in Request, NEW s \in Record
  PROVE  [x EXCEPT !.seen = s] \in Request
  BY DEF Request

LEMMA WithSeenParts ==
  ASSUME NEW x \in Request, NEW p \in SUBSET PartRows
  PROVE  [x EXCEPT !.seen.content.parts = p] \in Request
  <1>1. x.seen \in Record /\ x.seen.content \in Content
    BY DEF Request, Record
  <1>2. [x.seen EXCEPT !.content = [x.seen.content EXCEPT !.parts = p]] \in Record
    BY <1>1, WithParts DEF Record
  <1>3. QED
    BY <1>2, WithSeen

LEMMA WithBody ==
  ASSUME NEW x \in Request, NEW c \in Content
  PROVE  [x EXCEPT !.body = c] \in Request
  BY DEF Request

LEMMA WithDoomed ==
  ASSUME NEW x \in Request, NEW d \in SUBSET PartRecord
  PROVE  [x EXCEPT !.doomed = d] \in Request
  BY DEF Request

LEMMA WithStamp ==
  ASSUME NEW x \in Request, NEW t \in Nat
  PROVE  [x EXCEPT !.stamp = t] \in Request
  BY DEF Request

LEMMA WithKey ==
  ASSUME NEW x \in Request, NEW k \in Requests
  PROVE  [x EXCEPT !.key = k] \in Request
  BY DEF Request

LEMMA WithGot ==
  ASSUME NEW x \in Request, NEW g \in {Missing, Partial} \cup Content
  PROVE  [x EXCEPT !.got = g] \in Request
  BY DEF Request

(* What selectParts returns is a set of parts rows.                        *)
LEMMA PartsOfType == TypeOK => \A r \in Reports : PartsOf(r) \subseteq PartRows
  BY DEF TypeOK, PartsOf, PartRecord

(* The rows a commit inserts are rows, once the column has taken them.     *)
LEMMA InsertedType ==
  ASSUME NEW q \in Requests, NEW parts \in SUBSET PartRows, Storable(parts)
  PROVE  {[by |-> q, part |-> AsNumeric[p]] : p \in parts} \subseteq PartRecord
  BY NumericAssumption DEF Storable, PartRecord

LEMMA TypeInit == Init => TypeOK
  <1> SUFFICES ASSUME Init PROVE TypeOK
    OBVIOUS
  <1>1. row \in [Reports -> Record]
    BY EmptyContentType DEF Init, Record
  <1>2. attachments \in [Reports -> Seq([key : Requests, stamp : Nat])]
    BY DEF Init
  <1>3. req \in [Requests -> Request]
    <2>1. (CHOOSE r \in Reports : TRUE) \in Reports
      BY ExistingAssumption
    <2>2. QED
      BY <2>1, NewRequestType, EmptyContentType DEF Init
  <1>4. QED
    BY <1>1, <1>2, <1>3 DEF Init, TypeOK

(* An element of a sequence is of the type of its elements.                *)
LEMMA ElementOf ==
  ASSUME NEW S, NEW s \in Seq(S), NEW i \in DOMAIN s
  PROVE  s[i] \in S
  OBVIOUS

(* What a commit makes of the tables, and of the locks.                    *)
LEMMA ApplyType ==
  ASSUME TypeOK, NEW q \in Requests, Storable(Body(q).parts), Apply(q)
  PROVE  /\ row' \in [Reports -> Record]
         /\ partsUsed' \in [Reports -> SUBSET PartRecord]
         /\ attachments' \in [Reports -> Seq([key : Requests, stamp : Nat])]
  <1> DEFINE r == Rep(q)
             inserted == {[by |-> q, part |-> AsNumeric[p]] : p \in Body(q).parts}
             export == [key |-> q, stamp |-> req[q].stamp]
  <1>1. r \in Reports /\ Body(q) \in Content /\ req[q].stamp \in Nat
    BY DEF TypeOK, Request, Rep, Body
  <1>2. inserted \subseteq PartRecord
    BY <1>1, InsertedType DEF Content
  <1>3. row' \in [Reports -> Record]
    BY <1>1 DEF Apply, TypeOK, Record
  <1>4. partsUsed' \in [Reports -> SUBSET PartRecord]
    BY <1>1, <1>2 DEF Apply, TypeOK
  <1>5. attachments[r] \in Seq([key : Requests, stamp : Nat])
    BY <1>1 DEF TypeOK
  <1>6. export \in [key : Requests, stamp : Nat]
    BY <1>1
  <1>7. Append(attachments[r], export) \in Seq([key : Requests, stamp : Nat])
    BY <1>5, <1>6
  <1>8. attachments' \in [Reports -> Seq([key : Requests, stamp : Nat])]
    BY <1>1, <1>7 DEF Apply, TypeOK
  <1>9. QED
    BY <1>3, <1>4, <1>8

LEMMA UnlockType ==
  ASSUME TypeOK, NEW q \in Requests, Unlock(q)
  PROVE  lock' \in [Reports -> Requests \cup {Nobody}]
  BY DEF Unlock, TypeOK

(* Every step keeps the types.  Only a commit leans on more than types: it *)
(* inserts quantities, which must be ones the column took.                 *)
LEMMA TypeStep == TypeOK /\ ProgressInv /\ [Next]_vars => TypeOK'
  <1> SUFFICES ASSUME TypeOK, ProgressInv, [Next]_vars PROVE TypeOK'
    OBVIOUS
  <1> USE DEF InTx, Reading, Answers, Goto
  <1>a. ASSUME NEW q \in Requests
        PROVE  /\ req[q] \in Request /\ Rep(q) \in Reports /\ Body(q) \in Content
               /\ req[q].seen \in Record /\ req[q].key \in Requests
    BY DEF TypeOK, Request, Rep, Body
  <1>1. CASE UNCHANGED vars
    BY <1>1 DEF TypeOK, vars
  <1>2. ASSUME NEW q \in Requests, NEW k \in Kinds, NEW r \in Reports, NEW c \in Content,
               Arrive(q, k, r, c)
        PROVE  TypeOK'
    <2>1. NewRequest(q, k, r, c) \in Request
      BY NewRequestType, KindsAssumption
    <2>2. QED
      BY <1>2, <2>1 DEF Arrive, TypeOK
  <1>3. ASSUME NEW q \in Requests, LoadRow(q)
        PROVE  TypeOK'
    <2>1. row[Rep(q)] \in Record
      BY <1>a DEF TypeOK
    <2>2. QED
      BY <1>3, <1>a, <2>1, WithSeen DEF LoadRow, TypeOK
  <1>4. ASSUME NEW q \in Requests, LoadParts(q)
        PROVE  TypeOK'
    <2>1. PartsOf(Rep(q)) \in SUBSET PartRows
      BY <1>a, PartsOfType
    <2>2. QED
      BY <1>4, <1>a, <2>1, WithSeenParts DEF LoadParts, TypeOK
  <1>5. ASSUME NEW q \in Requests, Admit(q) \/ Refuse(q) \/ AgentStop(q)
        PROVE  TypeOK'
    BY <1>5 DEF Admit, Refuse, AgentStop, TypeOK
  <1>6. ASSUME NEW q \in Requests, NEW v \in [Fields -> Values \cup {None}], AgentSave(q, v)
        PROVE  TypeOK'
    <2>1. [req[q].seen.content EXCEPT !.values = v] \in Content
      BY <1>a, WithValues DEF Record
    <2>2. QED
      BY <1>6, <1>a, <2>1, WithBody DEF AgentSave, TypeOK
  <1>7. ASSUME NEW q \in Requests, Begin(q)
        PROVE  TypeOK'
    <2>1. clock' \in Nat
      BY <1>7 DEF Begin, TypeOK
    <2>2. QED
      BY <1>7, <1>a, <2>1, WithStamp DEF Begin, TypeOK
  <1>8. ASSUME NEW q \in Requests, WriteRow(q)
        PROVE  TypeOK'
    BY <1>8, <1>a DEF WriteRow, TypeOK
  <1>9. ASSUME NEW q \in Requests, DeleteParts(q)
        PROVE  TypeOK'
    <2>1. partsUsed[Rep(q)] \in SUBSET PartRecord
      BY <1>a DEF TypeOK
    <2>2. QED
      BY <1>9, <1>a, <2>1, WithDoomed DEF DeleteParts, TypeOK
  <1>10. ASSUME NEW q \in Requests, InsertParts(q) \/ MarkExported(q) \/ InsertAttachment(q)
         PROVE  TypeOK'
    BY <1>10 DEF InsertParts, MarkExported, InsertAttachment, TypeOK
  <1>11. ASSUME NEW q \in Requests, OpenFile(q) \/ WriteFile(q)
         PROVE  TypeOK'
    <2>1. files' \in [Requests -> {Missing, Partial} \cup Content]
      <3>1. files \in [Requests -> {Missing, Partial} \cup Content]
        BY DEF TypeOK
      <3>2. CASE OpenFile(q)
        BY <3>1, <3>2 DEF OpenFile
      <3>3. CASE WriteFile(q)
        BY <3>1, <3>3, <1>a DEF WriteFile
      <3>4. QED
        BY <1>11, <3>2, <3>3
    <2>2. QED
      BY <1>11, <2>1 DEF OpenFile, WriteFile, TypeOK
  <1>12. ASSUME NEW q \in Requests, Commit(q) \/ CommitUnanswered(q)
         PROVE  TypeOK'
    <2>1. pc[q] = "commit" /\ Apply(q) /\ Unlock(q)
      BY <1>12 DEF Commit, CommitUnanswered
    <2>2. Storable(Body(q).parts)
      BY <2>1 DEF ProgressInv, Inserted
    <2>3. QED
      BY <1>12, <2>1, <2>2, ApplyType, UnlockType DEF Commit, CommitUnanswered, TypeOK
  <1>13. ASSUME NEW q \in Requests, Reject(q) \/ Fault(q)
         PROVE  TypeOK'
    BY <1>13, UnlockType DEF Reject, Fault, Rollback, TypeOK
  <1>14. ASSUME NEW q \in Requests, LatestExport(q)
         PROVE  TypeOK'
    <2>1. \A i \in Newest(Rep(q)) : attachments[Rep(q)][i].key \in Requests
      <3>1. attachments[Rep(q)] \in Seq([key : Requests, stamp : Nat])
        BY <1>a DEF TypeOK
      <3>2. \A i \in DOMAIN attachments[Rep(q)] :
               attachments[Rep(q)][i] \in [key : Requests, stamp : Nat]
        BY <3>1, ElementOf
      <3>3. QED
        BY <3>2 DEF Newest
    <2>2. req' \in [Requests -> Request]
      <3>1. req \in [Requests -> Request]
        BY DEF TypeOK
      <3>2. CASE UNCHANGED req
        BY <3>1, <3>2
      <3>3. ASSUME NEW i \in Newest(Rep(q)),
                   req' = [req EXCEPT ![q].key = attachments[Rep(q)][i].key]
            PROVE  req' \in [Requests -> Request]
        BY <3>1, <3>3, <2>1, <1>a, WithKey
      <3>4. QED
        BY <1>14, <3>2, <3>3 DEF LatestExport
    <2>3. QED
      BY <1>14, <2>2 DEF LatestExport, TypeOK
  <1>15. ASSUME NEW q \in Requests, ReadExport(q)
         PROVE  TypeOK'
    <2>1. files[req[q].key] \in {Missing, Partial} \cup Content
      BY <1>a DEF TypeOK
    <2>2. QED
      BY <1>15, <1>a, <2>1, WithGot DEF ReadExport, TypeOK
  <1>16. CASE Crash \/ PowerLoss
    BY <1>16 DEF Crash, PowerLoss, Stop, TypeOK
  <1>17. QED
    BY <1>1, <1>2, <1>3, <1>4, <1>5, <1>6, <1>7, <1>8, <1>9, <1>10, <1>11, <1>12,
       <1>13, <1>14, <1>15, <1>16 DEF Next, Step

-----------------------------------------------------------------------------
(* The actions of one request, Arrive apart, leave the other requests and  *)
(* its own kind and report alone; only AgentSave decides on a body.        *)
Act(q) ==
    \/ LoadRow(q) \/ LoadParts(q) \/ Admit(q) \/ Refuse(q) \/ AgentStop(q)
    \/ \E v \in [Fields -> Values \cup {None}] : AgentSave(q, v)
    \/ Begin(q) \/ WriteRow(q) \/ DeleteParts(q) \/ InsertParts(q) \/ MarkExported(q)
    \/ OpenFile(q) \/ WriteFile(q) \/ InsertAttachment(q) \/ Commit(q) \/ Reject(q)
    \/ CommitUnanswered(q) \/ Fault(q) \/ LatestExport(q) \/ ReadExport(q)

LEMMA NextCases ==
  ASSUME Next
  PROVE  \/ \E q \in Requests : Act(q)
         \/ \E q \in Requests, k \in Kinds, r \in Reports, c \in Content : Arrive(q, k, r, c)
         \/ Crash \/ PowerLoss
  BY DEF Next, Step, Act

LEMMA Frame ==
  ASSUME TypeOK, NEW q \in Requests, Act(q)
  PROVE  /\ \A p \in Requests : p # q => pc'[p] = pc[p] /\ req'[p] = req[p]
         /\ \A p \in Requests : Kind(p)' = Kind(p) /\ Rep(p)' = Rep(p)
         /\ pc[q] # "agentRun" => Body(q)' = Body(q)
  <1> USE DEF Goto, Kind, Rep, Body
  <1>1. /\ req \in [Requests -> Request]
        /\ pc \in [Requests -> {"idle"} \cup Reading \cup InTx \cup Answers]
    BY DEF TypeOK
  <1>2. CASE Admit(q) \/ Refuse(q) \/ AgentStop(q) \/ WriteRow(q) \/ InsertParts(q)
             \/ MarkExported(q) \/ OpenFile(q) \/ WriteFile(q) \/ InsertAttachment(q)
    BY <1>1, <1>2 DEF Admit, Refuse, AgentStop, WriteRow, InsertParts, MarkExported,
         OpenFile, WriteFile, InsertAttachment
  <1>3. CASE Commit(q) \/ CommitUnanswered(q) \/ Reject(q) \/ Fault(q)
    BY <1>1, <1>3 DEF Commit, CommitUnanswered, Reject, Fault, Rollback
  <1>4. CASE LoadRow(q)
    BY <1>1, <1>4 DEF LoadRow, Request
  <1>5. CASE LoadParts(q)
    <2> DEFINE s == [req[q].seen EXCEPT !.content.parts = PartsOf(Rep(q))]
               new == [req[q] EXCEPT !.seen = s]
    <2>1. req' = [req EXCEPT ![q] = new] /\ pc' = [pc EXCEPT ![q] = "admit"]
      BY <1>5 DEF LoadParts
    <2> HIDE DEF s
    <2>2. new.kind = req[q].kind /\ new.rep = req[q].rep /\ new.body = req[q].body
      BY <1>1 DEF Request
    <2> HIDE DEF new
    <2>3. req'[q] = new /\ \A p \in Requests : p # q => pc'[p] = pc[p] /\ req'[p] = req[p]
      BY <1>1, <2>1
    <2>4. QED
      BY <2>2, <2>3
  <1>6. CASE \E v \in [Fields -> Values \cup {None}] : AgentSave(q, v)
    <2>1. PICK c : /\ req' = [req EXCEPT ![q].body = c]
                   /\ Goto(q, "begin") \/ Goto(q, "refused")
                   /\ pc[q] = "agentRun"
      BY <1>6 DEF AgentSave
    <2>2. QED
      BY <1>1, <2>1 DEF Request
  <1>7. CASE Begin(q)
    BY <1>1, <1>7 DEF Begin, Request
  <1>8. CASE DeleteParts(q)
    BY <1>1, <1>8 DEF DeleteParts, Request
  <1>9. CASE LatestExport(q)
    BY <1>1, <1>9 DEF LatestExport, Request
  <1>10. CASE ReadExport(q)
    BY <1>1, <1>10 DEF ReadExport, Request
  <1>11. QED
    BY <1>2, <1>3, <1>4, <1>5, <1>6, <1>7, <1>8, <1>9, <1>10 DEF Act

(* Which requests get where.                                               *)
LEMMA RouteStep == TypeOK /\ RouteInv /\ [Next]_vars => RouteInv'
  <1> SUFFICES ASSUME TypeOK, RouteInv, [Next]_vars PROVE RouteInv'
    OBVIOUS
  <1> USE DEF InTx, Exporting, Goto, Writing
  <1>1. CASE UNCHANGED vars
    BY <1>1 DEF RouteInv, vars, Kind
  <1>2. ASSUME NEW q \in Requests, NEW k \in Kinds, NEW r \in Reports, NEW c \in Content,
               Arrive(q, k, r, c)
        PROVE  RouteInv'
    BY <1>2 DEF Arrive, RouteInv, Kind, TypeOK, NewRequest
  <1>3. ASSUME NEW q \in Requests, Act(q)
        PROVE  RouteInv'
    <2>1. \A p \in Requests : Kind(p)' = Kind(p) /\ (p # q => pc'[p] = pc[p])
      BY <1>3, Frame
    <2>2. pc'[q] \in {"begin"} \cup InTx => Kind(q) \in Writing \cup {"agent"}
      BY <1>3 DEF Act, RouteInv, TypeOK, LoadRow, LoadParts, Admit, Refuse, AgentStop, AgentSave, Begin,
           WriteRow, DeleteParts, InsertParts, MarkExported, OpenFile, WriteFile,
           InsertAttachment, Commit, CommitUnanswered, Reject, Fault, Rollback,
           LatestExport, ReadExport
    <2>3. pc'[q] \in Exporting => Kind(q) = "export"
      BY <1>3 DEF Act, RouteInv, TypeOK, LoadRow, LoadParts, Admit, Refuse, AgentStop, AgentSave, Begin,
           WriteRow, DeleteParts, InsertParts, MarkExported, OpenFile, WriteFile,
           InsertAttachment, Commit, CommitUnanswered, Reject, Fault, Rollback,
           LatestExport, ReadExport
    <2>4. /\ pc'[q] \in {"latest", "readFile"} => Kind(q) = "fetch"
          /\ pc'[q] = "agentRun" => Kind(q) = "agent"
      BY <1>3 DEF Act, RouteInv, TypeOK, LoadRow, LoadParts, Admit, Refuse, AgentStop, AgentSave, Begin,
           WriteRow, DeleteParts, InsertParts, MarkExported, OpenFile, WriteFile,
           InsertAttachment, Commit, CommitUnanswered, Reject, Fault, Rollback,
           LatestExport, ReadExport
    <2>5. QED
      BY <2>1, <2>2, <2>3, <2>4 DEF RouteInv
  <1>4. CASE Crash \/ PowerLoss
    BY <1>4 DEF Crash, PowerLoss, Stop, RouteInv, Kind, Reading
  <1>5. QED
    BY <1>1, <1>2, <1>3, <1>4, NextCases

(* The row lock is held by the one transaction that is past its write.     *)
LEMMA LockStep == TypeOK /\ LockInv /\ [Next]_vars => LockInv'
  <1> SUFFICES ASSUME TypeOK, LockInv, [Next]_vars PROVE LockInv'
    OBVIOUS
  <1> USE DEF Goto
  <1>0. /\ lock \in [Reports -> Requests \cup {Nobody}]
        /\ pc \in [Requests -> {"idle"} \cup Reading \cup InTx \cup Answers]
        /\ \A q \in Requests : Rep(q) \in Reports
    BY DEF TypeOK, Rep, Request
  <1>1. CASE UNCHANGED vars
    BY <1>1 DEF LockInv, vars, Rep
  <1>2. ASSUME NEW q \in Requests, NEW k \in Kinds, NEW r \in Reports, NEW c \in Content,
               Arrive(q, k, r, c)
        PROVE  LockInv'
    <2>1. pc[q] \notin Locked /\ pc'[q] \notin Locked
      BY <1>0, <1>2 DEF Arrive, Locked, InTx
    <2>2. \A p \in Requests : p # q => pc'[p] = pc[p] /\ Rep(p)' = Rep(p)
      BY <1>0, <1>2 DEF Arrive, Rep, TypeOK
    <2>3. lock' = lock
      BY <1>2 DEF Arrive
    <2>4. QED
      BY <1>0, <2>1, <2>2, <2>3 DEF LockInv
  <1>3. ASSUME NEW q \in Requests, Act(q)
        PROVE  LockInv'
    <2>1. \A p \in Requests : Rep(p)' = Rep(p) /\ (p # q => pc'[p] = pc[p])
      BY <1>3, Frame
    <2>2. CASE WriteRow(q)
      <3>1. /\ pc[q] \notin Locked /\ pc'[q] \in Locked
            /\ lock[Rep(q)] = Nobody /\ lock' = [lock EXCEPT ![Rep(q)] = q]
        BY <1>0, <2>2 DEF WriteRow, Locked, InTx
      <3>2. \A p \in Requests : pc'[p] \in Locked => lock'[Rep(p)] = p
        BY <1>0, <2>1, <3>1, NobodyAssumption DEF LockInv
      <3>3. \A r \in Reports : lock'[r] # Nobody =>
               Rep(lock'[r]) = r /\ pc'[lock'[r]] \in Locked
        BY <1>0, <2>1, <3>1, NobodyAssumption DEF LockInv
      <3>4. QED
        BY <1>0, <2>1, <3>1, <3>2, <3>3, NobodyAssumption DEF LockInv
    <2>3. CASE Commit(q) \/ CommitUnanswered(q) \/ Reject(q) \/ Fault(q)
      <3>1. pc'[q] \notin Locked /\ lock' = [r \in Reports |-> IF lock[r] = q THEN Nobody ELSE lock[r]]
        BY <1>0, <2>3 DEF Commit, CommitUnanswered, Reject, Fault, Rollback, Unlock, Locked, InTx
      <3>2. QED
        BY <1>0, <2>1, <3>1, NobodyAssumption DEF LockInv
    <2>4. CASE lock' = lock /\ (pc'[q] \in Locked <=> pc[q] \in Locked)
      BY <1>0, <2>1, <2>4 DEF LockInv
    <2>5. \/ WriteRow(q) \/ Commit(q) \/ CommitUnanswered(q) \/ Reject(q) \/ Fault(q)
          \/ lock' = lock /\ (pc'[q] \in Locked <=> pc[q] \in Locked)
      BY <1>0, <1>3 DEF Act, LoadRow, LoadParts, Admit, Refuse, AgentStop, AgentSave, Begin,
           DeleteParts, InsertParts, MarkExported, OpenFile, WriteFile, InsertAttachment,
           LatestExport, ReadExport, Locked, InTx
    <2>6. QED
      BY <2>2, <2>3, <2>4, <2>5
  <1>4. CASE Crash \/ PowerLoss
    <2>1. /\ \A q \in Requests : pc'[q] \notin Locked
          /\ \A r \in Reports : lock'[r] = Nobody
      BY <1>0, <1>4 DEF Crash, PowerLoss, Stop, Locked, InTx, Reading, Answers
    <2>2. QED
      BY <1>0, <2>1 DEF LockInv
  <1>5. QED
    BY <1>1, <1>2, <1>3, <1>4, NextCases

(* Only a commit changes the tables.                                       *)
LEMMA TablesFrame ==
  ASSUME TypeOK, NEW q \in Requests, Act(q)
  PROVE  UNCHANGED tables \/ (pc[q] = "commit" /\ Apply(q) /\ pc'[q] \in {"ok", "failed"})
  <1>1. pc \in [Requests -> {"idle"} \cup Reading \cup InTx \cup Answers]
    BY DEF TypeOK
  <1>2. QED
    BY <1>1 DEF Act, Commit, CommitUnanswered, Goto, LoadRow, LoadParts, Admit, Refuse, AgentStop, AgentSave, Begin,
           WriteRow, DeleteParts, InsertParts, MarkExported, OpenFile, WriteFile,
           InsertAttachment, Reject, Fault, Rollback, LatestExport, ReadExport

(* A transaction that is past its DELETE got there by one of six steps.    *)
LEMMA PastDelete ==
  ASSUME TypeOK, NEW q \in Requests, Act(q), pc'[q] \in Inserted \cup {"insertParts"}
  PROVE  \/ DeleteParts(q) /\ pc'[q] = "insertParts"
         \/ InsertParts(q) \/ MarkExported(q) \/ OpenFile(q) \/ WriteFile(q)
         \/ InsertAttachment(q)
  <1>1. pc \in [Requests -> {"idle"} \cup Reading \cup InTx \cup Answers]
    BY DEF TypeOK
  <1>2. QED
    BY <1>1 DEF Act, Commit, CommitUnanswered, Goto, Inserted, LoadRow, LoadParts, Admit, Refuse, AgentStop, AgentSave, Begin,
           WriteRow, DeleteParts, InsertParts, MarkExported, OpenFile, WriteFile,
           InsertAttachment, Reject, Fault, Rollback, LatestExport, ReadExport

(* Under the lock, what a transaction has established stays established.   *)
LEMMA ProgressStep ==
  TypeOK /\ LockInv /\ RouteInv /\ ProgressInv /\ [Next]_vars => ProgressInv'
  <1> SUFFICES ASSUME TypeOK, LockInv, RouteInv, ProgressInv, [Next]_vars PROVE ProgressInv'
    OBVIOUS
  <1> USE DEF Goto
  <1>0. /\ pc \in [Requests -> {"idle"} \cup Reading \cup InTx \cup Answers]
        /\ req \in [Requests -> Request]
        /\ partsUsed \in [Reports -> SUBSET PartRecord]
        /\ \A q \in Requests : Rep(q) \in Reports
    BY DEF TypeOK, Rep, Request
  <1>1. CASE UNCHANGED vars
    BY <1>1 DEF ProgressInv, vars, Rep, Body, Kind
  <1>2. ASSUME NEW q \in Requests, NEW k \in Kinds, NEW r \in Reports, NEW c \in Content,
               Arrive(q, k, r, c)
        PROVE  ProgressInv'
    <2>1. pc'[q] \notin Inserted \cup {"insertParts", "openFile", "writeFile", "attach", "commit"}
      BY <1>0, <1>2 DEF Arrive, Inserted
    <2>2. \A p \in Requests : p # q => pc'[p] = pc[p] /\ req'[p] = req[p]
      BY <1>0, <1>2 DEF Arrive
    <2>3. partsUsed' = partsUsed
      BY <1>2 DEF Arrive
    <2>4. QED
      BY <1>0, <2>1, <2>2, <2>3 DEF ProgressInv, Rep, Body, Kind
  <1>3. ASSUME NEW q \in Requests, Act(q)
        PROVE  ProgressInv'
    <2>1. \A p \in Requests : /\ Kind(p)' = Kind(p) /\ Rep(p)' = Rep(p)
                              /\ p # q => pc'[p] = pc[p] /\ req'[p] = req[p]
      BY <1>3, Frame
    <2>2. ASSUME NEW p \in Requests, p # q, pc'[p] \in Inserted \cup {"insertParts"}
          PROVE  req'[p].doomed = partsUsed'[Rep(p)]
      <3>0. pc'[p] = pc[p] /\ req'[p] = req[p]
        BY <2>1, <2>2
      <3>1. pc[p] \in Inserted \cup {"insertParts"}
        BY <2>2, <3>0 DEF Inserted
      <3>a. req[p].doomed = partsUsed[Rep(p)]
        BY <3>1 DEF ProgressInv
      <3>b. lock[Rep(p)] = p
        BY <3>1 DEF LockInv, Inserted, Locked, InTx
      <3>2. CASE UNCHANGED tables
        <4>1. partsUsed' = partsUsed
          BY <3>2
        <4>2. QED
          BY <3>0, <3>a, <4>1
      <3>3. CASE pc[q] = "commit" /\ Apply(q)
        <4>1. lock[Rep(q)] = q
          BY <3>3 DEF LockInv, Locked, InTx
        <4>2. Rep(q) # Rep(p)
          BY <2>2, <3>b, <4>1
        <4>3. partsUsed'[Rep(p)] = partsUsed[Rep(p)]
          BY <1>0, <3>3, <4>2 DEF Apply
        <4>4. QED
          BY <3>0, <3>a, <4>3
      <3>4. QED
        BY <1>3, <3>2, <3>3, TablesFrame
    <2>3. ASSUME pc'[q] \in Inserted \cup {"insertParts"}
          PROVE  /\ req'[q].doomed = partsUsed'[Rep(q)]
                 /\ pc'[q] \in Inserted => Storable(Body(q)'.parts)
                 /\ pc'[q] \in {"openFile", "writeFile", "attach"} => ValidateContent(Body(q)', TRUE)
                 /\ pc'[q] = "commit" /\ Kind(q) = "export" => ValidateContent(Body(q)', TRUE)
      <3>1. CASE DeleteParts(q) /\ pc'[q] = "insertParts"
        BY <1>0, <3>1 DEF DeleteParts, Inserted, Request
      <3>2. CASE InsertParts(q)
        BY <1>0, <3>2 DEF InsertParts, ProgressInv, Inserted, Body, Kind
      <3>3. CASE MarkExported(q)
        BY <1>0, <3>3 DEF MarkExported, ProgressInv, Inserted, Body
      <3>4. CASE OpenFile(q) \/ WriteFile(q) \/ InsertAttachment(q)
        BY <1>0, <3>4 DEF OpenFile, WriteFile, InsertAttachment, ProgressInv, Inserted, Body
      <3>5. QED
        BY <1>3, <2>3, <3>1, <3>2, <3>3, <3>4, PastDelete
    <2>4. ASSUME NEW p \in Requests, p # q
          PROVE  /\ pc'[p] \in Inserted => Storable(Body(p)'.parts)
                 /\ pc'[p] \in {"openFile", "writeFile", "attach"} => ValidateContent(Body(p)', TRUE)
                 /\ pc'[p] = "commit" /\ Kind(p) = "export" => ValidateContent(Body(p)', TRUE)
      <3>1. pc'[p] = pc[p] /\ Body(p)' = Body(p)
        BY <2>1, <2>4 DEF Body
      <3>2. QED
        BY <3>1 DEF ProgressInv, Inserted
    <2>5. QED
      <3>1. ASSUME NEW p \in Requests
            PROVE  /\ pc'[p] \in Inserted \cup {"insertParts"} => req'[p].doomed = partsUsed'[Rep(p)]
                   /\ pc'[p] \in Inserted => Storable(Body(p)'.parts)
                   /\ pc'[p] \in {"openFile", "writeFile", "attach"} => ValidateContent(Body(p)', TRUE)
                   /\ pc'[p] = "commit" /\ Kind(p) = "export" => ValidateContent(Body(p)', TRUE)
        <4>1. CASE p = q
          BY <2>3, <4>1 DEF Inserted
        <4>2. CASE p # q
          BY <2>2, <2>4, <4>2
        <4>3. QED
          BY <4>1, <4>2
      <3>2. QED
        BY <2>1, <3>1 DEF ProgressInv
  <1>4. CASE Crash \/ PowerLoss
    <2>1. \A q \in Requests : pc'[q] \notin Inserted \cup {"insertParts", "openFile", "writeFile", "attach", "commit"}
      BY <1>0, <1>4 DEF Crash, PowerLoss, Stop, Inserted, InTx, Reading, Answers
    <2>2. QED
      BY <2>1 DEF ProgressInv
  <1>5. QED
    BY <1>1, <1>2, <1>3, <1>4, NextCases

LEMMA OnlyCommits ==
  ASSUME TypeOK, [Next]_vars
  PROVE  \/ UNCHANGED tables
         \/ \E q \in Requests : /\ Act(q) /\ pc[q] = "commit" /\ Apply(q)
                               /\ pc'[q] \in {"ok", "failed"}
  <1>1. CASE UNCHANGED vars
    BY <1>1 DEF vars
  <1>2. CASE \E q \in Requests : Act(q)
    BY <1>2, TablesFrame
  <1>3. CASE \E q \in Requests, k \in Kinds, r \in Reports, c \in Content : Arrive(q, k, r, c)
    BY <1>3 DEF Arrive
  <1>4. CASE Crash \/ PowerLoss
    BY <1>4 DEF Crash, PowerLoss, Stop
  <1>5. QED
    BY <1>1, <1>2, <1>3, <1>4, NextCases

(* A commit replaces the parts rows by those of its body: it deleted every *)
(* row there was, under the lock.                                          *)
LEMMA ApplyEffect ==
  ASSUME TypeOK, ProgressInv, NEW q \in Requests, pc[q] = "commit", Apply(q)
  PROVE  /\ Rep(q) \in Reports
         /\ \A r \in Reports : r # Rep(q) =>
               row'[r] = row[r] /\ partsUsed'[r] = partsUsed[r] /\ attachments'[r] = attachments[r]
         /\ row'[Rep(q)].content = Body(q)
         /\ row'[Rep(q)].status = IF Kind(q) = "export" THEN "exported"
                                  ELSE IF Kind(q) = "create" THEN "draft" ELSE row[Rep(q)].status
         /\ partsUsed'[Rep(q)] = {[by |-> q, part |-> AsNumeric[p]] : p \in Body(q).parts}
         /\ attachments'[Rep(q)] =
               IF Kind(q) = "export"
                  THEN Append(attachments[Rep(q)], [key |-> q, stamp |-> req[q].stamp])
                  ELSE attachments[Rep(q)]
  <1>1. Rep(q) \in Reports
    BY DEF TypeOK, Request, Rep
  <1>2. req[q].doomed = partsUsed[Rep(q)]
    BY DEF ProgressInv, Inserted
  <1>3. /\ row \in [Reports -> Record] /\ partsUsed \in [Reports -> SUBSET PartRecord]
        /\ attachments \in [Reports -> Seq([key : Requests, stamp : Nat])]
    BY DEF TypeOK
  <1>4. /\ \A r \in Reports : r # Rep(q) => row'[r] = row[r]
        /\ row'[Rep(q)].content = Body(q)
        /\ row'[Rep(q)].status = IF Kind(q) = "export" THEN "exported"
                                 ELSE IF Kind(q) = "create" THEN "draft" ELSE row[Rep(q)].status
    BY <1>1, <1>3 DEF Apply
  <1>5. /\ \A r \in Reports : r # Rep(q) => partsUsed'[r] = partsUsed[r]
        /\ partsUsed'[Rep(q)] = {[by |-> q, part |-> AsNumeric[p]] : p \in Body(q).parts}
    BY <1>1, <1>2, <1>3 DEF Apply
  <1>6. /\ \A r \in Reports : r # Rep(q) => attachments'[r] = attachments[r]
        /\ attachments'[Rep(q)] =
              IF Kind(q) = "export"
                 THEN Append(attachments[Rep(q)], [key |-> q, stamp |-> req[q].stamp])
                 ELSE attachments[Rep(q)]
    BY <1>1, <1>3 DEF Apply
  <1>7. QED
    BY <1>1, <1>4, <1>5, <1>6

(* The parts among the rows of one request are the parts it inserted.      *)
LEMMA PartsInserted ==
  ASSUME NEW q, NEW S
  PROVE  {x.part : x \in {[by |-> q, part |-> AsNumeric[p]] : p \in S}} = {AsNumeric[p] : p \in S}
  <1> DEFINE R == {[by |-> q, part |-> AsNumeric[p]] : p \in S}
  <1>1. ASSUME NEW y \in {x.part : x \in R} PROVE y \in {AsNumeric[p] : p \in S}
    <2>1. PICK x \in R : y = x.part
      OBVIOUS
    <2>2. QED
      BY <2>1
  <1>2. ASSUME NEW p \in S PROVE AsNumeric[p] \in {x.part : x \in R}
    <2>1. [by |-> q, part |-> AsNumeric[p]] \in R
      OBVIOUS
    <2>2. [by |-> q, part |-> AsNumeric[p]].part = AsNumeric[p]
      OBVIOUS
    <2> HIDE DEF R
    <2>3. QED
      BY <2>1, <2>2
  <1> HIDE DEF R
  <1>3. {x.part : x \in R} = {AsNumeric[p] : p \in S}
    BY <1>1, <1>2
  <1>4. QED
    BY <1>3 DEF R

(* A stored row came from a body whose quantities the column took.         *)
LEMMA RowStep == TypeOK /\ ProgressInv /\ RowInv /\ [Next]_vars => RowInv'
  <1> SUFFICES ASSUME TypeOK, ProgressInv, RowInv, [Next]_vars PROVE RowInv'
    OBVIOUS
  <1>1. CASE UNCHANGED tables
    BY <1>1 DEF RowInv, PartsOf
  <1>2. ASSUME NEW q \in Requests, pc[q] = "commit", Apply(q)
        PROVE  RowInv'
    <2>1. ASSUME NEW r \in Reports, r # Rep(q)
          PROVE  /\ Storable(row'[r].content.parts)
                 /\ PartsOf(r)' = {AsNumeric[p] : p \in row'[r].content.parts}
      <3>1. row'[r] = row[r] /\ PartsOf(r)' = PartsOf(r)
        BY <1>2, <2>1, ApplyEffect DEF PartsOf
      <3>2. QED
        BY <3>1 DEF RowInv
    <2>2. ASSUME NEW r \in Reports, r = Rep(q)
          PROVE  /\ Storable(row'[r].content.parts)
                 /\ PartsOf(r)' = {AsNumeric[p] : p \in row'[r].content.parts}
      <3>1. Storable(Body(q).parts)
        BY <1>2 DEF ProgressInv, Inserted
      <3>2. row'[r].content = Body(q)
        BY <1>2, <2>2, ApplyEffect
      <3>3. partsUsed'[r] = {[by |-> q, part |-> AsNumeric[p]] : p \in Body(q).parts}
        BY <1>2, <2>2, ApplyEffect
      <3>4. {x.part : x \in partsUsed'[r]} = {AsNumeric[p] : p \in Body(q).parts}
        <4>1. {x.part : x \in {[by |-> q, part |-> AsNumeric[p]] : p \in Body(q).parts}}
                 = {AsNumeric[p] : p \in Body(q).parts}
          BY PartsInserted
        <4>2. QED
          BY <3>3, <4>1, Zenon
      <3>5. QED
        BY <3>1, <3>2, <3>4 DEF PartsOf
    <2>3. QED
      BY <2>1, <2>2 DEF RowInv
  <1>3. QED
    BY <1>1, <1>2, OnlyCommits

(* A report becomes exported in the step that adds a document to it, and   *)
(* no document is ever taken away.                                         *)
LEMMA ExportStep == TypeOK /\ ProgressInv /\ ExportInv /\ [Next]_vars => ExportInv'
  <1> SUFFICES ASSUME TypeOK, ProgressInv, ExportInv, [Next]_vars,
                      NEW r \in Reports, row'[r].status = "exported"
               PROVE  attachments'[r] # << >>
    BY DEF ExportInv
  <1>1. CASE UNCHANGED tables
    BY <1>1 DEF ExportInv
  <1>2. ASSUME NEW q \in Requests, pc[q] = "commit", Apply(q)
        PROVE  attachments'[r] # << >>
    <2>1. CASE r # Rep(q)
      BY <1>2, <2>1, ApplyEffect DEF ExportInv
    <2>2. CASE r = Rep(q) /\ Kind(q) = "export"
      <3>1. attachments[r] \in Seq([key : Requests, stamp : Nat])
        BY DEF TypeOK
      <3>2. attachments'[r] = Append(attachments[r], [key |-> q, stamp |-> req[q].stamp])
        BY <1>2, <2>2, ApplyEffect
      <3>3. [key |-> q, stamp |-> req[q].stamp] \in [key : Requests, stamp : Nat]
        BY DEF TypeOK, Request
      <3>4. QED
        BY <3>1, <3>2, <3>3
    <2>3. CASE r = Rep(q) /\ Kind(q) # "export"
      <3>1. row'[r].status = (IF Kind(q) = "create" THEN "draft" ELSE row[r].status)
        BY <1>2, <2>3, ApplyEffect
      <3>2. row[r].status = "exported" /\ attachments'[r] = attachments[r]
        BY <1>2, <2>3, <3>1, ApplyEffect
      <3>3. QED
        BY <3>2 DEF ExportInv
    <2>4. QED
      BY <2>1, <2>2, <2>3
  <1>3. QED
    BY <1>1, <1>2, OnlyCommits

(* A report is created once, and is there for everyone else at work on it. *)
LEMMA PresentStep ==
  TypeOK /\ ProgressInv /\ RouteInv /\ PresentInv /\ [Next]_vars => PresentInv'
  <1> SUFFICES ASSUME TypeOK, ProgressInv, RouteInv, PresentInv, [Next]_vars PROVE PresentInv'
    OBVIOUS
  <1> DEFINE Working == InTx \cup Reading
             Ok(p) == /\ Kind(p) # "create" /\ pc[p] \in InTx \cup (Reading \ {"loadRow"})
                            => row[Rep(p)].status # "absent"
                      /\ Kind(p) = "create" /\ pc[p] \in InTx \cup Reading
                            => row[Rep(p)].status = "absent"
  <1>0. /\ pc \in [Requests -> {"idle"} \cup Reading \cup InTx \cup Answers]
        /\ req \in [Requests -> Request]
        /\ \A q \in Requests : Rep(q) \in Reports
    BY DEF TypeOK, Rep, Request
  <1>1. CASE UNCHANGED vars
    BY <1>1 DEF PresentInv, vars, Rep, Kind
  <1>2. ASSUME NEW q \in Requests, NEW k \in Kinds, NEW r \in Reports, NEW c \in Content,
               Arrive(q, k, r, c)
        PROVE  PresentInv'
    <2>1. /\ req'[q].kind = k /\ req'[q].rep = r
          /\ pc'[q] = IF k = "create" THEN "admit" ELSE "loadRow"
          /\ \A p \in Requests : p # q => pc'[p] = pc[p] /\ req'[p] = req[p]
          /\ row' = row
      BY <1>0, <1>2 DEF Arrive, Goto, NewRequest
    <2>2. k = "create" => /\ row[r].status = "absent"
                          /\ \A p \in Requests : Kind(p) = "create" => Rep(p) # r
      BY <1>2 DEF Arrive
    <2>3. \A p \in Requests : Ok(p)'
      BY <2>1, <2>2 DEF PresentInv, Kind, Rep, InTx, Reading
    <2>4. \A p, s \in Requests :
             Kind(s)' = "create" /\ Kind(p)' = "create" /\ Rep(s)' = Rep(p)' => s = p
      BY <2>1, <2>2 DEF PresentInv, Kind, Rep
    <2>5. QED
      BY <2>3, <2>4 DEF PresentInv
  <1>3. ASSUME NEW q \in Requests, Act(q)
        PROVE  PresentInv'
    <2>1. \A p \in Requests : /\ Kind(p)' = Kind(p) /\ Rep(p)' = Rep(p)
                              /\ p # q => pc'[p] = pc[p]
      BY <1>3, Frame
    <2>2. CASE UNCHANGED tables
      <3>1. pc'[q] \in Working => pc[q] \in Working
        BY <1>0, <1>3 DEF Act, Commit, CommitUnanswered, Goto, InTx, Reading, Answers,
             LoadRow, LoadParts, Admit, Refuse, AgentStop, AgentSave, Begin,
           WriteRow, DeleteParts, InsertParts, MarkExported, OpenFile, WriteFile,
           InsertAttachment, Reject, Fault, Rollback, LatestExport, ReadExport
      <3>2. pc'[q] \in Working /\ pc[q] = "loadRow" => row[Rep(q)].status # "absent"
        BY <1>0, <1>3 DEF Act, Commit, CommitUnanswered, Goto, InTx, Reading, Answers,
             LoadRow, LoadParts, Admit, Refuse, AgentStop, AgentSave, Begin,
           WriteRow, DeleteParts, InsertParts, MarkExported, OpenFile, WriteFile,
           InsertAttachment, Reject, Fault, Rollback, LatestExport, ReadExport
      <3>3. pc'[q] # "loadRow"
        BY <1>0, <1>3 DEF Act, Commit, CommitUnanswered, Goto, InTx, Reading, Answers,
             LoadRow, LoadParts, Admit, Refuse, AgentStop, AgentSave, Begin,
           WriteRow, DeleteParts, InsertParts, MarkExported, OpenFile, WriteFile,
           InsertAttachment, Reject, Fault, Rollback, LatestExport, ReadExport
      <3>4. row' = row
        BY <2>2
      <3>5. \A p \in Requests : Ok(p)'
        BY <2>1, <3>1, <3>2, <3>3, <3>4 DEF PresentInv
      <3>6. QED
        BY <2>1, <3>5 DEF PresentInv
    <2>3. CASE pc[q] = "commit" /\ Apply(q) /\ pc'[q] \in {"ok", "failed"}
      <3>1. \A r \in Reports : r # Rep(q) => row'[r] = row[r]
        BY <2>3, ApplyEffect
      <3>2. row'[Rep(q)].status # "absent"
        BY <2>3, ApplyEffect DEF PresentInv, InTx
      <3>3. ASSUME NEW p \in Requests, p # q, Rep(p) = Rep(q), Kind(p) = "create"
            PROVE  pc[p] \notin Working
        BY <2>3, <3>3 DEF PresentInv, InTx, Reading
      <3>4. pc'[q] \notin Working
        BY <2>3 DEF InTx, Reading
      <3>5. \A p \in Requests : Ok(p)'
        BY <1>0, <2>1, <3>1, <3>2, <3>3, <3>4 DEF PresentInv
      <3>6. QED
        BY <2>1, <3>5 DEF PresentInv
    <2>4. QED
      BY <1>3, <2>2, <2>3, TablesFrame
  <1>4. CASE Crash \/ PowerLoss
    <2>1. /\ \A p \in Requests : pc'[p] \notin Working
          /\ req' = req
      BY <1>0, <1>4 DEF Crash, PowerLoss, Stop, InTx, Reading, Answers
    <2>2. QED
      BY <2>1 DEF PresentInv, Kind, Rep
  <1>5. QED
    BY <1>1, <1>2, <1>3, <1>4, NextCases

-----------------------------------------------------------------------------
(* Once a document is on record nobody touches its file or its request     *)
(* again, unless the host loses what was not flushed.                      *)
LEMMA DocumentsKept ==
  ASSUME ~ PowerFails, TypeOK, FileInv, [Next]_vars,
         NEW r \in Reports, NEW i \in DOMAIN attachments[r],
         NEW k \in Requests, k = attachments[r][i].key
  PROVE  files'[k] = files[k] /\ pc'[k] = pc[k] /\ req'[k] = req[k]
  <1>0. /\ pc \in [Requests -> {"idle"} \cup Reading \cup InTx \cup Answers]
        /\ req \in [Requests -> Request]
        /\ files \in [Requests -> {Missing, Partial} \cup Content]
    BY DEF TypeOK
  <1>1. pc[k] \in {"ok", "failed"}
    BY DEF FileInv
  <1>2. CASE UNCHANGED vars
    BY <1>2 DEF vars
  <1>3. ASSUME NEW q \in Requests, Act(q)
        PROVE  files'[k] = files[k] /\ pc'[k] = pc[k] /\ req'[k] = req[k]
    <2>1. q # k
      BY <1>1, <1>3 DEF Act, InTx, Commit, CommitUnanswered, Goto, LoadRow, LoadParts, Admit, Refuse, AgentStop, AgentSave, Begin,
           WriteRow, DeleteParts, InsertParts, MarkExported, OpenFile, WriteFile,
           InsertAttachment, Reject, Fault, Rollback, LatestExport, ReadExport
    <2>2. pc'[k] = pc[k] /\ req'[k] = req[k]
      BY <1>3, <2>1, Frame
    <2>3. files'[k] = files[k]
      BY <1>0, <1>3, <2>1 DEF Act, Commit, CommitUnanswered, Goto, LoadRow, LoadParts, Admit, Refuse, AgentStop, AgentSave, Begin,
           WriteRow, DeleteParts, InsertParts, MarkExported, OpenFile, WriteFile,
           InsertAttachment, Reject, Fault, Rollback, LatestExport, ReadExport
    <2>4. QED
      BY <2>2, <2>3
  <1>4. ASSUME NEW q \in Requests, NEW b \in Kinds, NEW s \in Reports, NEW c \in Content,
               Arrive(q, b, s, c)
        PROVE  files'[k] = files[k] /\ pc'[k] = pc[k] /\ req'[k] = req[k]
    BY <1>0, <1>1, <1>4 DEF Arrive, Goto
  <1>5. CASE Crash \/ PowerLoss
    BY <1>0, <1>1, <1>5 DEF Crash, PowerLoss, Stop, InTx, Reading
  <1>6. QED
    BY <1>2, <1>3, <1>4, <1>5, NextCases

(* What a transaction that is past its file knows of it.                   *)
WrittenInv ==
    \A p \in Requests :
        /\ pc[p] = "attach" => files[p] = Body(p)
        /\ pc[p] = "commit" /\ Kind(p) = "export" => files[p] = Body(p)

LEMMA WrittenStep == TypeOK /\ WrittenInv /\ [Next]_vars => WrittenInv'
  <1> DEFINE Written(p) == /\ pc[p] = "attach" => files[p] = Body(p)
                           /\ pc[p] = "commit" /\ Kind(p) = "export" => files[p] = Body(p)
  <1> SUFFICES ASSUME TypeOK, WrittenInv, [Next]_vars, NEW p \in Requests PROVE Written(p)'
    BY DEF WrittenInv
  <1>0. /\ pc \in [Requests -> {"idle"} \cup Reading \cup InTx \cup Answers]
        /\ req \in [Requests -> Request]
        /\ files \in [Requests -> {Missing, Partial} \cup Content]
    BY DEF TypeOK
  <1>1. CASE UNCHANGED vars
    BY <1>1 DEF WrittenInv, vars, Kind, Body
  <1>2. ASSUME NEW q \in Requests, Act(q)
        PROVE  Written(p)'
    <2>1. CASE p # q
      <3>1. pc'[p] = pc[p] /\ req'[p] = req[p]
        BY <1>2, <2>1, Frame
      <3>2. files'[p] = files[p]
        BY <1>0, <1>2, <2>1 DEF Act, Commit, CommitUnanswered, Goto, LoadRow, LoadParts, Admit, Refuse, AgentStop, AgentSave, Begin,
         WriteRow, DeleteParts, InsertParts, MarkExported, OpenFile, WriteFile,
         InsertAttachment, Reject, Fault, Rollback, LatestExport, ReadExport
      <3>3. QED
        BY <3>1, <3>2 DEF WrittenInv, Kind, Body
    <2>2. CASE p = q /\ pc'[q] \in {"attach", "commit"}
      <3>1. InsertParts(q) \/ WriteFile(q) \/ InsertAttachment(q)
        BY <1>0, <1>2, <2>2, PastDelete DEF InsertParts, MarkExported, OpenFile, WriteFile,
           InsertAttachment, Goto, Inserted
      <3>2. CASE InsertParts(q)
        BY <1>0, <2>2, <3>2 DEF InsertParts, Goto, Kind
      <3>3. CASE WriteFile(q)
        BY <1>0, <2>2, <3>3 DEF WriteFile, Goto, Body
      <3>4. CASE InsertAttachment(q)
        BY <1>0, <2>2, <3>4 DEF InsertAttachment, Goto, Body, Kind, WrittenInv
      <3>5. QED
        BY <3>1, <3>2, <3>3, <3>4
    <2>3. QED
      BY <2>1, <2>2
  <1>3. ASSUME NEW q \in Requests, NEW b \in Kinds, NEW s \in Reports, NEW c \in Content,
               Arrive(q, b, s, c)
        PROVE  Written(p)'
    <2>1. pc'[q] \notin {"attach", "commit"}
      BY <1>0, <1>3 DEF Arrive, Goto
    <2>2. p # q => pc'[p] = pc[p] /\ req'[p] = req[p] /\ files'[p] = files[p]
      BY <1>0, <1>3 DEF Arrive, Goto
    <2>3. QED
      BY <2>1, <2>2 DEF WrittenInv, Kind, Body
  <1>4. CASE Crash \/ PowerLoss
    <2>1. pc'[p] \notin {"attach", "commit"}
      BY <1>0, <1>4 DEF Crash, PowerLoss, Stop, InTx, Reading, Answers
    <2>2. QED
      BY <2>1
  <1>5. QED
    BY <1>1, <1>2, <1>3, <1>4, NextCases

(* A file is written before the attachment that names it.                  *)
LEMMA FileStep ==
  ~ PowerFails /\ TypeOK /\ RouteInv /\ ProgressInv /\ FileInv /\ [Next]_vars => FileInv'
  <1> SUFFICES ASSUME ~ PowerFails, TypeOK, RouteInv, ProgressInv, FileInv, [Next]_vars
               PROVE  FileInv'
    OBVIOUS
  <1> DEFINE Whole(r, k) == /\ pc[k] \in {"ok", "failed"} /\ Kind(k) = "export" /\ Rep(k) = r
                            /\ files[k] = Body(k) /\ Complete(Body(k))
  <1>0. /\ pc \in [Requests -> {"idle"} \cup Reading \cup InTx \cup Answers]
        /\ req \in [Requests -> Request]
        /\ files \in [Requests -> {Missing, Partial} \cup Content]
    BY DEF TypeOK
  <1>1. ASSUME NEW r \in Reports, NEW i \in DOMAIN attachments[r], NEW k, k = attachments[r][i].key
        PROVE  Whole(r, k)'
    <2>1. k \in Requests
      <3>1. attachments[r] \in Seq([key : Requests, stamp : Nat])
        BY DEF TypeOK
      <3>2. attachments[r][i] \in [key : Requests, stamp : Nat]
        BY <3>1, ElementOf
      <3>3. QED
        BY <1>1, <3>2
    <2>2. files'[k] = files[k] /\ pc'[k] = pc[k] /\ req'[k] = req[k]
      BY <1>1, <2>1, DocumentsKept
    <2>3. QED
      BY <1>1, <2>1, <2>2 DEF FileInv, Kind, Rep, Body
  <1>2. WrittenInv'
    BY WrittenStep DEF WrittenInv, FileInv
  <1>3. ASSUME NEW r \in Reports, NEW i \in DOMAIN attachments'[r],
               NEW k, k = attachments'[r][i].key
        PROVE  Whole(r, k)'
    <2>1. CASE attachments'[r] = attachments[r]
      BY <1>1, <1>3, <2>1
    <2>2. ASSUME NEW q \in Requests, Act(q), pc[q] = "commit", Apply(q), pc'[q] \in {"ok", "failed"},
                 Rep(q) = r, Kind(q) = "export"
          PROVE  Whole(r, k)'
      <3> DEFINE e == [key |-> q, stamp |-> req[q].stamp]
      <3>1. attachments'[r] = Append(attachments[r], e)
        BY <2>2, ApplyEffect
      <3>2. attachments[r] \in Seq([key : Requests, stamp : Nat])
        BY DEF TypeOK
      <3>3. e \in [key : Requests, stamp : Nat]
        BY DEF TypeOK, Request
      <3>4. i \in DOMAIN attachments[r] \/ attachments'[r][i] = e
        BY <1>3, <3>1, <3>2, <3>3
      <3>5. CASE i \in DOMAIN attachments[r]
        <4>1. attachments'[r][i] = attachments[r][i]
          BY <3>1, <3>2, <3>3, <3>5
        <4>2. QED
          BY <1>1, <1>3, <3>5, <4>1
      <3>6. CASE attachments'[r][i] = e
        <4>1. k = q
          BY <1>3, <3>6
        <4>2. files[q] = Body(q) /\ Complete(Body(q))
          BY <2>2 DEF FileInv, ProgressInv, Inserted, Complete
        <4>3. files' = files /\ Body(q)' = Body(q) /\ Kind(q)' = Kind(q) /\ Rep(q)' = Rep(q)
          <5>1. Body(q)' = Body(q) /\ Kind(q)' = Kind(q) /\ Rep(q)' = Rep(q)
            BY <2>2, Frame
          <5>2. files' = files
            BY <2>2 DEF Act, Commit, CommitUnanswered, Goto, LoadRow, LoadParts, Admit, Refuse, AgentStop, AgentSave, Begin,
           WriteRow, DeleteParts, InsertParts, MarkExported, OpenFile, WriteFile,
           InsertAttachment, Reject, Fault, Rollback, LatestExport, ReadExport
          <5>3. QED
            BY <5>1, <5>2
        <4>4. QED
          BY <2>2, <4>1, <4>2, <4>3
      <3>7. QED
        BY <3>4, <3>5, <3>6
    <2>3. attachments'[r] = attachments[r]
             \/ \E q \in Requests : /\ Act(q) /\ pc[q] = "commit" /\ Apply(q)
                                    /\ pc'[q] \in {"ok", "failed"}
                                    /\ Rep(q) = r /\ Kind(q) = "export"
      <3>1. CASE UNCHANGED tables
        BY <3>1
      <3>2. ASSUME NEW q \in Requests, Act(q), pc[q] = "commit", Apply(q), pc'[q] \in {"ok", "failed"}
            PROVE  attachments'[r] = attachments[r] \/ (Rep(q) = r /\ Kind(q) = "export")
        BY <3>2, ApplyEffect
      <3>3. QED
        BY <3>1, <3>2, OnlyCommits
    <2>4. QED
      BY <2>1, <2>2, <2>3
  <1>4. QED
    BY <1>2, <1>3 DEF FileInv, WrittenInv

-----------------------------------------------------------------------------
(* The invariant of the tables holds whatever stops when.                  *)
LEMMA TableInvInit == Init => TableInv
  <1> SUFFICES ASSUME Init PROVE TableInv
    OBVIOUS
  <1>1. TypeOK
    BY TypeInit
  <1>2. \A q \in Requests : pc[q] = "idle" /\ Kind(q) = "get"
    BY DEF Init, Kind, NewRequest
  <1>3. RouteInv /\ LockInv /\ ProgressInv
    BY <1>2 DEF Init, RouteInv, LockInv, ProgressInv, Exporting, InTx, Locked, Inserted
  <1>4. RowInv
    <2>1. ASSUME NEW r \in Reports
          PROVE  row[r].content.parts = {} /\ partsUsed[r] = {} /\ row[r].status # "exported"
      BY DEF Init, EmptyContent
    <2>2. QED
      BY <2>1 DEF RowInv, Storable, PartsOf
  <1>5. ExportInv
    BY DEF Init, ExportInv
  <1>6. PresentInv
    BY <1>2 DEF PresentInv, InTx, Reading
  <1>7. QED
    BY <1>1, <1>3, <1>4, <1>5, <1>6 DEF TableInv

LEMMA TableInvStep == TableInv /\ [Next]_vars => TableInv'
  BY TypeStep, RouteStep, LockStep, ProgressStep, RowStep, ExportStep, PresentStep DEF TableInv

LEMMA TableInvariant == Spec => []TableInv
  BY TableInvInit, TableInvStep, PTL DEF Spec

LEMMA DocumentInvariant ==
  ASSUME ~ PowerFails
  PROVE  Spec => []IInv
  <1>1. Init => IInv
    <2>1. Init => FileInv
      BY DEF Init, FileInv
    <2>2. QED
      BY <2>1, TableInvInit DEF IInv
  <1>2. IInv /\ [Next]_vars => IInv'
    BY TableInvStep, FileStep DEF IInv, TableInv
  <1>3. QED
    BY <1>1, <1>2, PTL DEF Spec

-----------------------------------------------------------------------------
(* Every variable of the store keeps its type (rows, parts, attachments,   *)
(* files and the requests at work on them).                                *)
THEOREM TypeCorrect == Spec => []TypeOK
  <1>1. TableInv => TypeOK
    BY DEF TableInv
  <1>2. QED
    BY <1>1, TableInvariant, PTL

(* However many requests rewrite a report at once, and wherever they or    *)
(* the host stop, the parts_used rows are those of the content jsonb.      *)
LEMMA RowInvParts == TypeOK /\ RowInv => PartsInStep
  <1> SUFFICES ASSUME TypeOK, RowInv, NEW r \in Reports
               PROVE  StoredContent(r) = Readable(row[r].content)
    BY DEF PartsInStep
  <1> DEFINE S == {AsNumeric[p] : p \in row[r].content.parts}
  <1>1. PartsOf(r) = S
    BY DEF RowInv
  <1>2. Unstorable \notin S
    BY DEF RowInv, Storable
  <1>3. S = S \ {Unstorable}
    BY <1>2
  <1>4. QED
    BY <1>1, <1>3 DEF StoredContent, Readable

THEOREM PartsStayInStep == Spec => []PartsInStep
  <1>1. TableInv => PartsInStep
    BY RowInvParts DEF TableInv
  <1>2. QED
    BY <1>1, TableInvariant, PTL

(* As long as the host does not lose what was not flushed, an exported     *)
(* report has a document, and every document on record is a whole file     *)
(* showing a complete report.                                              *)
LEMMA IInvArtifact == IInv => ExportedHasArtifact
  <1> SUFFICES ASSUME IInv, NEW r \in Reports
               PROVE  /\ row[r].status = "exported" => attachments[r] # << >>
                      /\ \A i \in DOMAIN attachments[r] :
                           /\ files[attachments[r][i].key] \in Content
                           /\ Complete(files[attachments[r][i].key])
    BY DEF ExportedHasArtifact
  <1>1. row[r].status = "exported" => attachments[r] # << >>
    BY DEF IInv, TableInv, ExportInv
  <1>2. ASSUME NEW i \in DOMAIN attachments[r]
        PROVE  /\ files[attachments[r][i].key] \in Content
               /\ Complete(files[attachments[r][i].key])
    <2> DEFINE k == attachments[r][i].key
    <2>1. attachments[r] \in Seq([key : Requests, stamp : Nat])
      BY DEF IInv, TableInv, TypeOK
    <2>2. attachments[r][i] \in [key : Requests, stamp : Nat]
      BY <2>1, ElementOf
    <2>3. k \in Requests
      BY <2>2
    <2>4. files[k] = Body(k) /\ Complete(Body(k))
      BY DEF IInv, FileInv
    <2>5. Body(k) \in Content
      BY <2>3 DEF IInv, TableInv, TypeOK, Request, Body
    <2>6. QED
      BY <2>4, <2>5
  <1>3. QED
    BY <1>1, <1>2

THEOREM ExportsHaveArtifacts ==
  ASSUME ~ PowerFails
  PROVE  Spec => []ExportedHasArtifact
  BY DocumentInvariant, IInvArtifact, PTL

-----------------------------------------------------------------------------
(* The steps of an export, and what a client was told.                     *)

LEMMA WrittenHolds == Spec => [](TableInv /\ WrittenInv)
  <1>1. Init => WrittenInv
    BY DEF Init, WrittenInv
  <1>2. TableInv /\ WrittenInv /\ [Next]_vars => WrittenInv'
    BY WrittenStep DEF TableInv
  <1>3. QED
    BY <1>1, <1>2, TableInvInit, TableInvStep, PTL DEF Spec

(* Attachments are added at the end, one at a time, by a commit.           *)
LEMMA AttachmentsGrow ==
  ASSUME TypeOK, ProgressInv, [Next]_vars, NEW r \in Reports
  PROVE  \/ attachments'[r] = attachments[r]
         \/ \E q \in Requests :
              /\ Act(q) /\ pc[q] = "commit" /\ Apply(q) /\ pc'[q] \in {"ok", "failed"}
              /\ Rep(q) = r /\ Kind(q) = "export"
              /\ attachments'[r] = Append(attachments[r], [key |-> q, stamp |-> req[q].stamp])
  <1>1. CASE UNCHANGED tables
    BY <1>1
  <1>2. ASSUME NEW q \in Requests, Act(q), pc[q] = "commit", Apply(q), pc'[q] \in {"ok", "failed"}
        PROVE  \/ attachments'[r] = attachments[r]
               \/ /\ Rep(q) = r /\ Kind(q) = "export"
                  /\ attachments'[r] = Append(attachments[r], [key |-> q, stamp |-> req[q].stamp])
    BY <1>2, ApplyEffect
  <1>3. QED
    BY <1>1, <1>2, OnlyCommits

LEMMA CommitKeepsFiles ==
  ASSUME NEW q \in Requests, Act(q), pc[q] = "commit"
  PROVE  files' = files
  BY DEF Act, Commit, CommitUnanswered, Goto, LoadRow, LoadParts, Admit, Refuse, AgentStop, AgentSave, Begin,
         WriteRow, DeleteParts, InsertParts, MarkExported, OpenFile, WriteFile,
         InsertAttachment, Reject, Fault, Rollback, LatestExport, ReadExport

(* A sequence with an element more.                                        *)
LEMMA Appended ==
  ASSUME NEW V, NEW f \in Seq(V), NEW v \in V, NEW g, g = Append(f, v)
  PROVE  /\ g # << >> /\ Len(g) = Len(f) + 1 /\ g[Len(g)] = v /\ Len(g) \in DOMAIN g
         /\ \A i \in DOMAIN f : i \in DOMAIN g /\ g[i] = f[i]
         /\ \A i \in DOMAIN g : i \in DOMAIN f \/ (i = Len(f) + 1 /\ g[i] = v)
         /\ SubSeq(g, 1, Len(f)) = f
  <1>1. /\ g # << >> /\ Len(g) = Len(f) + 1 /\ g[Len(g)] = v /\ Len(g) \in DOMAIN g
        /\ \A i \in DOMAIN f : i \in DOMAIN g /\ g[i] = f[i]
        /\ \A i \in DOMAIN g : i \in DOMAIN f \/ (i = Len(f) + 1 /\ g[i] = v)
    OBVIOUS
  <1>2. SubSeq(g, 1, Len(f)) = f
    BY AppendProperties, SubSeqProperties
  <1>3. QED
    BY <1>1, <1>2

(* However requests race, fail and are cut off, the content, the status    *)
(* and the document of an export appear in one step and stay.              *)
THEOREM ExportsAreOneStep == Spec => ExportIsOneStep
  <1> DEFINE OneStep(r) ==
        /\ row[r].status = "exported" => row'[r].status = "exported"
        /\ row[r].status # row'[r].status /\ row'[r].status = "exported"
              => Len(attachments'[r]) = Len(attachments[r]) + 1
        /\ attachments'[r] # attachments[r] =>
              /\ row'[r].status = "exported"
              /\ attachments'[r] # << >> /\ SubSeq(attachments'[r], 1, Len(attachments[r])) = attachments[r]
              /\ files'[attachments'[r][Len(attachments'[r])].key] = row'[r].content
  <1>1. ASSUME TableInv, WrittenInv, [Next]_vars, NEW r \in Reports PROVE OneStep(r)
    <2>0. TypeOK /\ ProgressInv /\ PresentInv
      BY <1>1 DEF TableInv
    <2>1. CASE UNCHANGED tables
      BY <2>1
    <2>2. ASSUME NEW q \in Requests, Act(q), pc[q] = "commit", Apply(q) PROVE OneStep(r)
      <3>1. CASE r # Rep(q)
        BY <2>0, <2>2, <3>1, ApplyEffect
      <3>2. CASE r = Rep(q) /\ Kind(q) # "export"
        <4>1. Kind(q) = "create" => row[r].status = "absent"
          BY <2>0, <2>2, <3>2 DEF PresentInv, InTx
        <4>2. /\ row'[r].status = IF Kind(q) = "create" THEN "draft" ELSE row[r].status
              /\ attachments'[r] = attachments[r]
          BY <2>0, <2>2, <3>2, ApplyEffect
        <4>3. QED
          BY <4>1, <4>2
      <3>3. CASE r = Rep(q) /\ Kind(q) = "export"
        <4> DEFINE V == [key : Requests, stamp : Nat]
                   e == [key |-> q, stamp |-> req[q].stamp]
        <4>1. /\ row'[r].status = "exported" /\ row'[r].content = Body(q)
              /\ attachments'[r] = Append(attachments[r], e)
          BY <2>0, <2>2, <3>3, ApplyEffect
        <4>2. attachments[r] \in Seq(V) /\ e \in V /\ e.key = q
          BY <2>0 DEF TypeOK, Request
        <4> HIDE DEF V, e
        <4>3. /\ attachments'[r] # << >> /\ Len(attachments'[r]) = Len(attachments[r]) + 1
              /\ attachments'[r][Len(attachments'[r])] = e
              /\ SubSeq(attachments'[r], 1, Len(attachments[r])) = attachments[r]
          BY <4>1, <4>2, Appended
        <4>4. files'[q] = Body(q)
          BY <1>1, <2>2, <3>3, CommitKeepsFiles DEF WrittenInv
        <4>5. QED
          BY <4>1, <4>2, <4>3, <4>4
      <3>4. QED
        BY <3>1, <3>2, <3>3
    <2>3. QED
      BY <1>1, <2>0, <2>1, <2>2, OnlyCommits
  <1>2. TableInv /\ WrittenInv /\ [Next]_vars => [\A r \in Reports : OneStep(r)]_vars
    BY <1>1
  <1>3. QED
    BY <1>2, WrittenHolds, PTL DEF Spec, ExportIsOneStep

Named(r, k) == \E i \in DOMAIN attachments[r] : attachments[r][i].key = k

(* No document is on record twice; an export that was answered is; what a  *)
(* fetch has looked up is, and what it answered with is that document.     *)
ToldInv ==
    /\ \A r \in Reports : \A i, j \in DOMAIN attachments[r] :
          attachments[r][i].key = attachments[r][j].key => i = j
    /\ \A q \in Requests :
          /\ pc[q] = "ok" /\ Kind(q) = "export" => Named(Rep(q), q)
          /\ pc[q] = "readFile" => Named(Rep(q), req[q].key)
          /\ pc[q] = "ok" /\ Kind(q) = "fetch" =>
                req[q].got \in Content /\ Complete(req[q].got) /\ Named(Rep(q), req[q].key)

LEMMA NamedStays ==
  ASSUME TypeOK, ProgressInv, [Next]_vars, NEW r \in Reports, NEW k, Named(r, k)
  PROVE  Named(r, k)'
  <1> DEFINE V == [key : Requests, stamp : Nat]
  <1>1. PICK i \in DOMAIN attachments[r] : attachments[r][i].key = k
    BY DEF Named
  <1>2. attachments[r] \in Seq(V)
    BY DEF TypeOK
  <1>3. ASSUME NEW q \in Requests,
               attachments'[r] = Append(attachments[r], [key |-> q, stamp |-> req[q].stamp])
        PROVE  i \in DOMAIN attachments'[r] /\ attachments'[r][i] = attachments[r][i]
    <2>1. [key |-> q, stamp |-> req[q].stamp] \in V
      BY DEF TypeOK, Request
    <2> HIDE DEF V
    <2>2. QED
      BY <1>2, <1>3, <2>1, Appended
  <1>4. QED
    BY <1>1, <1>3, AttachmentsGrow DEF Named

LEMMA KeysStep ==
  ASSUME IInv, ToldInv, [Next]_vars, NEW r \in Reports,
         NEW i \in DOMAIN attachments'[r], NEW j \in DOMAIN attachments'[r],
         attachments'[r][i].key = attachments'[r][j].key
  PROVE  i = j
  <1> DEFINE V == [key : Requests, stamp : Nat]
  <1>1. TypeOK /\ ProgressInv /\ attachments[r] \in Seq(V)
    BY DEF IInv, TableInv, TypeOK
  <1>2. ASSUME NEW q \in Requests, pc[q] = "commit",
               attachments'[r] = Append(attachments[r], [key |-> q, stamp |-> req[q].stamp])
        PROVE  i = j
    <2> DEFINE e == [key |-> q, stamp |-> req[q].stamp]
    <2>1. e \in V /\ e.key = q
      BY <1>1 DEF TypeOK, Request
    <2>2. \A n \in DOMAIN attachments[r] : attachments[r][n].key # q
      BY <1>2 DEF IInv, FileInv
    <2> HIDE DEF V, e
    <2>3. /\ \A n \in DOMAIN attachments[r] : attachments'[r][n] = attachments[r][n]
          /\ \A n \in DOMAIN attachments'[r] :
                n \in DOMAIN attachments[r] \/ (n = Len(attachments[r]) + 1 /\ attachments'[r][n] = e)
      <3>1. attachments'[r] = Append(attachments[r], e)
        BY <1>2 DEF e
      <3>2. QED
        BY <1>1, <2>1, <3>1, Appended
    <2>4. QED
      BY <2>1, <2>2, <2>3 DEF ToldInv
  <1>3. QED
    BY <1>1, <1>2, AttachmentsGrow DEF ToldInv

(* How a request comes to be answered, and a fetch to read its file.       *)
LEMMA AnsweredBy ==
  ASSUME TypeOK, NEW q \in Requests, Act(q)
  PROVE  /\ pc'[q] = "ok" => (Admit(q) /\ Kind(q) = "get") \/ Commit(q)
                              \/ (ReadExport(q) /\ files[req[q].key] # Missing)
         /\ pc'[q] = "readFile" => LatestExport(q)
  <1>1. pc \in [Requests -> {"idle"} \cup Reading \cup InTx \cup Answers]
    BY DEF TypeOK
  <1>2. QED
    BY <1>1 DEF Act, Commit, CommitUnanswered, Goto, LoadRow, LoadParts, Admit, Refuse, AgentStop, AgentSave, Begin,
         WriteRow, DeleteParts, InsertParts, MarkExported, OpenFile, WriteFile,
         InsertAttachment, Reject, Fault, Rollback, LatestExport, ReadExport

(* What is on record for a report is whole and complete.                   *)
LEMMA NamedIsWhole ==
  ASSUME IInv, NEW r \in Reports, NEW k, Named(r, k)
  PROVE  k \in Requests /\ files[k] \in Content /\ Complete(files[k])
  <1>1. PICK i \in DOMAIN attachments[r] : attachments[r][i].key = k
    BY DEF Named
  <1>2. attachments[r] \in Seq([key : Requests, stamp : Nat])
    BY DEF IInv, TableInv, TypeOK
  <1>3. attachments[r][i] \in [key : Requests, stamp : Nat]
    BY <1>2, ElementOf
  <1>4. files[k] \in Content /\ Complete(files[k])
    BY <1>1, IInvArtifact DEF ExportedHasArtifact
  <1>5. QED
    BY <1>1, <1>3, <1>4

LEMMA ToldStep == ~ PowerFails /\ IInv /\ ToldInv /\ [Next]_vars => ToldInv'
  <1> SUFFICES ASSUME ~ PowerFails, IInv, ToldInv, [Next]_vars PROVE ToldInv'
    OBVIOUS
  <1> DEFINE Told(q) ==
          /\ pc[q] = "ok" /\ Kind(q) = "export" => Named(Rep(q), q)
          /\ pc[q] = "readFile" => Named(Rep(q), req[q].key)
          /\ pc[q] = "ok" /\ Kind(q) = "fetch" =>
                req[q].got \in Content /\ Complete(req[q].got) /\ Named(Rep(q), req[q].key)
  <1>0. /\ TypeOK /\ ProgressInv /\ RouteInv
        /\ pc \in [Requests -> {"idle"} \cup Reading \cup InTx \cup Answers]
        /\ req \in [Requests -> Request]
        /\ \A q \in Requests : Rep(q) \in Reports /\ Told(q)
    BY DEF IInv, TableInv, TypeOK, ToldInv, Request, Rep
  <1>1. \A r \in Reports : \A k : Named(r, k) => Named(r, k)'
    BY <1>0, NamedStays
  <1>2. ASSUME NEW q \in Requests, pc'[q] = pc[q], req'[q] = req[q]
        PROVE  Told(q)'
    BY <1>0, <1>1, <1>2 DEF Kind, Rep
  <1>3. ASSUME NEW q \in Requests, Act(q)
        PROVE  Told(q)'
    <2>1. Kind(q)' = Kind(q) /\ Rep(q)' = Rep(q) /\ Rep(q) \in Reports
      BY <1>0, <1>3, Frame
    <2>2. CASE Admit(q) /\ Kind(q) = "get"
      BY <1>0, <2>1, <2>2 DEF Admit, Goto
    <2>3. CASE Commit(q)
      <3>1. pc[q] = "commit" /\ Apply(q) /\ pc'[q] = "ok"
        BY <1>0, <2>3 DEF Commit, Goto
      <3>2. Kind(q) # "fetch"
        BY <1>0, <3>1 DEF RouteInv, InTx, Writing
      <3>3. ASSUME Kind(q) = "export" PROVE Named(Rep(q), q)'
        <4> DEFINE V == [key : Requests, stamp : Nat]
                   e == [key |-> q, stamp |-> req[q].stamp]
        <4>1. attachments[Rep(q)] \in Seq(V) /\ e \in V /\ e.key = q
          BY <1>0, <2>1 DEF TypeOK, Request
        <4>2. attachments'[Rep(q)] = Append(attachments[Rep(q)], e)
          BY <1>0, <3>1, <3>3, ApplyEffect
        <4> HIDE DEF V, e
        <4>3. PICK n : n \in DOMAIN attachments'[Rep(q)] /\ attachments'[Rep(q)][n] = e
          BY <4>1, <4>2, Appended
        <4>4. QED
          BY <2>1, <4>1, <4>3 DEF Named
      <3>4. QED
        BY <2>1, <3>1, <3>2, <3>3
    <2>4. CASE ReadExport(q) /\ files[req[q].key] # Missing
      <3>1. /\ pc[q] = "readFile" /\ pc'[q] = "ok" /\ UNCHANGED <<tables, files>>
            /\ req'[q].got = files[req[q].key] /\ req'[q].key = req[q].key
        BY <1>0, <2>4 DEF ReadExport, Goto, Request
      <3>2. Named(Rep(q), req[q].key) /\ Kind(q) = "fetch"
        BY <1>0, <3>1 DEF RouteInv
      <3>3. files[req[q].key] \in Content /\ Complete(files[req[q].key])
        BY <2>1, <3>2, NamedIsWhole
      <3>4. Named(Rep(q), req[q].key)'
        BY <1>1, <2>1, <3>1, <3>2
      <3>5. QED
        BY <2>1, <3>1, <3>2, <3>3, <3>4
    <2>5. CASE LatestExport(q) /\ pc'[q] = "readFile"
      <3>1. PICK i \in Newest(Rep(q)) : req' = [req EXCEPT ![q].key = attachments[Rep(q)][i].key]
        BY <1>0, <2>5 DEF LatestExport, Goto
      <3>2. UNCHANGED tables /\ i \in DOMAIN attachments[Rep(q)]
        BY <2>5, <3>1 DEF LatestExport, Newest
      <3>3. req'[q].key = attachments[Rep(q)][i].key
        BY <1>0, <3>1 DEF Request
      <3>4. QED
        BY <2>1, <2>5, <3>2, <3>3 DEF Named
    <2>6. CASE pc'[q] \notin {"ok", "readFile"}
      BY <2>6
    <2>7. QED
      BY <1>0, <1>3, <2>2, <2>3, <2>4, <2>5, <2>6, AnsweredBy
  <1>4. ASSUME NEW q \in Requests PROVE Told(q)'
    <2>1. CASE UNCHANGED vars
      BY <1>2, <2>1 DEF vars
    <2>2. ASSUME NEW p \in Requests, Act(p) PROVE Told(q)'
      <3>1. p # q => pc'[q] = pc[q] /\ req'[q] = req[q]
        BY <1>0, <2>2, Frame
      <3>2. QED
        BY <1>2, <1>3, <2>2, <3>1
    <2>3. ASSUME NEW p \in Requests, NEW b \in Kinds, NEW s \in Reports, NEW c \in Content,
                 Arrive(p, b, s, c)
          PROVE  Told(q)'
      <3>1. pc'[p] \notin {"ok", "readFile"}
        BY <1>0, <2>3 DEF Arrive, Goto
      <3>2. p # q => pc'[q] = pc[q] /\ req'[q] = req[q]
        BY <1>0, <2>3 DEF Arrive, Goto
      <3>3. CASE p = q
        BY <3>1, <3>3
      <3>4. QED
        BY <1>2, <3>2, <3>3
    <2>4. CASE Crash \/ PowerLoss
      <3>1. req' = req /\ (pc'[q] = pc[q] \/ pc'[q] = "lost")
        BY <1>0, <2>4 DEF Crash, PowerLoss, Stop
      <3>2. QED
        BY <1>2, <3>1
    <2>5. QED
      BY <2>1, <2>2, <2>3, <2>4, NextCases
  <1>5. \A r \in Reports : \A i, j \in DOMAIN attachments'[r] :
          attachments'[r][i].key = attachments'[r][j].key => i = j
    BY KeysStep
  <1>6. QED
    BY <1>4, <1>5 DEF ToldInv

LEMMA ToldHolds ==
  ASSUME ~ PowerFails
  PROVE  Spec => [](IInv /\ ToldInv)
  <1>1. Init => ToldInv
    BY DEF Init, ToldInv
  <1>2. IInv /\ ToldInv /\ [Next]_vars => ToldInv'
    BY ToldStep
  <1>3. QED
    BY <1>1, <1>2, DocumentInvariant, PTL DEF Spec

(* Whatever a crash cut off or a lost reply hid, an export a client was    *)
(* told of is on record, once and with what was sent, and one that was     *)
(* refused or cut off is not.                                              *)
THEOREM AnswersHold ==
  ASSUME ~ PowerFails
  PROVE  Spec => []AnswersAreTrue
  <1>1. ASSUME IInv, ToldInv PROVE AnswersAreTrue
    <2> SUFFICES ASSUME NEW q \in Requests, NEW r \in Reports,
                        NEW mine, mine = {i \in DOMAIN attachments[r] : attachments[r][i].key = q}
                 PROVE  /\ mine # {} => /\ Kind(q) = "export" /\ Rep(q) = r /\ Cardinality(mine) = 1
                                        /\ pc[q] \in {"ok", "failed"}
                        /\ pc[q] = "ok" /\ Kind(q) = "export" /\ Rep(q) = r =>
                              mine # {} /\ files[q] = Body(q)
      BY DEF AnswersAreTrue
    <2>1. ASSUME NEW i \in mine
          PROVE  /\ Kind(q) = "export" /\ Rep(q) = r /\ pc[q] \in {"ok", "failed"}
                 /\ files[q] = Body(q) /\ mine = {i}
      <3>1. i \in DOMAIN attachments[r] /\ attachments[r][i].key = q
        BY <2>1
      <3>2. mine = {i}
        BY <1>1, <3>1 DEF ToldInv
      <3>3. QED
        BY <1>1, <3>1, <3>2 DEF IInv, FileInv
    <2>2. ASSUME NEW i \in mine PROVE Cardinality(mine) = 1
      BY <2>1, <2>2, FS_Singleton
    <2>3. pc[q] = "ok" /\ Kind(q) = "export" /\ Rep(q) = r => mine # {}
      BY <1>1 DEF ToldInv, Named
    <2>4. QED
      BY <2>1, <2>2, <2>3
  <1>2. QED
    BY <1>1, ToldHolds, PTL

(* A fetch answers with a whole and complete document of its own report,   *)
(* from an export that committed, whatever is written beside it.           *)
THEOREM FetchesServeExports ==
  ASSUME ~ PowerFails
  PROVE  Spec => []FetchServesAnExport
  <1>1. ToldInv => FetchServesAnExport
    BY DEF ToldInv, Named, FetchServesAnExport
  <1>2. QED
    BY <1>1, ToldHolds, PTL

-----------------------------------------------------------------------------
(* The tables and files implement the ledger.                              *)

(* The documents of a report, as the ledger lists them.                    *)
Docs(r) == [i \in DOMAIN attachments[r] |-> files[attachments[r][i].key]]

(* What Append yields, element by element.                                 *)
LEMMA AppendPointwise ==
  ASSUME NEW V, NEW f \in Seq(V), NEW v \in V,
         NEW g \in [1..(Len(f) + 1) -> V],
         \A i \in 1..(Len(f) + 1) : g[i] = IF i = Len(f) + 1 THEN v ELSE f[i]
  PROVE  g = Append(f, v)
  <1>1. /\ Append(f, v) \in Seq(V) /\ Len(Append(f, v)) = Len(f) + 1
        /\ \A i \in 1..Len(f) : Append(f, v)[i] = f[i]
        /\ Append(f, v)[Len(f) + 1] = v
    BY AppendProperties
  <1>2. Append(f, v) \in [1..(Len(f) + 1) -> V]
    BY <1>1, LenProperties
  <1>3. ASSUME NEW i \in 1..(Len(f) + 1)
        PROVE  g[i] = Append(f, v)[i]
    <2>1. CASE i = Len(f) + 1
      BY <1>1, <2>1
    <2>2. CASE i # Len(f) + 1
      <3>1. i \in 1..Len(f)
        BY <2>2, LenProperties
      <3>2. QED
        BY <1>1, <2>2, <3>1
    <2>3. QED
      BY <2>1, <2>2
  <1>4. QED
    BY <1>2, <1>3

LEMMA LedgerInit == Init => Ledger!Init
  <1> SUFFICES ASSUME Init PROVE Ledger!Init
    OBVIOUS
  <1>1. ASSUME NEW r \in Reports
        PROVE  StoredContent(r) = EmptyContent
    <2>1. row[r].content = EmptyContent
      BY DEF Init
    <2>2. PartsOf(r) = {}
      BY DEF Init, PartsOf
    <2>3. [EmptyContent EXCEPT !.parts = {}] = EmptyContent
      BY DEF EmptyContent
    <2>4. QED
      BY <2>1, <2>2, <2>3 DEF StoredContent
  <1>2. [r \in Reports |-> StoredContent(r)] \in [Reports -> Content]
    BY <1>1, EmptyContentType
  <1>3. [r \in Reports |-> row[r].status] \in [Reports -> {"absent", "draft"}]
    BY DEF Init
  <1>4. [r \in Reports |-> [i \in DOMAIN attachments[r] |-> files[attachments[r][i].key]]]
           = [r \in Reports |-> << >>]
    BY DEF Init
  <1>5. QED
    BY <1>2, <1>3, <1>4 DEF Ledger!Init

(* A report whose attachments stay as they are keeps its documents.        *)
LEMMA DocsKept ==
  ASSUME ~ PowerFails, TypeOK, FileInv, [Next]_vars,
         NEW r \in Reports, attachments'[r] = attachments[r]
  PROVE  Docs(r)' = Docs(r)
  <1>1. attachments[r] \in Seq([key : Requests, stamp : Nat])
    BY DEF TypeOK
  <1>2. ASSUME NEW i \in DOMAIN attachments[r]
        PROVE  files'[attachments[r][i].key] = files[attachments[r][i].key]
    <2>1. attachments[r][i] \in [key : Requests, stamp : Nat]
      BY <1>1, ElementOf
    <2>2. attachments[r][i].key \in Requests
      BY <2>1
    <2>3. QED
      BY <2>2, DocumentsKept
  <1>3. QED
    BY <1>2 DEF Docs

(* An export adds the document it wrote to those there were.               *)
LEMMA DocsAppended ==
  ASSUME ~ PowerFails, TypeOK, FileInv, [Next]_vars,
         NEW r \in Reports, NEW c \in Content, NEW e \in [key : Requests, stamp : Nat],
         attachments'[r] = Append(attachments[r], e), files'[e.key] = c
  PROVE  Docs(r)' = Append(Docs(r), c)
  <1> DEFINE s == attachments[r]
             V == {Missing, Partial} \cup Content
  <1>1. s \in Seq([key : Requests, stamp : Nat]) /\ files \in [Requests -> V]
    BY DEF TypeOK
  <1>2. ASSUME NEW i \in DOMAIN s
        PROVE  /\ s[i].key \in Requests
               /\ files'[s[i].key] = files[s[i].key]
    <2>1. s[i] \in [key : Requests, stamp : Nat]
      BY <1>1, ElementOf
    <2>2. s[i].key \in Requests
      BY <2>1
    <2>3. QED
      BY <2>2, DocumentsKept
  <1>3. Docs(r) \in [DOMAIN s -> V]
    BY <1>1, <1>2 DEF Docs
  <1>4. DOMAIN Append(s, e) = 1..(Len(s) + 1) /\ DOMAIN s = 1..Len(s) /\ Len(s) \in Nat
    BY <1>1
  <1>5. Append(s, e)[Len(s) + 1] = e /\ \A i \in 1..Len(s) : Append(s, e)[i] = s[i]
    BY <1>1
  <1>6. \A i \in DOMAIN Append(s, e) :
           files'[Append(s, e)[i].key] = IF i = Len(s) + 1 THEN c ELSE Docs(r)[i]
    <2> SUFFICES ASSUME NEW i \in DOMAIN Append(s, e)
                 PROVE  files'[Append(s, e)[i].key] = IF i = Len(s) + 1 THEN c ELSE Docs(r)[i]
      OBVIOUS
    <2>1. CASE i = Len(s) + 1
      BY <2>1, <1>5
    <2>2. CASE i # Len(s) + 1
      <3>1. i \in DOMAIN s
        BY <2>2, <1>4
      <3>2. Append(s, e)[i] = s[i]
        BY <3>1, <1>4, <1>5
      <3>3. Docs(r)[i] = files[s[i].key]
        BY <3>1 DEF Docs
      <3>4. QED
        BY <2>2, <3>1, <3>2, <3>3, <1>2
    <2>3. QED
      BY <2>1, <2>2
  <1>7. Docs(r)' = [i \in DOMAIN Append(s, e) |-> files'[Append(s, e)[i].key]]
    BY DEF Docs
  <1>8. Docs(r)' = [i \in DOMAIN Append(s, e) |-> IF i = Len(s) + 1 THEN c ELSE Docs(r)[i]]
    BY <1>6, <1>7
  <1>9. Docs(r) \in Seq(V) /\ Len(Docs(r)) = Len(s) /\ c \in V
    BY <1>3, <1>4
  <1> HIDE DEF s, V
  <1>10. PICK f \in Seq(V) : f = Docs(r)
    BY <1>9
  <1>11. PICK g : g = Docs(r)'
    OBVIOUS
  <1>12. g = [i \in 1..(Len(f) + 1) |-> IF i = Len(f) + 1 THEN c ELSE f[i]]
    BY <1>4, <1>8, <1>9, <1>10, <1>11
  <1>13. \A i \in 1..(Len(f) + 1) : g[i] = IF i = Len(f) + 1 THEN c ELSE f[i]
    BY <1>12
  <1>14. g \in [1..(Len(f) + 1) -> V]
    <2>1. \A i \in 1..(Len(f) + 1) : i # Len(f) + 1 => f[i] \in V
      BY LenProperties
    <2>2. QED
      BY <1>9, <1>12, <2>1
  <1>15. g = Append(f, c)
    BY <1>9, <1>13, <1>14, AppendPointwise
  <1>16. QED
    BY <1>10, <1>11, <1>15

(* A commit is one step of the ledger.                                     *)
LEMMA CommitMaps ==
  ASSUME ~ PowerFails, TypeOK, FileInv, ProgressInv, PresentInv, PartsInStep', [Next]_vars,
         NEW q \in Requests, pc[q] = "commit", Apply(q), files' = files,
         NEW r \in Reports, r = Rep(q), NEW c \in Content, c = Body(q)
  PROVE  Ledger!Next
  <1>1. \A s \in Reports : s # r => /\ row'[s] = row[s] /\ partsUsed'[s] = partsUsed[s]
                                    /\ attachments'[s] = attachments[s]
    BY ApplyEffect
  <1>2. /\ row'[r].content = c
        /\ row'[r].status = IF Kind(q) = "export" THEN "exported"
                            ELSE IF Kind(q) = "create" THEN "draft" ELSE row[r].status
        /\ attachments'[r] = IF Kind(q) = "export"
                                THEN Append(attachments[r], [key |-> q, stamp |-> req[q].stamp])
                                ELSE attachments[r]
    BY ApplyEffect
  <1>3. \A s \in Reports : s # r => StoredContent(s)' = StoredContent(s)
    BY <1>1 DEF StoredContent, PartsOf
  <1>4. StoredContent(r)' = Readable(c)
    BY <1>2 DEF PartsInStep, Readable
  <1>5. [s \in Reports |-> StoredContent(s)']
           = [[s \in Reports |-> StoredContent(s)] EXCEPT ![r] = Readable(c)]
    BY <1>3, <1>4
  <1>6. \A s \in Reports : s # r => Docs(s)' = Docs(s)
    BY <1>1, DocsKept
  <1>7. \A s \in Reports : s # r => row'[s].status = row[s].status
    BY <1>1
  <1>8. CASE Kind(q) = "export"
    <2>1. row[r].status # "absent"
      BY <1>8 DEF PresentInv, InTx
    <2>2. [s \in Reports |-> row'[s].status]
             = [[s \in Reports |-> row[s].status] EXCEPT ![r] = "exported"]
      BY <1>2, <1>7, <1>8
    <2>3. [key |-> q, stamp |-> req[q].stamp] \in [key : Requests, stamp : Nat]
      BY DEF TypeOK, Request
    <2>4. files'[q] = c /\ Complete(c)
      BY <1>8 DEF FileInv, ProgressInv, Inserted, Complete
    <2>5. Docs(r)' = Append(Docs(r), c)
      BY <1>2, <1>8, <2>3, <2>4, DocsAppended
    <2>6. [s \in Reports |-> Docs(s)']
             = [[s \in Reports |-> Docs(s)] EXCEPT ![r] = Append(@, c)]
      BY <1>6, <2>5
    <2>7. Ledger!Export(r, c)
      BY <1>5, <2>1, <2>2, <2>4, <2>6 DEF Ledger!Export, Docs
    <2>8. QED
      BY <2>7 DEF Ledger!Next
  <1>9. CASE Kind(q) # "export"
    <2>1. Docs(r)' = Docs(r)
      BY <1>2, <1>9, DocsKept
    <2>2. [s \in Reports |-> Docs(s)'] = [s \in Reports |-> Docs(s)]
      BY <1>6, <2>1
    <2>3. CASE Kind(q) = "create"
      <3>1. row[r].status = "absent"
        BY <2>3 DEF PresentInv, InTx
      <3>2. [s \in Reports |-> row'[s].status]
               = [[s \in Reports |-> row[s].status] EXCEPT ![r] = "draft"]
        BY <1>2, <1>7, <2>3
      <3>3. Ledger!Create(r, c)
        BY <1>5, <2>2, <3>1, <3>2 DEF Ledger!Create, Docs
      <3>4. QED
        BY <3>3 DEF Ledger!Next
    <2>4. CASE Kind(q) # "create"
      <3>1. row[r].status # "absent"
        BY <2>4 DEF PresentInv, InTx
      <3>2. [s \in Reports |-> row'[s].status] = [s \in Reports |-> row[s].status]
        BY <1>2, <1>7, <1>9, <2>4
      <3>3. Ledger!Save(r, c)
        BY <1>5, <2>2, <3>1, <3>2 DEF Ledger!Save, Docs
      <3>4. QED
        BY <3>3 DEF Ledger!Next
    <2>5. QED
      BY <2>3, <2>4
  <1>10. QED
    BY <1>8, <1>9

LEMMA LedgerStep ==
  ASSUME ~ PowerFails, IInv, IInv', [Next]_vars
  PROVE  [Ledger!Next]_(Ledger!vars)
  <1>1. TypeOK /\ FileInv /\ ProgressInv /\ PresentInv
    BY DEF IInv, TableInv
  <1>2. TypeOK' /\ RowInv'
    BY DEF IInv, TableInv
  <1>3. PartsInStep'
    <2>1. TypeOK' /\ RowInv' => PartsInStep'
      BY RowInvParts, PTL
    <2>2. QED
      BY <1>2, <2>1
  <1>4. CASE UNCHANGED tables
    <2>1. UNCHANGED <<row, partsUsed, attachments>>
      BY <1>4 DEF tables
    <2>2. \A r \in Reports : Docs(r)' = Docs(r)
      BY <1>1, <2>1, DocsKept
    <2>3. \A r \in Reports : StoredContent(r)' = StoredContent(r)
      BY <2>1 DEF StoredContent, PartsOf
    <2>4. [r \in Reports |-> Docs(r)'] = [r \in Reports |-> Docs(r)]
      BY <2>2
    <2>5. [r \in Reports |-> StoredContent(r)'] = [r \in Reports |-> StoredContent(r)]
      BY <2>3
    <2>6. UNCHANGED Ledger!vars
      BY <2>1, <2>4, <2>5 DEF Ledger!vars, Docs
    <2>7. QED
      BY <2>6
  <1>5. ASSUME NEW q \in Requests, Act(q), pc[q] = "commit", Apply(q), pc'[q] \in {"ok", "failed"}
        PROVE  Ledger!Next
    <2>1. PICK r \in Reports : r = Rep(q)
      BY <1>1 DEF TypeOK, Request, Rep
    <2>2. PICK c \in Content : c = Body(q)
      BY <1>1 DEF TypeOK, Request, Body
    <2>3. files' = files
      BY <1>5 DEF Act, LoadRow, LoadParts, Admit, Refuse, AgentStop, AgentSave, Begin, WriteRow,
           DeleteParts, InsertParts, MarkExported, OpenFile, WriteFile, InsertAttachment,
           Reject, Fault, Rollback, Commit, CommitUnanswered, LatestExport, ReadExport
    <2>4. QED
      BY <1>1, <1>3, <1>5, <2>1, <2>2, <2>3, CommitMaps
  <1>6. QED
    BY <1>1, <1>4, <1>5, OnlyCommits

(* Under every interleaving and crash, the tables and the export directory *)
(* behave as the ledger, in which saving and exporting are indivisible.    *)
THEOREM StoreImplementsLedger ==
  ASSUME ~ PowerFails
  PROVE  Spec => ImplementsLedger
  <1>1. Init => Ledger!Init
    BY LedgerInit
  <1>2. IInv /\ IInv' /\ [Next]_vars => [Ledger!Next]_(Ledger!vars)
    BY LedgerStep
  <1>3. QED
    BY <1>1, <1>2, DocumentInvariant, PTL DEF Spec, ImplementsLedger, Ledger!Spec

-----------------------------------------------------------------------------
(* No row lock is left behind: it is held by one transaction, past its     *)
(* write, and that one waits for nobody (reports/store.go, withTx).        *)
THEOREM LocksAreLetGo == Spec => []LockInv
  <1>1. TableInv => LockInv
    BY DEF TableInv
  <1>2. QED
    BY <1>1, TableInvariant, PTL

LEMMA StepsAre ==
  /\ StepsLeft("idle") = 14 /\ StepsLeft("loadRow") = 13 /\ StepsLeft("loadParts") = 12
  /\ StepsLeft("admit") = 11 /\ StepsLeft("agentRun") = 10 /\ StepsLeft("begin") = 9
  /\ StepsLeft("write") = 8 /\ StepsLeft("deleteParts") = 7 /\ StepsLeft("insertParts") = 6
  /\ StepsLeft("mark") = 5 /\ StepsLeft("openFile") = 4 /\ StepsLeft("writeFile") = 3
  /\ StepsLeft("attach") = 2 /\ StepsLeft("latest") = 2
  /\ StepsLeft("commit") = 1 /\ StepsLeft("readFile") = 1
  /\ StepsLeft("ok") = 0 /\ StepsLeft("refused") = 0 /\ StepsLeft("failed") = 0 /\ StepsLeft("lost") = 0
  BY DEF StepsLeft

LEMMA Forward ==
  ASSUME TypeOK, NEW q \in Requests, Act(q)
  PROVE  StepsLeft(pc'[q]) < StepsLeft(pc[q])
  <1>1. ASSUME NEW l, Goto(q, l) PROVE pc'[q] = l
    BY <1>1 DEF Goto, TypeOK
  <1>2. CASE LoadRow(q) \/ LoadParts(q)
    <2>1. CASE LoadRow(q)
      <3>1. pc[q] = "loadRow" /\ (Goto(q, "refused") \/ Goto(q, "loadParts"))
        BY <2>1 DEF LoadRow
      <3>2. QED
        BY <1>1, <3>1, StepsAre
    <2>2. CASE LoadParts(q)
      <3>1. pc[q] = "loadParts" /\ Goto(q, "admit")
        BY <2>2 DEF LoadParts
      <3>2. QED
        BY <1>1, <3>1, StepsAre
    <2>3. QED
      BY <1>2, <2>1, <2>2
  <1>3. CASE Admit(q) \/ Refuse(q)
    <2>1. /\ pc[q] = "admit"
          /\ \E l \in {"ok", "latest", "begin", "agentRun", "refused"} : Goto(q, l)
      BY <1>3 DEF Admit, Refuse
    <2>2. QED
      BY <1>1, <2>1, StepsAre
  <1>4. CASE AgentStop(q) \/ \E v \in [Fields -> Values \cup {None}] : AgentSave(q, v)
    <2>1. pc[q] = "agentRun" /\ (Goto(q, "failed") \/ Goto(q, "begin") \/ Goto(q, "refused"))
      BY <1>4 DEF AgentStop, AgentSave
    <2>2. QED
      BY <1>1, <2>1, StepsAre
  <1>5. CASE Begin(q) \/ WriteRow(q) \/ DeleteParts(q)
    <2>1. \/ pc[q] = "begin" /\ Goto(q, "write")
          \/ pc[q] = "write" /\ Goto(q, "deleteParts")
          \/ pc[q] = "deleteParts" /\ Goto(q, "insertParts")
      BY <1>5 DEF Begin, WriteRow, DeleteParts
    <2>2. QED
      BY <1>1, <2>1, StepsAre
  <1>6. CASE InsertParts(q) \/ MarkExported(q)
    <2>1. \/ pc[q] = "insertParts" /\ (Goto(q, "mark") \/ Goto(q, "commit"))
          \/ pc[q] = "mark" /\ Goto(q, "openFile")
      BY <1>6 DEF InsertParts, MarkExported
    <2>2. QED
      BY <1>1, <2>1, StepsAre
  <1>7. CASE OpenFile(q) \/ WriteFile(q) \/ InsertAttachment(q)
    <2>1. \/ pc[q] = "openFile" /\ Goto(q, "writeFile")
          \/ pc[q] = "writeFile" /\ Goto(q, "attach")
          \/ pc[q] = "attach" /\ Goto(q, "commit")
      BY <1>7 DEF OpenFile, WriteFile, InsertAttachment
    <2>2. QED
      BY <1>1, <2>1, StepsAre
  <1>8. CASE Commit(q) \/ CommitUnanswered(q)
    <2>1. pc[q] = "commit" /\ (Goto(q, "ok") \/ Goto(q, "failed"))
      BY <1>8 DEF Commit, CommitUnanswered
    <2>2. QED
      BY <1>1, <2>1, StepsAre
  <1>9. CASE Reject(q) \/ Fault(q)
    <2>1. pc[q] \in InTx /\ (Goto(q, "failed") \/ Goto(q, "refused"))
      BY <1>9 DEF Reject, Fault, Rollback, InTx
    <2>2. QED
      BY <1>1, <2>1, StepsAre DEF InTx
  <1>10. CASE LatestExport(q) \/ ReadExport(q)
    <2>1. \/ pc[q] = "latest" /\ (Goto(q, "refused") \/ Goto(q, "readFile"))
          \/ pc[q] = "readFile" /\ (Goto(q, "failed") \/ Goto(q, "ok"))
      BY <1>10 DEF LatestExport, ReadExport
    <2>2. QED
      BY <1>1, <2>1, StepsAre
  <1>11. QED
    BY <1>2, <1>3, <1>4, <1>5, <1>6, <1>7, <1>8, <1>9, <1>10 DEF Act

(* A request leaves fewer steps to come with each it takes, and no other   *)
(* request and no crash gives it one back: what has no answer yet is       *)
(* running, or waits for a row.                                            *)
THEOREM RequestsOnlyGoForward == Spec => RequestsGoForward
  <1>1. ASSUME TypeOK, [Next]_vars
        PROVE  [/\ \A q \in Requests : pc'[q] = pc[q] \/ StepsLeft(pc'[q]) < StepsLeft(pc[q])
                /\ (\E q \in Requests : pc'[q] # pc[q]) \/ PowerFails]_vars
    <2>1. ASSUME NEW q \in Requests, StepsLeft(pc'[q]) < StepsLeft(pc[q]),
                 \A p \in Requests : p # q => pc'[p] = pc[p]
          PROVE  /\ \A p \in Requests : pc'[p] = pc[p] \/ StepsLeft(pc'[p]) < StepsLeft(pc[p])
                 /\ \E p \in Requests : pc'[p] # pc[p]
      <3>1. StepsLeft(pc[q]) \in Nat
        <4>1. pc[q] \in {"idle"} \cup Reading \cup InTx \cup Answers
          BY <1>1 DEF TypeOK
        <4>2. CASE pc[q] \in {"idle"} \cup Reading
          BY <4>2, StepsAre DEF Reading
        <4>3. CASE pc[q] \in InTx \cup Answers
          BY <4>3, StepsAre DEF InTx, Answers
        <4>4. QED
          BY <4>1, <4>2, <4>3
      <3>2. pc'[q] # pc[q]
        BY <2>1, <3>1
      <3>3. QED
        BY <2>1, <3>2
    <2>2. CASE \E q \in Requests : Act(q)
      BY <1>1, <2>1, <2>2, Forward, Frame
    <2>3. CASE \E q \in Requests, k \in Kinds, r \in Reports, c \in Content : Arrive(q, k, r, c)
      <3>1. PICK q \in Requests : pc[q] = "idle" /\ (Goto(q, "admit") \/ Goto(q, "loadRow"))
        BY <2>3 DEF Arrive
      <3>2. StepsLeft(pc'[q]) < StepsLeft(pc[q]) /\ \A p \in Requests : p # q => pc'[p] = pc[p]
        BY <1>1, <3>1, StepsAre DEF Goto, TypeOK
      <3>3. QED
        BY <2>1, <3>2
    <2>4. CASE Crash \/ PowerLoss
      <3>1. \A p \in Requests : pc'[p] = IF pc[p] \in InTx \cup Reading THEN "lost" ELSE pc[p]
        BY <2>4 DEF Crash, PowerLoss, Stop
      <3>2. \A p \in Requests : pc[p] \in InTx \cup Reading => StepsLeft("lost") < StepsLeft(pc[p])
        BY StepsAre DEF InTx, Reading
      <3>3. (\E p \in Requests : pc'[p] # pc[p]) \/ PowerFails
        <4>1. CASE Crash
          <5>1. pc \in [Requests -> {"idle"} \cup Reading \cup InTx \cup Answers]
            BY <1>1 DEF TypeOK
          <5>2. pc' # pc /\ pc' = [p \in Requests |-> IF pc[p] \in InTx \cup Reading THEN "lost" ELSE pc[p]]
            BY <4>1 DEF Crash, Stop
          <5>3. QED
            BY <5>1, <5>2
        <4>2. QED
          BY <2>4, <4>1 DEF PowerLoss
      <3>4. QED
        BY <3>1, <3>2, <3>3
    <2>5. QED
      BY <1>1, <2>2, <2>3, <2>4, NextCases
  <1>2. QED
    BY <1>1, TypeCorrect, PTL DEF Spec, RequestsGoForward
=============================================================================
