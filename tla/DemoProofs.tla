----------------------------- MODULE DemoProofs -----------------------------
(***************************************************************************)
(* The seed script may be started again after a run that stopped anywhere, *)
(* for every plan that keeps the order of main, every number of runs and   *)
(* of resets, and whatever visitors, callbacks, the job, an analyst and an *)
(* administrator do meanwhile.  The argument: each step of the script is a *)
(* step of the ledger, so that its invariant holds; what a look-up found   *)
(* still holds when the script acts on it; and what an instruction left    *)
(* done stays done until the run ends, a reset waiting for that.           *)
(***************************************************************************)
EXTENDS Demo, LedgerProofs

Field == {"runs", "pc", "at", "read", "seen", "todo", "row"}

\* The shape of the run in progress; the expired payment it holds is its own.
ScriptOK ==
  /\ DOMAIN script = Field /\ script.pc \in Nat
  /\ script.row = NoPayment \/ script.row \in Payment \cap Seeded
  /\ loads \in Nat

\* What the rows of the plan are.
LEMMA PlanFacts ==
  ASSUME NEW i \in DOMAIN Plan
  PROVE  /\ i \in Nat /\ i >= 1
         /\ Plan[i].do = "pay" => /\ Plan[i].row \in Payment /\ Plan[i].row \in Seeded
                                  /\ Plan[i].amount \in Amount
         /\ Plan[i].do = "refund" => /\ Plan[i].row \in Refund /\ Plan[i].row \in Seeded
                                     /\ Plan[i].of \in Payment /\ Plan[i].amount \in Amount
         /\ Plan[i].do = "dispute" => Plan[i].row \in Payment
         /\ Plan[i].do = "report" => Plan[i].kind # "LATE_ACKNOWLEDGMENT"
BY DemoAssumption DEF Seeded

LEMMA ExpectedExpired == ToExpire \subseteq Payment \cap Seeded
<1> SUFFICES ASSUME NEW p \in ToExpire PROVE p \in Payment \cap Seeded
  OBVIOUS
<1>1. PICK i \in DOMAIN Plan : Plan[i].do = "pay" /\ p = Plan[i].row
  BY DEF ToExpire
<1> QED
  BY <1>1, PlanFacts

LEMMA SeededRefund ==
  ASSUME NEW r \in Seeded \cap Refund
  PROVE  \E i \in DOMAIN Plan : Plan[i].do = "refund" /\ Plan[i].row = r
<1>1. PICK i \in DOMAIN Plan : Plan[i].do \in {"pay", "refund"} /\ Plan[i].row = r
  BY DEF Seeded
<1>2. Plan[i].do # "pay"
  BY <1>1, PlanFacts, LedgerAssumption
<1> QED
  BY <1>1, <1>2

---------------------------------------------------------------------------
(* Where the script is. *)

\* An instruction is over: the next one begins.
LEMMA Advances ==
  ASSUME DOMAIN script = Field, Advance
  PROVE  /\ DOMAIN script' = Field /\ script'.pc = script.pc + 1 /\ script'.at = "begin"
         /\ script'.row = script.row
BY DEF Advance, Forward, Field

LEMMA Goes ==
  ASSUME DOMAIN script = Field, NEW where, Goto(where)
  PROVE  /\ DOMAIN script' = Field /\ script'.at = where
         /\ \A f \in Field \ {"at"} : script'[f] = script[f]
BY DEF Goto, Field

\* A run begins or ends.
LEMMA Restarts ==
  ASSUME Start \/ Stop \/ Load
  PROVE  /\ DOMAIN script' = Field /\ script'.pc \in {0, 1} /\ script'.at = "begin"
         /\ script'.row = NoPayment
<1>1. \A n : /\ DOMAIN Stopped(n) = Field /\ Stopped(n).pc = 0 /\ Stopped(n).at = "begin"
             /\ Stopped(n).row = NoPayment
  BY DEF Stopped, Field
<1>2. CASE Start
  <2>1. PICK new : new = Stopped(script.runs + 1)
    OBVIOUS
  <2>2. script' = [new EXCEPT !.pc = 1]
    BY <1>2, <2>1 DEF Start
  <2>3. DOMAIN new = Field /\ new.at = "begin" /\ new.row = NoPayment
    BY <1>1, <2>1
  <2> QED
    BY <2>2, <2>3 DEF Field
<1>3. CASE Stop \/ Load
  BY <1>1, <1>3 DEF Stop, Load
<1> QED
  BY <1>2, <1>3

\* The other steps stay at the instruction, or leave it.
Stays == /\ DOMAIN script' = Field /\ script'.pc = script.pc /\ script'.row = script.row
Leaves == /\ DOMAIN script' = Field /\ script'.pc = script.pc + 1 /\ script'.at = "begin"
          /\ script'.row = script.row \/ script'.row \in Payment \cap Seeded
Elsewhere == \/ Outside \/ AnalystResolves \/ Reset
             \/ \E k \in 1..MaxRuns : AdminRevokes(k)
             \/ \E i \in DOMAIN reported : AnalystReads(i)

\* The steps that stay, and where they go.
LEMMA StayingSteps ==
  ASSUME ScriptOK
  PROVE  /\ ListKeys => /\ Stays /\ script'.at = "listed"
                        /\ script'.todo = {k \in DOMAIN keys : keys[k] = "ACTIVE"}
         /\ \A k : RevokeListed(k) => /\ Stays /\ script'.at = "listed"
                                      /\ script'.todo = script.todo \ {k}
         /\ CreateSeeded => script' = script \/ (Stays /\ script'.at = "created")
         /\ PushSeeded => Leaves \/ (Stays /\ script'.at = "pushed")
         /\ Sweep => Stays /\ script'.at = "swept"
         /\ PollBatch => Stays /\ script'.at = "begin"
         /\ InsertSeededRefund => Stays /\ script'.at = "inserting"
         /\ SeededRefundIsThere => Stays /\ script'.at = "there"
         /\ ReadDriven => Stays /\ script'.at = "driven" /\ script'.read = status[Instruction.row]
         /\ DriveToMiddle => Stays /\ script'.at = "driven" /\ script'.read = Ladder[2]
         /\ Look => Leaves \/ (Stays /\ script'.at = "missing")
         /\ LookOpen => Leaves \/ (Stays /\ script'.at \in {"open", "checked"})
<1> USE DEF ScriptOK
<1>1. \A where : Goto(where) => Stays /\ script'.at = where
  BY Goes DEF Stays, Field
<1>2. Advance => Leaves
  BY Advances DEF Leaves
<1>3. ListKeys => /\ Stays /\ script'.at = "listed"
                  /\ script'.todo = {k \in DOMAIN keys : keys[k] = "ACTIVE"}
  BY DEF ListKeys, Stays, Field
<1>4. \A k : RevokeListed(k) => /\ Stays /\ script'.at = "listed" /\ script'.todo = script.todo \ {k}
  BY DEF RevokeListed, Stays, Field, At
<1>5. CreateSeeded => script' = script \/ (Stays /\ script'.at = "created")
  BY DEF CreateSeeded, Stays, Field
<1>6. PushSeeded => Leaves \/ (Stays /\ script'.at = "pushed")
  BY <1>2 DEF PushSeeded, Stays, Field
<1>7. ReadDriven => Stays /\ script'.at = "driven" /\ script'.read = status[Instruction.row]
  BY DEF ReadDriven, Stays, Field
<1>8. DriveToMiddle => Stays /\ script'.at = "driven" /\ script'.read = Ladder[2]
  BY DEF DriveToMiddle, Driven, At, Stays, Field
<1>9. LookOpen => Leaves \/ (Stays /\ script'.at \in {"open", "checked"})
  BY <1>1, <1>2 DEF LookOpen
<1>10. Look => Leaves \/ (Stays /\ script'.at = "missing")
  BY <1>1, <1>2 DEF Look
<1> QED
  BY <1>1, <1>3, <1>4, <1>5, <1>6, <1>7, <1>8, <1>9, <1>10
     DEF Sweep, PollBatch, InsertSeededRefund, SeededRefundIsThere

\* The steps that leave an instruction.
LEMMA LeavingSteps ==
  ASSUME ScriptOK,
         \/ CreateKey \/ ReplaySeeded \/ ConfirmSeeded \/ FinishBatch \/ DriveToEnd \/ LeaveAsIs
         \/ AskLate \/ Report \/ ResolveSeeded
  PROVE  Leaves
<1> USE DEF ScriptOK
<1>1. Advance => Leaves
  BY Advances DEF Leaves
<1>2. ASSUME NEW p, script' = [Forward EXCEPT !.row = p], p = script.row \/ p \in Payment \cap Seeded
      PROVE  Leaves
  <2>1. PICK new : new = Forward
    OBVIOUS
  <2>2. DOMAIN new = Field /\ new.pc = script.pc + 1 /\ new.at = "begin"
    BY <2>1 DEF Forward, Field
  <2> QED
    BY <1>2, <2>1, <2>2 DEF Leaves, Field
<1>3. CASE ReplaySeeded
  <2>1. PICK p : p = Instruction.row /\ script.pc \in DOMAIN Plan /\ Instruction.do = "pay"
    BY <1>3 DEF ReplaySeeded, At
  <2>2. p \in Payment \cap Seeded
    BY <2>1, PlanFacts DEF Instruction
  <2>3. Forward.row = script.row
    BY DEF Forward, Field
  <2>4. PICK new : new = IF status[p] = "EXPIRED" /\ p \notin ToExpire /\ Forward.row = NoPayment
                         THEN p ELSE Forward.row
    OBVIOUS
  <2>5. script' = [Forward EXCEPT !.row = new]
    BY <1>3, <2>1, <2>4 DEF ReplaySeeded
  <2> QED
    BY <1>2, <2>2, <2>3, <2>4, <2>5
<1>4. CASE FinishBatch
  <2>1. PICK p \in ToExpire : script' = [Forward EXCEPT !.row = IF @ = NoPayment THEN p ELSE @]
    BY <1>4 DEF FinishBatch
  <2>2. p \in Payment \cap Seeded
    BY ExpectedExpired
  <2>3. Forward.row = script.row
    BY DEF Forward, Field
  <2>4. PICK new : new = IF Forward.row = NoPayment THEN p ELSE Forward.row
    OBVIOUS
  <2>5. script' = [Forward EXCEPT !.row = new]
    BY <2>1, <2>4
  <2> QED
    BY <1>2, <2>2, <2>3, <2>4, <2>5
<1> QED
  BY <1>1, <1>3, <1>4 DEF CreateKey, ConfirmSeeded, DriveToEnd, LeaveAsIs, AskLate, Report, ResolveSeeded

\* The steps of the others.
LEMMA OtherSteps == Elsewhere => script' = script
BY DEF Elsewhere, Outside, AnalystResolves, Reset, AdminRevokes, AnalystReads

\* Every step of the script is one of these.
LEMMA ScriptMoves ==
  ASSUME ScriptOK, [DNext]_dvars
  PROVE  \/ script' = script
         \/ /\ DOMAIN script' = Field /\ script'.pc \in {0, 1} /\ script'.at = "begin"
            /\ script'.row = NoPayment
         \/ Leaves
         \/ Stays
BY StayingSteps, LeavingSteps, OtherSteps, Restarts DEF DNext, dvars, Elsewhere

\* The run keeps its shape.
LEMMA ScriptStep ==
  ASSUME ScriptOK, [DNext]_dvars
  PROVE  ScriptOK'
<1>1. loads' \in Nat
  BY DEF ScriptOK, DNext, dvars, desk, Start, Stop, ListKeys, CreateKey, RevokeListed, AdminRevokes,
         Revoke, CreateSeeded, ReplaySeeded, PushSeeded, ConfirmSeeded, Sweep, FinishBatch,
         PollBatch, InsertSeededRefund, SeededRefundIsThere, ReadDriven, DriveToMiddle, DriveToEnd,
         LeaveAsIs, Look, AskLate, Report, LookOpen, ResolveSeeded, Load, Outside, AnalystReads,
         AnalystResolves, Reset
<1> QED
  BY <1>1, ScriptMoves DEF ScriptOK, Leaves, Stays

---------------------------------------------------------------------------
(* The keys of the label. *)

Active == {k \in DOMAIN keys : keys[k] = "ACTIVE"}

\* While the script revokes, what it has left to revoke covers what is active.
KeysOK ==
  /\ DOMAIN keys = 1..MaxRuns
  /\ At("key", "listed") => Active \subseteq script.todo
  /\ OneActiveKey

\* Where a run is, one step later.
LEMMA Arrives ==
  ASSUME ScriptOK, [DNext]_dvars, NEW what, NEW where, where # "begin", At(what, where)'
  PROVE  \/ script' = script /\ At(what, where)
         \/ /\ script.pc \in DOMAIN Plan /\ Instruction' = Instruction /\ Instruction.do = what
            /\ Stays /\ script'.at = where
BY ScriptMoves DEF At, Instruction, Stays, Leaves

\* Only the end of an instruction and the starts change the script elsewhere.
StayingAt(where) ==
  \/ where = "listed" /\ (ListKeys \/ \E k \in 1..MaxRuns : RevokeListed(k))
  \/ where = "created" /\ CreateSeeded
  \/ where = "pushed" /\ PushSeeded
  \/ where = "swept" /\ Sweep
  \/ where = "inserting" /\ InsertSeededRefund
  \/ where = "there" /\ SeededRefundIsThere
  \/ where = "driven" /\ (ReadDriven \/ DriveToMiddle)
  \/ where = "missing" /\ Look
  \/ where \in {"open", "checked"} /\ LookOpen

LEMMA ArrivesBy ==
  ASSUME ScriptOK, [DNext]_dvars, script'.at # "begin", script' # script
  PROVE  StayingAt(script'.at)
BY StayingSteps, LeavingSteps, OtherSteps, Restarts DEF DNext, dvars, Elsewhere, Leaves, StayingAt

LEMMA KeysStep ==
  ASSUME ScriptOK, KeysOK, [DNext]_dvars
  PROVE  KeysOK'
<1>1. CASE ListKeys
  <2>1. keys' = keys /\ script'.todo = Active
    BY <1>1, StayingSteps DEF ListKeys, desk, Active
  <2> QED
    BY <2>1 DEF KeysOK, OneActiveKey, Active
<1>2. ASSUME NEW k \in 1..MaxRuns, Revoke(k), \/ RevokeListed(k) \/ script' = script
      PROVE  KeysOK'
  <2>1. keys' = [keys EXCEPT ![k] = "REVOKED"]
    BY <1>2 DEF Revoke
  <2>2. Active' = Active \ {k} /\ DOMAIN keys' = 1..MaxRuns
    BY <2>1 DEF Active, KeysOK
  <2>3. OneActiveKey'
    BY <2>1 DEF OneActiveKey, KeysOK
  <2>4. CASE RevokeListed(k)
    <3>1. At("key", "listed") /\ script'.todo = script.todo \ {k}
      BY <2>4, StayingSteps DEF RevokeListed
    <3> QED
      BY <2>2, <2>3, <3>1 DEF KeysOK
  <2>5. CASE script' = script
    BY <2>2, <2>3, <2>5 DEF KeysOK, At, Instruction
  <2> QED
    BY <1>2, <2>4, <2>5
<1>3. CASE CreateKey
  <2>1. Active = {} /\ DOMAIN keys = 1..MaxRuns
    BY <1>3 DEF CreateKey, AllRevoked, KeysOK
  <2>2. keys' = [keys EXCEPT ![script.runs] = "ACTIVE"]
    BY <1>3 DEF CreateKey
  <2>3. DOMAIN keys' = 1..MaxRuns /\ \A k \in 1..MaxRuns : keys'[k] = "ACTIVE" => k = script.runs
    BY <2>1, <2>2 DEF Active
  <2>4. script'.at = "begin"
    BY <1>3, LeavingSteps DEF Leaves
  <2> QED
    BY <2>3, <2>4 DEF KeysOK, OneActiveKey, At
<1>4. CASE Reset
  <2>1. keys' = [k \in 1..MaxRuns |-> "ABSENT"] /\ Active' = {}
    BY <1>4 DEF Reset, NoKeys, Active
  <2> QED
    BY <2>1 DEF KeysOK, OneActiveKey
<1>5. CASE keys' = keys /\ (script' = script \/ script'.at # "listed")
  BY <1>5 DEF KeysOK, OneActiveKey, At, Instruction, Active
<1>6. ASSUME ~ListKeys, \A k \in 1..MaxRuns : ~RevokeListed(k)
      PROVE  script' = script \/ script'.at # "listed"
  BY <1>6, ArrivesBy DEF StayingAt
<1>7. ASSUME ~ListKeys, \A k \in 1..MaxRuns : ~RevokeListed(k) /\ ~AdminRevokes(k),
             ~CreateKey, ~Reset
      PROVE  keys' = keys
  BY <1>7 DEF DNext, dvars, desk, Start, Stop, CreateSeeded, ReplaySeeded, PushSeeded, ConfirmSeeded,
         Sweep, FinishBatch, PollBatch, InsertSeededRefund, SeededRefundIsThere, ReadDriven,
         DriveToMiddle, DriveToEnd, LeaveAsIs, Look, AskLate, Report, LookOpen, ResolveSeeded, Load,
         Outside, AnalystReads, AnalystResolves
<1> QED
  BY <1>1, <1>2, <1>3, <1>4, <1>5, <1>6, <1>7 DEF RevokeListed, AdminRevokes

---------------------------------------------------------------------------
(* The exceptions reported and resolved. *)

Reporting == {i \in DOMAIN Plan : Plan[i].do = "report"}
Exception ==
  [kind : {Plan[i].kind : i \in Reporting}, row : {Plan[i].row : i \in Reporting},
   by : {Nobody, "script", "analyst"}]

\* What the script looked for is still missing when it reports it.
ReportsOK ==
  /\ reported \in Seq(Exception)
  /\ resolving # 0 => resolving \in DOMAIN reported
  /\ At("report", "missing") => Reports(Instruction.kind, Instruction.row) = {}
  /\ \A i, j \in DOMAIN reported :
       reported[i].kind = reported[j].kind /\ reported[i].row = reported[j].row => i = j

\* An exception is resolved: kind and row stay.
ResolvedBy(i, who) ==
  /\ reported[i].by = Nobody
  /\ reported' = [reported EXCEPT ![i].by = who]

\* The ways the list of exceptions goes through one step.
LEMMA ReportedMoves ==
  ASSUME ReportsOK, [DNext]_dvars
  PROVE  \/ reported' = reported
         \/ \E i \in DOMAIN reported, who \in {"script", "analyst"} : ResolvedBy(i, who)
         \/ Report
         \/ Reset
<1>1. CASE ResolveSeeded
  BY <1>1 DEF ResolveSeeded, Resolve, Resolvable, ResolvedBy, Reports
<1>2. CASE AnalystResolves
  BY <1>2 DEF AnalystResolves, Resolve, Resolvable, ResolvedBy, ReportsOK
<1>3. ASSUME ~ResolveSeeded, ~AnalystResolves, ~Report, ~Reset
      PROVE  reported' = reported
  BY <1>3 DEF DNext, dvars, desk, Start, Stop, ListKeys, CreateKey, RevokeListed, AdminRevokes,
         Revoke, CreateSeeded, ReplaySeeded, PushSeeded, ConfirmSeeded, Sweep, FinishBatch,
         PollBatch, InsertSeededRefund, SeededRefundIsThere, ReadDriven, DriveToMiddle, DriveToEnd,
         LeaveAsIs, Look, AskLate, LookOpen, Load, Outside, AnalystReads
<1> QED
  BY <1>1, <1>2, <1>3

\* Likewise for the exception the analyst has read as open.
LEMMA ResolvingMoves ==
  ASSUME [DNext]_dvars
  PROVE  resolving' = resolving \/ resolving' = 0 \/ (resolving' \in DOMAIN reported /\ reported' = reported)
BY DEF DNext, dvars, desk, Start, Stop, ListKeys, CreateKey, RevokeListed, AdminRevokes,
       Revoke, CreateSeeded, ReplaySeeded, PushSeeded, ConfirmSeeded, Sweep, FinishBatch,
       PollBatch, InsertSeededRefund, SeededRefundIsThere, ReadDriven, DriveToMiddle, DriveToEnd,
       LeaveAsIs, Look, AskLate, Report, LookOpen, ResolveSeeded, Load, Outside, AnalystReads,
       AnalystResolves, Reset

LEMMA ResolvedStays ==
  ASSUME reported \in Seq(Exception), NEW i \in DOMAIN reported, NEW who \in {"script", "analyst"},
         ResolvedBy(i, who)
  PROVE  /\ reported' \in Seq(Exception) /\ DOMAIN reported' = DOMAIN reported
         /\ \A j \in DOMAIN reported : /\ reported'[j].kind = reported[j].kind
                                       /\ reported'[j].row = reported[j].row
         /\ \A j \in DOMAIN reported : j # i => reported'[j] = reported[j]
<1>1. \A j \in DOMAIN reported : reported[j] \in Exception
  OBVIOUS
<1>2. PICK new : new = [reported[i] EXCEPT !.by = who]
  OBVIOUS
<1>3. new \in Exception /\ new.kind = reported[i].kind /\ new.row = reported[i].row
  BY <1>1, <1>2 DEF Exception
<1>4. reported' = [reported EXCEPT ![i] = new]
  BY <1>2 DEF ResolvedBy
<1> QED
  BY <1>3, <1>4

\* What the script has found missing: it has just looked, or it still has to act.
LEMMA FoundMissing ==
  ASSUME ScriptOK, [DNext]_dvars, NEW what, At(what, "missing")'
  PROVE  \/ script' = script /\ At(what, "missing")
         \/ /\ Look /\ Instruction' = Instruction /\ Instruction.do = what
            /\ Goto("missing") /\ script'.row = script.row /\ UNCHANGED <<vars, desk>>
<1>1. script'.at = "missing"
  BY DEF At
<1>2. ASSUME script' # script
      PROVE  /\ Look /\ Instruction' = Instruction /\ Instruction.do = what
             /\ Goto("missing") /\ script'.row = script.row /\ UNCHANGED <<vars, desk>>
  <2>1. Look
    BY <1>1, <1>2, ArrivesBy DEF StayingAt
  <2>2. Instruction' = Instruction /\ Instruction.do = what /\ Stays
    BY <1>2, Arrives
  <2>3. ~Advance
    BY <1>1, Advances DEF ScriptOK
  <2> QED
    BY <2>1, <2>2, <2>3 DEF Look, Stays
<1>3. ASSUME script' = script
      PROVE  At(what, "missing")
  BY <1>3 DEF At, Instruction
<1> QED
  BY <1>2, <1>3

LEMMA ReportsStep ==
  ASSUME ScriptOK, ReportsOK, [DNext]_dvars
  PROVE  ReportsOK'
<1>1. ASSUME DOMAIN reported' = DOMAIN reported,
             \A j \in DOMAIN reported : /\ reported'[j].kind = reported[j].kind
                                        /\ reported'[j].row = reported[j].row,
             reported' \in Seq(Exception)
      PROVE  ReportsOK'
  <2>1. \A kind, t : Reports(kind, t)' = Reports(kind, t)
    BY <1>1 DEF Reports
  <2>2. ASSUME At("report", "missing")'
        PROVE  Reports(Instruction.kind, Instruction.row)' = {}
    <3>1. CASE script' = script /\ At("report", "missing")
      BY <2>1, <3>1 DEF ReportsOK, Instruction
    <3>2. CASE /\ Look /\ Instruction' = Instruction /\ Instruction.do = "report"
               /\ Goto("missing")
      <4>1. AlreadyReported(Instruction.kind, Instruction.row) => Advance
        BY <3>2 DEF Look
      <4>2. ~Advance
        BY <2>2, Advances DEF ScriptOK, At
      <4>3. Reports(Instruction.kind, Instruction.row) = {}
        BY <2>2, <3>2, <4>1, <4>2, PlanFacts DEF AlreadyReported, At, Instruction, Look
      <4> QED
        BY <2>1, <3>2, <4>3
    <3> QED
      BY <2>2, <3>1, <3>2, FoundMissing
  <2>3. resolving' # 0 => resolving' \in DOMAIN reported'
    BY <1>1, ResolvingMoves DEF ReportsOK
  <2>4. \A i, j \in DOMAIN reported' :
          reported'[i].kind = reported'[j].kind /\ reported'[i].row = reported'[j].row => i = j
    BY <1>1 DEF ReportsOK
  <2> QED
    BY <1>1, <2>2, <2>3, <2>4 DEF ReportsOK
<1>2. ASSUME NEW i \in DOMAIN reported, NEW who \in {"script", "analyst"}, ResolvedBy(i, who)
      PROVE  ReportsOK'
  BY <1>1, <1>2, ResolvedStays DEF ReportsOK
<1>3. CASE Report
  <2>1. PICK new : new = [kind |-> Instruction.kind, row |-> Instruction.row, by |-> Nobody]
    OBVIOUS
  <2>2. new \in Exception /\ new.kind = Instruction.kind /\ new.row = Instruction.row
    BY <1>3, <2>1 DEF Report, At, Instruction, Exception, Reporting
  <2>3. reported' = Append(reported, new) /\ reported \in Seq(Exception)
    BY <1>3, <2>1 DEF Report, ReportsOK
  <2>4. /\ reported' \in Seq(Exception) /\ DOMAIN reported' = DOMAIN reported \cup {Len(reported) + 1}
        /\ Len(reported) + 1 \notin DOMAIN reported
        /\ reported'[Len(reported) + 1] = new
        /\ \A j \in DOMAIN reported : reported'[j] = reported[j]
    BY <2>2, <2>3
  <2>5. \A j \in DOMAIN reported : ~(reported[j].kind = new.kind /\ reported[j].row = new.row)
    BY <1>3, <2>2 DEF Report, ReportsOK, Reports
  <2>6. \A i, j \in DOMAIN reported' :
          reported'[i].kind = reported'[j].kind /\ reported'[i].row = reported'[j].row => i = j
    BY <2>4, <2>5 DEF ReportsOK
  <2>7. script'.at = "begin" /\ resolving' = resolving
    BY <1>3, LeavingSteps DEF Report, Leaves
  <2> QED
    BY <2>4, <2>6, <2>7 DEF ReportsOK, At
<1>4. CASE Reset
  <2>1. reported' = <<>> /\ resolving' = 0 /\ script'.pc = 0
    BY <1>4 DEF Reset
  <2> QED
    BY <2>1, PlanFacts DEF ReportsOK, At
<1>5. CASE reported' = reported
  BY <1>1, <1>5 DEF ReportsOK
<1> QED
  BY <1>2, <1>3, <1>4, <1>5, ReportedMoves

LEMMA ReportsInit == DInit => ReportsOK
<1> SUFFICES ASSUME DInit PROVE ReportsOK
  OBVIOUS
<1>1. reported = <<>> /\ resolving = 0 /\ script.at = "begin"
  BY DEF DInit, Stopped
<1> QED
  BY <1>1 DEF ReportsOK, At

\* An exception that has been resolved is left as it is.
LEMMA KeptStep ==
  ASSUME ReportsOK, [DNext]_dvars, NEW i \in DOMAIN reported, reported[i].by # Nobody,
         i \in DOMAIN reported'
  PROVE  reported'[i] = reported[i]
<1>1. CASE \E j \in DOMAIN reported, who \in {"script", "analyst"} : ResolvedBy(j, who)
  <2>1. PICK j \in DOMAIN reported, who \in {"script", "analyst"} : ResolvedBy(j, who)
    BY <1>1
  <2>2. i # j
    BY <2>1 DEF ResolvedBy
  <2> QED
    BY <2>1, <2>2, ResolvedStays DEF ReportsOK
<1>2. CASE Report
  BY <1>2 DEF Report, ReportsOK
<1>3. CASE Reset
  BY <1>3 DEF Reset
<1> QED
  BY <1>1, <1>2, <1>3, ReportedMoves

---------------------------------------------------------------------------
(* The steps of the script and of the others are steps of the ledger. *)

\* The script asks for one late acknowledgment, of a payment that has none.
LateOK ==
  /\ \A t \in Transaction : late[t] <= 1
  /\ At("late", "missing") => script.row # NoPayment /\ late[script.row] = 0

LEMMA LedgerStep ==
  ASSUME ScriptOK, LateOK, [DNext]_dvars
  PROVE  Next \/ Reset \/ UNCHANGED vars
<1> USE DEF Instruction
<1>0. Payment \subseteq Transaction /\ Refund \subseteq Transaction /\ LedgerCurrency \in Currency
  BY LedgerAssumption DEF Transaction
<1>1. CASE CreateSeeded
  <2>1. PICK p, a : p = Instruction.row /\ a = Instruction.amount
    OBVIOUS
  <2>2. p \in Payment /\ a \in Amount /\ CreatePayment(p, a, LedgerCurrency)
    BY <1>1, <2>1, PlanFacts DEF CreateSeeded, At
  <2> QED
    BY <1>0, <2>2 DEF Next
<1>2. ASSUME NEW t, NEW to \in Status, t \in Transaction, ChangeStatus(t, to)
      PROVE  Next
  BY <1>2 DEF Next
<1>3. CASE PushSeeded
  <2>1. PICK p : p = Instruction.row
    OBVIOUS
  <2>2. p \in Transaction /\ ChangeStatus(p, "PENDING")
    BY <1>0, <1>3, <2>1, PlanFacts DEF PushSeeded, At
  <2> QED
    BY <1>2, <2>2 DEF Status
<1>4. CASE ConfirmSeeded
  <2>1. PICK p : p = Instruction.row
    OBVIOUS
  <2>2. p \in Payment /\ (SettlePayment(p) \/ ChangeStatus(p, "FAILED"))
    BY <1>4, <2>1, PlanFacts DEF ConfirmSeeded, At
  <2>3. SettlePayment(p) => Next
    BY <2>2 DEF Next
  <2> QED
    BY <1>0, <1>2, <2>2, <2>3 DEF Status
<1>5. CASE Sweep
  BY <1>5 DEF Sweep, Next
<1>6. CASE InsertSeededRefund
  <2>1. PICK r, p, a : r = Instruction.row /\ p = Instruction.of /\ a = Instruction.amount
    OBVIOUS
  <2>2. r \in Refund /\ p \in Payment /\ a \in Amount /\ CheckRefund(r, p, a)
    BY <1>6, <2>1, PlanFacts DEF InsertSeededRefund, At
  <2> QED
    BY <2>2 DEF Next
<1>7. CASE DriveToMiddle
  <2>1. PICK t, to : t = Instruction.row /\ to = Ladder[2]
    OBVIOUS
  <2>2. t \in Transaction /\ ChangeStatus(t, to)
    BY <1>0, <1>7, <2>1, PlanFacts DEF DriveToMiddle, Driven, At
  <2>3. to \in Status
    BY <2>1 DEF Ladder, Status
  <2> QED
    BY <1>2, <2>2, <2>3
<1>8. CASE DriveToEnd
  <2>1. PICK t : t = Instruction.row
    OBVIOUS
  <2>2. /\ t \in Payment \cup Refund
        /\ IF t \in Refund THEN SettleRefund(t) ELSE ReverseDispute(t)
    BY <1>8, <2>1, PlanFacts DEF DriveToEnd, Driven, At
  <2> QED
    BY <2>2 DEF Next
<1>9. CASE AskLate
  <2>1. PICK t : t = script.row
    OBVIOUS
  <2>2. t \in Transaction /\ LateAcknowledgment(t)
    BY <1>0, <1>9, <2>1 DEF AskLate, ScriptOK, LateOK
  <2> QED
    BY <2>2 DEF Next
<1>10. CASE Outside
  <2>1. CASE Operator
    BY <1>0, <1>2, <2>1 DEF Operator, Next, Status
  <2>2. Database => Next
    BY DEF Database, Next
  <2>3. Visitor => Next
    BY DEF Visitor, Next
  <2>4. Clock => Next
    BY DEF Clock, Next
  <2>5. Cron => Next
    BY DEF Cron, Next
  <2> QED
    BY <1>10, <2>1, <2>2, <2>3, <2>4, <2>5 DEF Outside
<1>11. ASSUME ~CreateSeeded, ~PushSeeded, ~ConfirmSeeded, ~Sweep, ~InsertSeededRefund,
              ~DriveToMiddle, ~DriveToEnd, ~AskLate, ~Outside, ~Reset
       PROVE  UNCHANGED vars
  BY <1>11 DEF DNext, dvars, Start, Stop, ListKeys, CreateKey, RevokeListed, AdminRevokes, Revoke,
               ReplaySeeded, FinishBatch, PollBatch, SeededRefundIsThere, ReadDriven, LeaveAsIs,
               Look, Report, LookOpen, ResolveSeeded, Load, AnalystReads, AnalystResolves
<1> QED
  BY <1>1, <1>3, <1>4, <1>5, <1>6, <1>7, <1>8, <1>9, <1>10, <1>11

\* A reset leaves a database in its initial state.
LEMMA ResetInv == Reset => IInv'
<1>1. Reset => Init'
  BY DEF Reset, Emptied, Init
<1> QED
  BY <1>1, InitInv, PTL

LEMMA LedgerInv ==
  ASSUME IInv, ScriptOK, LateOK, [DNext]_dvars
  PROVE  IInv'
BY LedgerStep, ResetInv, NextInv

\* Only the script asks for a late acknowledgment.
LEMMA LateMoves ==
  ASSUME [DNext]_dvars
  PROVE  late' = late \/ AskLate \/ Reset
BY DEF DNext, dvars, vars, books, row, attributes, Start, Stop, ListKeys, CreateKey, RevokeListed,
       AdminRevokes, Revoke, CreateSeeded, CreatePayment, ReplaySeeded, PushSeeded, ChangeStatus,
       ConfirmSeeded, SettlePayment, Sweep, ExpireBatch, FinishBatch, PollBatch,
       InsertSeededRefund, CheckRefund, SeededRefundIsThere, ReadDriven, DriveToMiddle, DriveToEnd,
       SettleRefund, ReverseDispute, LeaveAsIs, Look, Report, LookOpen, ResolveSeeded, Load,
       Outside, Database, CommitRefund, AbortRefund, Visitor, Operator, Clock, DeadlinePasses, Cron,
       AnalystReads, AnalystResolves

LEMMA LateStep ==
  ASSUME IInv, ScriptOK, LateOK, [DNext]_dvars
  PROVE  LateOK'
<1>0. late \in [Transaction -> 0..MaxLate] /\ NoPayment \notin Payment
      /\ Payment \subseteq Transaction
  BY LedgerAssumption DEF IInv, TypeOK, Transaction
<1>1. CASE AskLate
  <2>1. script'.at = "begin"
    BY <1>1, LeavingSteps DEF Leaves
  <2>2. /\ script.row \in Transaction /\ late[script.row] = 0
        /\ late' = [late EXCEPT ![script.row] = @ + 1]
    BY <1>0, <1>1 DEF AskLate, ScriptOK, LateOK, LateAcknowledgment
  <2>3. \A t \in Transaction : late'[t] <= 1
    BY <1>0, <2>2 DEF LateOK
  <2> QED
    BY <2>1, <2>3 DEF LateOK, At
<1>2. CASE Reset
  <2>1. late' = [t \in Transaction |-> 0] /\ script'.pc = 0
    BY <1>2 DEF Reset, Emptied
  <2> QED
    BY <2>1, PlanFacts DEF LateOK, At
<1>3. CASE late' = late
  <2>1. ASSUME At("late", "missing")'
        PROVE  script'.row # NoPayment /\ late[script'.row] = 0
    <3>1. CASE script' = script /\ At("late", "missing")
      BY <3>1 DEF LateOK
    <3>2. CASE /\ Look /\ Instruction.do = "late" /\ Goto("missing") /\ script'.row = script.row
      <4>1. ~Advance
        BY <2>1, Advances DEF ScriptOK, At
      <4>2. ~AlreadyReported("LATE_ACKNOWLEDGMENT", script.row) /\ script.row # NoPayment
        BY <3>2, <4>1 DEF Look, At
      <4>3. script.row \in Transaction
        BY <1>0, <4>2 DEF ScriptOK
      <4> QED
        BY <1>0, <3>2, <4>2, <4>3 DEF AlreadyReported
    <3> QED
      BY <2>1, <3>1, <3>2, FoundMissing
  <2> QED
    BY <1>3, <2>1 DEF LateOK
<1> QED
  BY <1>1, <1>2, <1>3, LateMoves

---------------------------------------------------------------------------
(* The refunds of the script. *)

\* How the row of one of them may move: nobody else touches it but the job.
SeededMove(r) ==
  \/ status'[r] = status[r]
  \/ <<status[r], status'[r]>> \in
       {<<"ABSENT", "INITIATED">>, <<"INITIATED", "PENDING">>, <<"PENDING", "SUCCEEDED">>,
        <<"PENDING", "EXPIRED">>}

\* A confirmation that moves no money leaves the row of another alone.
LEMMA ChangesOne ==
  ASSUME status \in [Transaction -> Status \cup {"ABSENT"}], NEW t, NEW to, ChangeStatus(t, to),
         NEW u \in Transaction
  PROVE  status'[u] = IF u = t THEN to ELSE status[u]
BY DEF ChangeStatus

LEMMA SeededMoves ==
  ASSUME IInv, ScriptOK, LateOK, [DNext]_dvars, ~Reset, NEW r \in Seeded \cap Refund
  PROVE  SeededMove(r)
<1>0. /\ status \in [Transaction -> Status \cup {"ABSENT"}] /\ r \in Transaction /\ r \notin Payment
      /\ parent \in [Refund -> Payment \cup {NoPayment}]
      /\ \A q \in Refund : q \in inserting => status[q] = "ABSENT"
      /\ \A q \in Refund : status[q] # "ABSENT" => parent[q] \in Payment
  BY LedgerAssumption DEF IInv, TypeOK, InsertingIsInvisible, RefundHasCollectedParent, Exists, Transaction
<1>1. ASSUME NEW t, NEW to, ChangeStatus(t, to), t = r => to = "PENDING"
      PROVE  SeededMove(r)
  <2>1. status'[r] = IF r = t THEN to ELSE status[r]
    BY <1>0, <1>1, ChangesOne
  <2>2. <<status[t], to>> \in StatusTransitions \/ status[t] = to
    BY <1>1 DEF ChangeStatus, UpdateOK, UpdateAllowed
  <2>3. \A s : <<s, "PENDING">> \in StatusTransitions => s = "INITIATED"
    BY DEF StatusTransitions
  <2> QED
    BY <1>1, <2>1, <2>2, <2>3 DEF SeededMove
<1>2. ASSUME NEW batch \in SUBSET Transaction, ExpireBatch(batch)
      PROVE  SeededMove(r)
  BY <1>0, <1>2 DEF ExpireBatch, Expirable, SeededMove
<1>3. ASSUME NEW q \in Refund, SettleRefund(q)
      PROVE  SeededMove(r)
  <2>1. PICK p, s : p = parent[q] /\ s = ParentStatus(p, Cumulated(p, q))
    OBVIOUS
  <2>2. /\ status[q] = "PENDING"
        /\ status' = [status EXCEPT ![q] = "SUCCEEDED", ![p] = s]
    BY <1>3, <2>1 DEF SettleRefund, IsSettlement
  <2>3. p \in Payment
    BY <1>0, <2>1, <2>2
  <2> QED
    BY <1>0, <2>2, <2>3 DEF SeededMove
<1>4. ASSUME NEW p \in Payment, SettlePayment(p) \/ ReverseDispute(p)
      PROVE  SeededMove(r)
  <2>1. status'[r] = status[r]
    BY <1>0, <1>4 DEF SettlePayment, ReverseDispute
  <2> QED
    BY <2>1 DEF SeededMove
<1>5. ASSUME NEW q \in Refund, CommitRefund(q)
      PROVE  SeededMove(r)
  BY <1>0, <1>5 DEF CommitRefund, InsertRow, SeededMove
<1>6. ASSUME NEW p \in Payment, NEW a, NEW c, CreatePayment(p, a, c)
      PROVE  SeededMove(r)
  BY <1>0, <1>6 DEF CreatePayment, InsertRow, SeededMove
<1>7. CASE CreateSeeded
  <2>1. PICK p, a : p = Instruction.row /\ a = Instruction.amount
    OBVIOUS
  <2> QED
    BY <1>6, <1>7, <2>1, PlanFacts DEF CreateSeeded, At, Instruction
<1>8. CASE PushSeeded
  BY <1>1, <1>8 DEF PushSeeded
<1>9. CASE ConfirmSeeded
  <2>1. PICK p : p = Instruction.row
    OBVIOUS
  <2>2. p \in Payment /\ (SettlePayment(p) \/ ChangeStatus(p, "FAILED"))
    BY <1>9, <2>1, PlanFacts DEF ConfirmSeeded, At, Instruction
  <2> QED
    BY <1>0, <1>1, <1>4, <2>2
<1>10. CASE Sweep
  <2>1. CASE UNCHANGED vars
    BY <2>1 DEF vars, row, SeededMove
  <2> QED
    BY <1>2, <1>10, <2>1 DEF Sweep
<1>11. CASE DriveToMiddle
  <2>1. PICK t, to : t = Instruction.row /\ to = Ladder[2]
    OBVIOUS
  <2>2. ChangeStatus(t, to) /\ (t = r => to = "PENDING")
    BY <1>0, <1>11, <2>1, PlanFacts DEF DriveToMiddle, Driven, At, Instruction, Ladder
  <2> QED
    BY <1>1, <2>2
<1>12. CASE DriveToEnd
  <2>1. PICK t : t = Instruction.row
    OBVIOUS
  <2>2. /\ t \in Payment \cup Refund
        /\ IF t \in Refund THEN SettleRefund(t) ELSE ReverseDispute(t)
    BY <1>12, <2>1, PlanFacts DEF DriveToEnd, Driven, At, Instruction
  <2> QED
    BY <1>3, <1>4, <2>2
<1>13. CASE Outside
  <2>1. CASE Database
    <3>1. ASSUME NEW q \in Refund, AbortRefund(q)
          PROVE  SeededMove(r)
      BY <3>1 DEF AbortRefund, row, SeededMove
    <3> QED
      BY <1>5, <2>1, <3>1 DEF Database
  <2>2. CASE Visitor
    BY <2>2 DEF Visitor, CheckRefund, row, SeededMove
  <2>3. CASE Operator
    BY <1>1, <1>3, <2>3 DEF Operator
  <2>4. CASE Clock
    BY <2>4 DEF Clock, DeadlinePasses, row, SeededMove
  <2>5. CASE Cron
    BY <1>2, <2>5 DEF Cron
  <2> QED
    BY <1>13, <2>1, <2>2, <2>3, <2>4, <2>5 DEF Outside
<1>14. ASSUME ~CreateSeeded, ~PushSeeded, ~ConfirmSeeded, ~Sweep, ~DriveToMiddle, ~DriveToEnd,
              ~Outside
       PROVE  status' = status
  BY <1>14 DEF DNext, dvars, vars, row, Start, Stop, ListKeys, CreateKey, RevokeListed, AdminRevokes,
               Revoke, ReplaySeeded, FinishBatch, PollBatch, SeededRefundIsThere, ReadDriven,
               LeaveAsIs, Look, Report, LookOpen, ResolveSeeded, Load, AnalystReads,
               AnalystResolves, InsertSeededRefund, CheckRefund, AskLate, LateAcknowledgment
<1> QED
  BY <1>7, <1>8, <1>9, <1>10, <1>11, <1>12, <1>13, <1>14 DEF SeededMove

RefundStatus == {"INITIATED", "PENDING", "SUCCEEDED", "EXPIRED"}
Settled == {"SUCCEEDED", "EXPIRED"}

\* A final status that the script has read is the one the row still has.
RefundOK ==
  /\ \A r \in Seeded \cap Refund : status[r] \in RefundStatus \cup {"ABSENT"}
  /\ At("refund", "there") => Exists(Instruction.row)
  /\ At("refund", "driven") =>
       /\ script.read \in RefundStatus
       /\ script.read \in Settled => status[Instruction.row] = script.read

LEMMA RefundStep ==
  ASSUME IInv, ScriptOK, LateOK, RefundOK, [DNext]_dvars
  PROVE  RefundOK'
<1>1. CASE Reset
  <2>1. \A t \in Transaction : status'[t] = "ABSENT"
    BY <1>1 DEF Reset, Emptied
  <2>2. script'.pc = 0
    BY <1>1 DEF Reset
  <2> QED
    BY <2>1, <2>2, PlanFacts DEF RefundOK, At, Transaction
<1>2. CASE ~Reset
  <2>1. ASSUME NEW r \in Seeded \cap Refund
        PROVE  /\ status'[r] \in RefundStatus \cup {"ABSENT"}
               /\ status[r] # "ABSENT" => status'[r] \in RefundStatus
               /\ status[r] \in Settled => status'[r] = status[r]
    BY <1>2, SeededMoves DEF SeededMove, RefundOK, RefundStatus, Settled
  <2>2. ASSUME NEW where, At("refund", where)'
        PROVE  script'.pc \in DOMAIN Plan /\ Instruction'.row \in Seeded \cap Refund
    BY <2>2, PlanFacts DEF At, Instruction
  <2>3. ASSUME At("refund", "there")'
        PROVE  Exists(Instruction.row)'
    <3>1. Instruction' = Instruction /\ Exists(Instruction.row)
      <4>1. CASE script' = script
        BY <2>3, <4>1 DEF RefundOK, At, Instruction
      <4>2. CASE script' # script
        <5>1. SeededRefundIsThere
          BY <2>3, <4>2, ArrivesBy DEF StayingAt, At
        <5> QED
          BY <2>3, <4>2, <5>1, Arrives DEF SeededRefundIsThere
      <4> QED
        BY <4>1, <4>2
    <3> QED
      BY <2>1, <2>2, <2>3, <3>1 DEF Exists, RefundStatus
  <2>4. ASSUME At("refund", "driven")'
        PROVE  /\ script'.read \in RefundStatus
               /\ script'.read \in Settled => status'[Instruction'.row] = script'.read
    <3>0. Instruction'.row \in Seeded \cap Refund
      BY <2>2, <2>4
    <3>1. CASE script' = script
      <4>1. Instruction' = Instruction /\ At("refund", "driven")
        BY <2>4, <3>1 DEF At, Instruction
      <4> QED
        BY <2>1, <3>0, <3>1, <4>1 DEF RefundOK
    <3>2. CASE script' # script
      <4>1. ReadDriven \/ DriveToMiddle
        BY <2>4, <3>2, ArrivesBy DEF StayingAt, At
      <4>2. Instruction' = Instruction /\ Instruction.do = "refund"
        BY <2>4, <3>2, Arrives
      <4>3. CASE ReadDriven
        <5>1. script'.read = status[Instruction.row] /\ UNCHANGED vars
          BY <4>3, StayingSteps DEF ReadDriven
        <5>2. Exists(Instruction.row)
          BY <4>2, <4>3 DEF ReadDriven, At, RefundOK
        <5>3. status' = status
          BY <5>1 DEF vars, row
        <5> QED
          BY <3>0, <4>2, <5>1, <5>2, <5>3 DEF RefundOK, Exists
      <4>4. CASE DriveToMiddle
        <5>1. script'.read = "PENDING"
          BY <4>2, <4>4, StayingSteps DEF Ladder
        <5> QED
          BY <5>1 DEF RefundStatus, Settled
      <4> QED
        BY <4>1, <4>3, <4>4
    <3> QED
      BY <3>1, <3>2
  <2> QED
    BY <2>1, <2>3, <2>4 DEF RefundOK
<1> QED
  BY <1>1, <1>2

---------------------------------------------------------------------------
(* What an instruction has done is still done when the load is recorded. *)

Done(i) ==
  /\ Plan[i].do = "settle" => BatchIsExpired
  /\ Plan[i].do = "late" => \E p \in Seeded : late[p] > 0
  /\ Plan[i].do = "refund" => status[Plan[i].row] \in Settled

PassedOK == \A i \in DOMAIN Plan : i < script.pc => Done(i)

LEMMA ExpiredStays ==
  ASSUME IInv, [Next]_vars, NEW t \in Transaction, status[t] = "EXPIRED"
  PROVE  status'[t] = "EXPIRED"
<1>1. \A s : <<"EXPIRED", s>> \notin StatusTransitions
  BY DEF StatusTransitions
<1>2. CASE Next
  BY <1>1, <1>2, RowSteps DEF RowStep
<1> QED
  BY <1>2 DEF vars, row

LEMMA SeededIsTransaction == Seeded \subseteq Transaction
<1> SUFFICES ASSUME NEW t \in Seeded PROVE t \in Transaction
  OBVIOUS
<1>1. PICK i \in DOMAIN Plan : Plan[i].do \in {"pay", "refund"} /\ Plan[i].row = t
  BY DEF Seeded
<1> QED
  BY <1>1, PlanFacts DEF Transaction

\* Nothing but a reset undoes it.
LEMMA DoneStays ==
  ASSUME IInv, ScriptOK, LateOK, RefundOK, [DNext]_dvars, ~Reset, NEW i \in DOMAIN Plan, Done(i)
  PROVE  Done(i)'
<1>1. [Next]_vars
  BY LedgerStep
<1>2. BatchIsExpired => BatchIsExpired'
  BY <1>1, ExpiredStays, ExpectedExpired DEF BatchIsExpired, Transaction
<1>3. ASSUME NEW p \in Seeded, late[p] > 0
      PROVE  late'[p] > 0
  <2>1. p \in Transaction /\ late[p] \in Nat
    BY SeededIsTransaction DEF IInv, TypeOK
  <2>2. late'[p] = late[p] \/ (late'[p] >= late[p] /\ late'[p] \in Nat)
    <3>1. CASE Next
      <4>1. late'[p] \in Nat
        BY <2>1, LedgerInv DEF IInv, TypeOK
      <4> QED
        BY <2>1, <3>1, <4>1, LateGrows
    <3> QED
      BY <1>1, <3>1 DEF vars
  <2> QED
    BY <1>3, <2>1, <2>2
<1>4. ASSUME Plan[i].do = "refund", status[Plan[i].row] \in Settled
      PROVE  status'[Plan[i].row] \in Settled
  <2>1. SeededMove(Plan[i].row)
    BY <1>4, PlanFacts, SeededMoves
  <2> QED
    BY <1>4, <2>1 DEF SeededMove, Settled
<1> QED
  BY <1>2, <1>3, <1>4 DEF Done

\* An instruction that is over has done it.
LEMMA LeavesDone ==
  ASSUME IInv, ScriptOK, LateOK, RefundOK, [DNext]_dvars, ~Reset, NEW i \in DOMAIN Plan,
         i = script.pc, script'.pc = script.pc + 1
  PROVE  Done(i)'
<1>0. Instruction = Plan[i]
  BY DEF Instruction
<1>1. CASE FinishBatch
  BY <1>0, <1>1 DEF FinishBatch, At, Done, BatchIsExpired, vars, row
<1>2. CASE AskLate
  <2>1. /\ script.row \in Seeded /\ script.row \in Transaction
        /\ late' = [late EXCEPT ![script.row] = @ + 1]
    BY <1>2, SeededIsTransaction DEF AskLate, ScriptOK, LateOK, LateAcknowledgment
  <2>2. late'[script.row] > 0
    BY <2>1 DEF IInv, TypeOK
  <2> QED
    BY <1>0, <1>2, <2>1, <2>2 DEF AskLate, At, Done
<1>3. CASE Look
  <2>1. Advance
    BY <1>3, Goes DEF Look, ScriptOK, Field
  <2>2. ASSUME Instruction.do = "late"
        PROVE  \E p \in Seeded : late'[p] > 0
    <3>1. script.row \in Seeded /\ late' = late
      BY <1>0, <1>3, <2>2 DEF Look, At, ScriptOK, vars
    <3>2. ~Goto("missing")
      BY <1>3, <2>1, Advances, Goes DEF ScriptOK
    <3>3. late[script.row] > 0
      BY <1>3, <2>2, <3>2 DEF Look, AlreadyReported
    <3> QED
      BY <3>1, <3>3
  <2> QED
    BY <1>0, <1>3, <2>2 DEF Look, At, Done
<1>4. CASE DriveToEnd
  <2>1. ASSUME Instruction.do = "refund"
        PROVE  status'[Instruction.row] \in Settled
    <3>1. PICK r : r = Instruction.row
      OBVIOUS
    <3>2. r \in Refund /\ SettleRefund(r)
      BY <1>4, <2>1, <1>0, <3>1, PlanFacts DEF DriveToEnd
    <3>3. status[r] = "PENDING" /\ parent[r] \in Payment /\ r \notin Payment /\ r \in Transaction
      BY <3>2, LedgerAssumption
         DEF SettleRefund, IsSettlement, IInv, RefundHasCollectedParent, Exists, Transaction
    <3>4. PICK p, s : p = parent[r] /\ s = ParentStatus(p, Cumulated(p, r))
      OBVIOUS
    <3>5. status' = [status EXCEPT ![r] = "SUCCEEDED", ![p] = s]
      BY <3>2, <3>4 DEF SettleRefund
    <3> QED
      BY <3>1, <3>3, <3>4, <3>5 DEF Settled, IInv, TypeOK
  <2> QED
    BY <1>0, <1>4, <2>1 DEF DriveToEnd, Driven, At, Done
<1>5. CASE LeaveAsIs
  <2>1. ASSUME Instruction.do = "refund"
        PROVE  status'[Instruction.row] \in Settled
    <3>1. At("refund", "driven") /\ script.read \notin {"INITIATED", "PENDING"}
      BY <1>0, <1>5, <2>1 DEF LeaveAsIs, Driven, At, Ladder
    <3>2. status' = status
      BY <1>0, <1>5 DEF LeaveAsIs, vars, row
    <3> QED
      BY <3>1, <3>2 DEF RefundOK, RefundStatus, Settled
  <2> QED
    BY <1>0, <1>5, <2>1 DEF LeaveAsIs, Driven, At, Done
<1>6. ASSUME ~FinishBatch, ~AskLate, ~Look, ~DriveToEnd, ~LeaveAsIs
      PROVE  Instruction.do \notin {"settle", "late", "refund"}
  <2>1. script' # script /\ ~Stays /\ script.pc >= 1
    BY PlanFacts DEF Stays, ScriptOK
  <2>2. \/ PushSeeded \/ LookOpen
        \/ CreateKey \/ ReplaySeeded \/ ConfirmSeeded \/ Report \/ ResolveSeeded
    BY <1>6, <2>1, StayingSteps, OtherSteps, Restarts DEF DNext, dvars, Elsewhere, Start, ScriptOK
  <2> QED
    BY <2>2 DEF PushSeeded, LookOpen, CreateKey, ReplaySeeded, ConfirmSeeded, Report, ResolveSeeded, At
<1> QED
  BY <1>0, <1>1, <1>2, <1>3, <1>4, <1>5, <1>6 DEF Done

LEMMA PassedStep ==
  ASSUME IInv, ScriptOK, LateOK, RefundOK, PassedOK, [DNext]_dvars
  PROVE  PassedOK'
<1> SUFFICES ASSUME NEW i \in DOMAIN Plan, i < script'.pc
             PROVE  Done(i)'
  BY DEF PassedOK
<1>1. i \in Nat /\ i >= 1
  BY PlanFacts
<1>2. ~Reset
  BY <1>1 DEF Reset
<1>3. script'.pc = script.pc \/ script'.pc = script.pc + 1
  BY <1>1, ScriptMoves DEF Leaves, Stays
<1>4. CASE i < script.pc
  <2>1. Done(i)
    BY <1>4 DEF PassedOK
  <2> QED
    BY <1>2, <2>1, DoneStays
<1>5. CASE i = script.pc
  BY <1>2, <1>3, <1>5, LeavesDone DEF ScriptOK
<1> QED
  BY <1>1, <1>3, <1>4, <1>5 DEF ScriptOK

---------------------------------------------------------------------------
(* The theorems. *)

DemoInv ==
  /\ IInv /\ ScriptOK /\ KeysOK /\ ReportsOK /\ LateOK /\ RefundOK /\ PassedOK

LEMMA DemoInit == DInit => DemoInv
<1> SUFFICES ASSUME DInit PROVE DemoInv
  OBVIOUS
<1>1. PICK s : s = Stopped(0)
  OBVIOUS
<1>2. DOMAIN s = Field /\ s.pc = 0 /\ s.at = "begin" /\ s.row = NoPayment
  BY <1>1 DEF Stopped, Field
<1>3. script = s
  BY <1>1 DEF DInit
<1>4. IInv /\ ScriptOK
  BY <1>2, <1>3, InitInv DEF DInit, ScriptOK
<1>5. KeysOK
  BY <1>2, <1>3 DEF DInit, NoKeys, KeysOK, OneActiveKey, At
<1>6. LateOK /\ RefundOK
  <2>1. \A t \in Transaction : late[t] = 0 /\ status[t] = "ABSENT"
    BY DEF DInit, Init
  <2> QED
    BY <1>2, <1>3, <2>1 DEF LateOK, RefundOK, At, Transaction
<1>7. PassedOK
  BY <1>2, <1>3, PlanFacts DEF PassedOK
<1> QED
  BY <1>4, <1>5, <1>6, <1>7, ReportsInit DEF DemoInv

LEMMA DemoStep == DemoInv /\ [DNext]_dvars => DemoInv'
BY ScriptStep, KeysStep, ReportsStep, LedgerInv, LateStep, RefundStep, PassedStep DEF DemoInv

\* Every state of the database that the script, its reruns, the resets and
\* the others lead to is one the ledger allows, and the script never acts on
\* what it found out before and no longer holds.
THEOREM DemoInvariance == DSpec => []DemoInv
BY DemoInit, DemoStep, PTL DEF DSpec

\* Whatever the script, its reruns and the others do, the rows and the journal
\* move as the services and the job move them, or are emptied by the reset.
THEOREM DemoImplementsLedger == DSpec => Init /\ [][Next \/ Emptied]_vars
<1>1. DInit => Init
  BY DEF DInit
<1>2. ASSUME DemoInv, [DNext]_dvars
      PROVE  [Next \/ Emptied]_vars
  BY <1>2, LedgerStep DEF DemoInv, Reset
<1> QED
  BY <1>1, <1>2, DemoInvariance, PTL DEF DSpec

\* The books of the demonstration agree with its payments, whatever run of
\* the script was cut short and whatever was reset.
THEOREM DemoBooksAgree == DSpec => []BooksMatchRow
<1>1. DemoInv => BooksMatchRow
  BY DEF DemoInv, IInv
<1> QED
  BY <1>1, DemoInvariance, PTL

\* reissueApiKey: one active key at most, for any number of runs.
THEOREM OneKey == DSpec => []OneActiveKey
<1>1. DemoInv => OneActiveKey
  BY DEF DemoInv, KeysOK
<1> QED
  BY <1>1, DemoInvariance, PTL

\* seedReconciliationExceptions: no discrepancy and no late acknowledgment is
\* reported twice, for any plan and any number of runs.
THEOREM NothingReportedTwice == DSpec => []ReportedOnce
<1>1. DemoInv => ReportedOnce
  BY SeededIsTransaction DEF DemoInv, ReportsOK, LateOK, ReportedOnce
<1> QED
  BY <1>1, DemoInvariance, PTL

\* resolve(): the second of two resolutions never replaces the first.
THEOREM FirstResolutionWins == DSpec => ResolutionIsKept
<1>1. ASSUME DemoInv, [DNext]_dvars
      PROVE  [\A i \in DOMAIN reported :
                reported[i].by # Nobody /\ i \in DOMAIN reported' => reported'[i] = reported[i]]_dvars
  BY <1>1, KeptStep DEF DemoInv
<1> QED
  BY <1>1, DemoInvariance, PTL DEF DSpec, ResolutionIsKept

\* When loads grows, the run is at its end.
LEMMA LoadStep ==
  ASSUME DemoInv, [DNext]_dvars, loads' > loads
  PROVE  /\ \A i \in DOMAIN Plan : i < script.pc => Done(i)
         /\ script.pc \in DOMAIN Plan /\ Plan[script.pc].do = "load"
<1>1. Load
  <2>1. ASSUME ~Load
        PROVE  loads' = loads
    BY <2>1 DEF DNext, dvars, desk, Start, Stop, ListKeys, CreateKey, RevokeListed, AdminRevokes,
       Revoke, CreateSeeded, ReplaySeeded, PushSeeded, ConfirmSeeded, Sweep, FinishBatch,
       PollBatch, InsertSeededRefund, SeededRefundIsThere, ReadDriven, DriveToMiddle, DriveToEnd,
       LeaveAsIs, Look, AskLate, Report, LookOpen, ResolveSeeded, Outside, AnalystReads,
       AnalystResolves, Reset
  <2> QED
    BY <2>1 DEF DemoInv, ScriptOK
<1> QED
  BY <1>1 DEF DemoInv, PassedOK, Load, At, Instruction

\* settleExpiredBatch: a load is never recorded over a batch that has not
\* expired, or without its late acknowledgment.
THEOREM LoadIsComplete == DSpec => LoadMeansExpired
<1>1. ASSUME DemoInv, [DNext]_dvars, loads' > loads
      PROVE  /\ \A p \in ToExpire : status[p] = "EXPIRED"
             /\ \E p \in Seeded : late[p] > 0
  <2>1. \A what \in {"settle", "late"} :
          \E i \in DOMAIN Plan : i < script.pc /\ Plan[i].do = what
    BY <1>1, LoadStep, DemoAssumption
  <2>2. PICK i \in DOMAIN Plan : i < script.pc /\ Plan[i].do = "settle"
    BY <2>1
  <2>3. PICK j \in DOMAIN Plan : j < script.pc /\ Plan[j].do = "late"
    BY <2>1
  <2>4. Done(i) /\ Done(j)
    BY <1>1, <2>2, <2>3, LoadStep
  <2> QED
    BY <2>2, <2>3, <2>4 DEF Done, BatchIsExpired
<1>2. ASSUME DemoInv, [DNext]_dvars
      PROVE  [loads' > loads =>
                /\ \A p \in ToExpire : status[p] = "EXPIRED"
                /\ \E p \in Seeded : late[p] > 0]_dvars
  BY <1>1, <1>2
<1> QED
  BY <1>2, DemoInvariance, PTL DEF DSpec, LoadMeansExpired

\* driveToSucceeded: a load is never recorded over a refund left on its way.
THEOREM LoadIsSettled == DSpec => LoadMeansRefunded
<1>1. ASSUME DemoInv, [DNext]_dvars, loads' > loads, NEW r \in Seeded \cap Refund
      PROVE  status[r] \in {"SUCCEEDED", "EXPIRED"}
  <2>1. PICK i \in DOMAIN Plan : Plan[i].do = "refund" /\ Plan[i].row = r
    BY SeededRefund
  <2>2. i < script.pc
    BY <1>1, <2>1, LoadStep, DemoAssumption
  <2> QED
    BY <1>1, <2>1, <2>2, LoadStep DEF Done, Settled
<1>2. ASSUME DemoInv, [DNext]_dvars
      PROVE  [loads' > loads =>
                \A r \in Seeded \cap Refund : status[r] \in {"SUCCEEDED", "EXPIRED"}]_dvars
  BY <1>1, <1>2
<1> QED
  BY <1>2, DemoInvariance, PTL DEF DSpec, LoadMeansRefunded

=============================================================================
