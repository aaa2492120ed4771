------------------------- MODULE TaskDeliveryProofs -------------------------
(***************************************************************************)
(* Proofs about the delivery of tasks, for every set of tasks, every       *)
(* number of connections and both ways a connection is replaced.           *)
(***************************************************************************)
EXTENDS TaskDelivery, TLAPS

\* What a flush of the ledger leaves in memory and in the file.
LEMMA SetLedgerType ==
  ASSUME TypeOK, NEW g \in Clients, NEW t \in Tasks, NEW v \in {"none", "open", "acked"},
         SetLedger(g, t, v)
  PROVE  led' \in [Clients -> Ledgers] /\ diskLed' \in Ledgers
  <1>1. led \in [Clients -> Ledgers] /\ led[g] \in Ledgers
    BY Zenon DEF TypeOK
  <1>2. [led[g] EXCEPT ![t] = v] \in Ledgers
    BY <1>1, Zenon DEF Ledgers
  <1>3. QED
    BY <1>1, <1>2, Zenon DEF SetLedger

\* Every step keeps the types.
LEMMA TypeStep == ASSUME TypeOK, Next PROVE TypeOK'
<1>1. ASSUME NEW t \in Tasks, CreateTask(t)
      PROVE  TypeOK'
  BY <1>1, Zenon DEF CreateTask, Senders, TypeOK,
     platformVars, netVars, lateVars, boxVars, ledVars
<1>2. ASSUME NEW t \in Tasks, DispatchFails(t)
      PROVE  TypeOK'
  BY <1>2, Zenon DEF DispatchFails, SetStatus, Senders, Terminal, TypeOK,
     platformVars, netVars, lateVars, boxVars, ledVars
<1>3. ASSUME NEW t \in Tasks, ResumeQueuedStoragePreflight(t)
      PROVE  TypeOK'
  BY <1>3, Zenon DEF ResumeQueuedStoragePreflight, Senders, TypeOK,
     platformVars, netVars, lateVars, boxVars, ledVars
<1>4. ASSUME NEW t \in Tasks, ReconcileAbandonedTask(t)
      PROVE  TypeOK'
  BY <1>4, Zenon DEF ReconcileAbandonedTask, SetStatus, Terminal, TypeOK,
     platformVars, netVars, lateVars, boxVars, ledVars
<1>5. ASSUME NEW t \in Tasks, ForceStop(t)
      PROVE  TypeOK'
  BY <1>5, Zenon DEF ForceStop, SetStatus, TypeOK,
     platformVars, netVars, lateVars, boxVars, ledVars
<1>6. ASSUME NEW t \in Tasks, StopSucceeds(t)
      PROVE  TypeOK'
  BY <1>6, Zenon DEF StopSucceeds, SetStatus, Terminal, TypeOK,
     platformVars, netVars, lateVars, boxVars, ledVars
<1>7. ASSUME NEW t \in Tasks, MarkBackupCancelFailed(t)
      PROVE  TypeOK'
  BY <1>7, Zenon DEF MarkBackupCancelFailed, SetStatus, TypeOK,
     platformVars, netVars, lateVars, boxVars, ledVars
<1>8. ASSUME NEW t \in Tasks, VeleroFinishes(t)
      PROVE  TypeOK'
  BY <1>8 DEF VeleroFinishes, Reported, TypeOK,
     platformVars, netVars, lateVars, boxVars, ledVars
<1>9. ASSUME NEW t \in Tasks, NEW x \in Senders, DispatchTask(x, t)
      PROVE  TypeOK'
  BY <1>9 DEF DispatchTask, Dispatch, TypeOK,
     platformVars, netVars, lateVars, boxVars, ledVars
<1>10. ASSUME NEW t \in Tasks, NEW x \in Senders, MarkDispatched(x, t)
      PROVE  TypeOK'
  BY <1>10, Zenon DEF MarkDispatched, SetStatus, TypeOK,
     platformVars, netVars, lateVars, boxVars, ledVars
<1>11. ASSUME NEW t \in Tasks, NEW x \in Senders, DispatchWaitsForAgent(x, t)
      PROVE  TypeOK'
  BY <1>11, Zenon DEF DispatchWaitsForAgent, SetStatus, TypeOK,
     platformVars, netVars, lateVars, boxVars, ledVars
<1>12. ASSUME NEW t \in Tasks, HandleReport(t)
      PROVE  TypeOK'
  BY <1>12, Zenon DEF HandleReport, SetStatus, TypeOK,
     platformVars, netVars, lateVars, boxVars, ledVars
<1>13. ASSUME NEW t \in Tasks, HandleLateReport(t)
      PROVE  TypeOK'
  BY <1>13, Zenon DEF HandleLateReport, SetStatus, TypeOK,
     platformVars, netVars, lateVars, boxVars, ledVars
<1>14. ASSUME NEW t \in Tasks, NEW g \in Clients, NEW r \in Routines, RecordTask(g, t, r)
      PROVE  TypeOK'
  BY <1>14, Zenon DEF RecordTask, SetLedger, Ledgers, Jobs, TypeOK,
     platformVars, netVars, lateVars, boxVars, ledVars
<1>15. ASSUME NEW t \in Tasks, NEW g \in Clients, NEW r \in Routines, SendTaskAccepted(g, t, r)
      PROVE  TypeOK'
  BY <1>15, Zenon DEF SendTaskAccepted, Jobs, Clients, TypeOK,
     platformVars, netVars, lateVars, boxVars, ledVars
<1>16. ASSUME NEW t \in Tasks, NEW g \in Clients, NEW r \in Routines, Submit(g, t, r)
      PROVE  TypeOK'
  BY <1>16, Zenon DEF Submit, Jobs, TypeOK,
     platformVars, netVars, lateVars, boxVars, ledVars
<1>17. ASSUME NEW t \in Tasks, NEW g \in Clients, NEW r \in Routines, ReportOutcome(g, t, r)
      PROVE  TypeOK'
  <2>1. PICK o \in Reported : SendReliableEvent(g, [task |-> t, outcome |-> o])
    BY <1>17, Zenon DEF ReportOutcome, Observes, Reported
  <2>2. [task |-> t, outcome |-> o] \in Events
    BY Zenon DEF Events
  <2>3. box' \in [Clients -> SUBSET Events] /\ diskBox' \subseteq Events
    BY <2>1, <2>2, Zenon DEF SendReliableEvent, TypeOK
  <2>4. QED
    BY <1>17, <2>3, Zenon DEF ReportOutcome, Jobs, TypeOK, platformVars, netVars,
     lateVars, boxVars, ledVars
<1>18. ASSUME NEW t \in Tasks, NEW g \in Clients, MarkTerminalAcked(g, t)
      PROVE  TypeOK'
  <2>1. led' \in [Clients -> Ledgers] /\ diskLed' \in Ledgers
    <3>1. CASE led[g][t] = "none"
      BY <1>18, <3>1, Zenon DEF MarkTerminalAcked, TypeOK, ledVars
    <3>2. CASE led[g][t] # "none"
      BY <1>18, <3>2, SetLedgerType, Zenon DEF MarkTerminalAcked
    <3>3. QED
      BY <3>1, <3>2, Zenon
  <2>2. QED
    BY <1>18, <2>1, Zenon DEF MarkTerminalAcked, TypeOK, platformVars, netVars, lateVars,
     boxVars, ledVars
<1>19. ASSUME Connect
      PROVE  TypeOK'
  <2>1. cur + 1 \in Clients /\ cur + 1 \in 0..NumClients
    BY <1>19, ClientsAssumption DEF Connect, Clients, TypeOK
  <2>2. send' \in [Senders \X Tasks -> {"idle", "queued", "dispatched", "sent"}]
    BY <1>19, Zenon DEF Connect, TypeOK
  <2>3. QED
    BY <1>19, <2>1, <2>2, Zenon DEF Connect, TypeOK, platformVars, netVars, lateVars,
     boxVars, ledVars
<1>20. ASSUME Drop
      PROVE  TypeOK'
  BY <1>20, ClientsAssumption DEF Drop, Disconnect, Clients, TypeOK,
     platformVars, netVars, lateVars, boxVars, ledVars
<1>21. ASSUME Crash
      PROVE  TypeOK'
  BY <1>21, ClientsAssumption DEF Crash, Disconnect, Clients, NoRecord, Ledgers,
     TypeOK,
     platformVars, netVars, lateVars, boxVars, ledVars
<1>22. ASSUME PlatformRestarts
      PROVE  TypeOK'
  BY <1>22, Zenon DEF PlatformRestarts, TypeOK,
     platformVars, netVars, lateVars, boxVars, ledVars
<1>23. ASSUME RecoverLedgerTasks
      PROVE  TypeOK'
  <2>1. work' \in [Jobs -> {"none", "received", "recorded", "accepted", "polling"}]
    BY <1>23, Zenon DEF RecoverLedgerTasks, TypeOK
  <2>2. QED
    BY <1>23, <2>1, Zenon DEF RecoverLedgerTasks, TypeOK, platformVars, netVars, lateVars,
     boxVars, ledVars
<1>24. ASSUME link # 0, NEW e \in box[link], HandleResult(e)
      PROVE  TypeOK'
  <2>1. link \in Clients
    BY <1>24 DEF TypeOK, Clients
  <2>2. e \in Events /\ e.task \in Tasks /\ e.outcome \in Reported
    BY <1>24, <2>1 DEF TypeOK, Events
  <2>3. toAgent' \subseteq Dispatch \cup Answer
    BY <1>24, <2>2 DEF HandleResult, Answer, TypeOK
  <2>4. QED
    BY <1>24, <2>2, <2>3 DEF HandleResult, Settle, SetStatus, Terminal, TypeOK,
     platformVars, netVars, lateVars, boxVars, ledVars
<1>25. ASSUME NEW e \in lateResult, HandleLateResult(e)
      PROVE  TypeOK'
  BY <1>25 DEF HandleLateResult, Settle, SetStatus, Terminal, Events, TypeOK,
     platformVars, netVars, lateVars, boxVars, ledVars
<1>26. ASSUME link # 0, NEW m \in toAgent, ReceiveDispatch(m)
      PROVE  TypeOK'
  <2>1. m \in Dispatch
    BY <1>26, Zenon DEF ReceiveDispatch, TypeOK, Dispatch, Answer
  <2>2. m.task \in Tasks /\ m.sender \in Routines
    BY <2>1, Zenon DEF Dispatch, Routines
  <2>3. QED
    BY <1>26, <2>2, Zenon DEF ReceiveDispatch, TypeOK, platformVars, netVars, lateVars,
     boxVars, ledVars
<1>27. ASSUME link # 0, NEW m \in toAgent, ReceiveAnswer(m)
      PROVE  TypeOK'
  <2>1. m \in Answer
    BY <1>27, Zenon DEF ReceiveAnswer, TypeOK, Dispatch, Answer
  <2>2. m.event \in Events /\ m.event.task \in Tasks
    BY <2>1, Zenon DEF Answer, Events
  <2>3. link \in Clients
    BY <1>27 DEF TypeOK, Clients
  <2>4. QED
    BY <1>27, <2>2, <2>3 DEF ReceiveAnswer, TypeOK, platformVars, netVars,
     lateVars, boxVars, ledVars
<1>28. QED
  BY <1>1, <1>2, <1>3, <1>4, <1>5, <1>6, <1>7, <1>8, <1>9, <1>10, <1>11, <1>12,
     <1>13, <1>14, <1>15, <1>16, <1>17, <1>18, <1>19, <1>20, <1>21, <1>22, <1>23,
     <1>24, <1>25, <1>26, <1>27, Zenon DEF Next, Execute

\* What is held about a task anywhere, on the platform, in the agent or in its
\* files, is about a task that exists.
Known ==
  /\ \A x \in Senders, t \in Tasks : send[<<x, t>>] # "idle" => status[t] # "none"
  /\ \A t \in Tasks : stop[t] # "none" \/ t \in lateReport \/ diskLed[t] # "none"
                      => status[t] # "none"
  /\ \A g \in Clients, t \in Tasks : led[g][t] # "none" => status[t] # "none"
  /\ \A g \in Clients, t \in Tasks, r \in Routines :
       work[<<g, t, r>>] # "none" => status[t] # "none"
  /\ \A e \in diskBox \cup lateResult : status[e.task] # "none"
  /\ \A g \in Clients : \A e \in box[g] : status[e.task] # "none"
  /\ \A m \in toAgent : m.type = "dispatch" => status[m.task] # "none"

\* Success, and every report of it that is still to be read, rests on an
\* operation that was completed.
Evidence ==
  /\ \A t \in Tasks : status[t] = "succeeded" => op[t] = "completed"
  /\ \A e \in diskBox \cup lateResult : e.outcome = "completed" => op[e.task] = "completed"
  /\ \A g \in Clients : \A e \in box[g] : e.outcome = "completed" => op[e.task] = "completed"

\* A step refers to tasks that exist only.
LEMMA KnownStep == ASSUME TypeOK, Known, Next PROVE Known'
<1>1. ASSUME NEW t \in Tasks, CreateTask(t)
      PROVE  Known'
  BY <1>1 DEF CreateTask, Senders, Known, TypeOK,
     platformVars, netVars, lateVars, boxVars, ledVars
<1>2. ASSUME NEW t \in Tasks, DispatchFails(t)
      PROVE  Known'
  BY <1>2 DEF DispatchFails, SetStatus, Senders, Terminal, Known, TypeOK,
     platformVars, netVars, lateVars, boxVars, ledVars
<1>3. ASSUME NEW t \in Tasks, ResumeQueuedStoragePreflight(t)
      PROVE  Known'
  BY <1>3 DEF ResumeQueuedStoragePreflight, Senders, Known, TypeOK,
     platformVars, netVars, lateVars, boxVars, ledVars
<1>4. ASSUME NEW t \in Tasks, ReconcileAbandonedTask(t)
      PROVE  Known'
  BY <1>4 DEF ReconcileAbandonedTask, SetStatus, Terminal, Known, TypeOK,
     platformVars, netVars, lateVars, boxVars, ledVars
<1>5. ASSUME NEW t \in Tasks, ForceStop(t)
      PROVE  Known'
  BY <1>5 DEF ForceStop, Active, SetStatus, Known, TypeOK, platformVars, netVars,
     lateVars, boxVars, ledVars
<1>6. ASSUME NEW t \in Tasks, StopSucceeds(t)
      PROVE  Known'
  BY <1>6 DEF StopSucceeds, SetStatus, Terminal, Known, TypeOK,
     platformVars, netVars, lateVars, boxVars, ledVars
<1>7. ASSUME NEW t \in Tasks, MarkBackupCancelFailed(t)
      PROVE  Known'
  <2>1. CASE status[t] = "canceling"
    <3>1. status' = [status EXCEPT ![t] = "running"]
      BY <1>7, <2>1, Zenon DEF MarkBackupCancelFailed, SetStatus, Terminal, TypeOK
    <3>2. QED
      BY <1>7, <2>1, <3>1 DEF MarkBackupCancelFailed, Known, TypeOK, platformVars,
     netVars, lateVars, boxVars, ledVars
  <2>2. CASE status[t] # "canceling"
    BY <1>7, <2>2, ZenonT(60) DEF MarkBackupCancelFailed, Known, TypeOK, platformVars, netVars,
     lateVars, boxVars, ledVars
  <2>3. QED
    BY <2>1, <2>2, Zenon
<1>8. ASSUME NEW t \in Tasks, VeleroFinishes(t)
      PROVE  Known'
  BY <1>8 DEF VeleroFinishes, Reported, Known, TypeOK,
     platformVars, netVars, lateVars, boxVars, ledVars
<1>9. ASSUME NEW t \in Tasks, NEW x \in Senders, DispatchTask(x, t)
      PROVE  Known'
  BY <1>9 DEF DispatchTask, Waiting, Dispatch, Known, TypeOK, platformVars,
     netVars, lateVars, boxVars, ledVars
<1>10. ASSUME NEW t \in Tasks, NEW x \in Senders, MarkDispatched(x, t)
      PROVE  Known'
  BY <1>10 DEF MarkDispatched, SetStatus, Known, TypeOK,
     platformVars, netVars, lateVars, boxVars, ledVars
<1>11. ASSUME NEW t \in Tasks, NEW x \in Senders, DispatchWaitsForAgent(x, t)
      PROVE  Known'
  BY <1>11 DEF DispatchWaitsForAgent, SetStatus, Known, TypeOK,
     platformVars, netVars, lateVars, boxVars, ledVars
<1>12. ASSUME NEW t \in Tasks, HandleReport(t)
      PROVE  Known'
  BY <1>12 DEF HandleReport, SetStatus, Known, TypeOK,
     platformVars, netVars, lateVars, boxVars, ledVars
<1>13. ASSUME NEW t \in Tasks, HandleLateReport(t)
      PROVE  Known'
  BY <1>13 DEF HandleLateReport, SetStatus, Known, TypeOK,
     platformVars, netVars, lateVars, boxVars, ledVars
<1>14. ASSUME NEW t \in Tasks, NEW g \in Clients, NEW r \in Routines, RecordTask(g, t, r)
      PROVE  Known'
  BY <1>14 DEF RecordTask, SetLedger, Ledgers, Jobs, Known, TypeOK,
     platformVars, netVars, lateVars, boxVars, ledVars
<1>15. ASSUME NEW t \in Tasks, NEW g \in Clients, NEW r \in Routines, SendTaskAccepted(g, t, r)
      PROVE  Known'
  BY <1>15, ZenonT(200) DEF SendTaskAccepted, Jobs, Clients, Known, TypeOK,
     platformVars, netVars, lateVars, boxVars, ledVars
<1>16. ASSUME NEW t \in Tasks, NEW g \in Clients, NEW r \in Routines, Submit(g, t, r)
      PROVE  Known'
  BY <1>16, ZenonT(30) DEF Submit, Jobs, Known, TypeOK,
     platformVars, netVars, lateVars, boxVars, ledVars
<1>17. ASSUME NEW t \in Tasks, NEW g \in Clients, NEW r \in Routines, ReportOutcome(g, t, r)
      PROVE  Known'
  <2>1. PICK o \in Reported : SendReliableEvent(g, [task |-> t, outcome |-> o])
    BY <1>17, Zenon DEF ReportOutcome, Observes, Reported
  <2>2. work[<<g, t, r>>] # "none"
    BY <1>17, Zenon DEF ReportOutcome, Observes
  <2>3. status[t] # "none" /\ status' = status
    BY <1>17, <2>2, Zenon DEF ReportOutcome, Known, platformVars
  <2>4. /\ \A e \in diskBox' : status[e.task] # "none"
        /\ \A h \in Clients : \A e \in box'[h] : status[e.task] # "none"
    BY <2>1, <2>3 DEF SendReliableEvent, Known, TypeOK
  <2>5. QED
    BY <1>17, <2>3, <2>4 DEF ReportOutcome, Jobs, Known, TypeOK, platformVars,
     netVars, lateVars, boxVars, ledVars
<1>18. ASSUME NEW t \in Tasks, NEW g \in Clients, MarkTerminalAcked(g, t)
      PROVE  Known'
  <2>1. CASE led[g][t] = "none"
    BY <1>18, <2>1 DEF MarkTerminalAcked, Known, TypeOK, platformVars, netVars,
     lateVars, boxVars, ledVars
  <2>2. CASE led[g][t] # "none"
    <3>1. /\ \A h \in Clients, u \in Tasks : led'[h][u] # "none" => led[h][u] # "none"
          /\ \A u \in Tasks : diskLed'[u] # "none" => led[g][u] # "none"
      <4>1. led' = [led EXCEPT ![g] = [led[g] EXCEPT ![t] = "acked"]]
        BY <1>18, <2>2, Zenon DEF MarkTerminalAcked, SetLedger
      <4>2. diskLed' = [led[g] EXCEPT ![t] = "acked"]
        BY <1>18, <2>2, Zenon DEF MarkTerminalAcked, SetLedger
      <4>3. led \in [Clients -> Ledgers] /\ led[g] \in [Tasks -> {"none", "open", "acked"}]
        BY Zenon DEF Ledgers, TypeOK
      <4>4. \A u \in Tasks : diskLed'[u] # "none" => led[g][u] # "none"
        BY <2>2, <4>2, <4>3, Zenon
      <4>5. led'[g] = diskLed' /\ \A h \in Clients : h # g => led'[h] = led[h]
        BY <4>1, <4>2, <4>3, Zenon
      <4>6. QED
        BY <4>4, <4>5, Zenon
    <3>2. QED
      BY <1>18, <3>1 DEF MarkTerminalAcked, Known, TypeOK, platformVars, netVars,
     lateVars, boxVars, ledVars
  <2>3. QED
    BY <2>1, <2>2, Zenon
<1>19. ASSUME Connect
      PROVE  Known'
  BY <1>19, ZenonT(60) DEF Connect, Clients, Known, TypeOK,
     platformVars, netVars, lateVars, boxVars, ledVars
<1>20. ASSUME Drop
      PROVE  Known'
  <2>1. \A t \in Tasks : t \in lateReport' => status[t] # "none"
    <3>1. SUFFICES ASSUME NEW t \in Tasks, Reporting(t) PROVE status[t] # "none"
      BY <1>20, Zenon DEF Drop, Disconnect, Known
    <3>2. PICK r \in Routines : work[<<link, t, r>>] \in {"accepted", "polling"}
      BY <3>1, Zenon DEF Reporting
    <3>3. link \in Clients
      BY <3>1, ClientsAssumption DEF Reporting, Clients, TypeOK
    <3>4. QED
      BY <3>2, <3>3, Zenon DEF Known
  <2>2. \A e \in lateResult' : status[e.task] # "none"
    BY <1>20 DEF Drop, Disconnect, Clients, Known, TypeOK
  <2>3. QED
    BY <1>20, <2>1, <2>2, Zenon DEF Drop, Disconnect, NoRecord, Jobs, Known, TypeOK,
     platformVars, netVars, lateVars, boxVars, ledVars
<1>21. ASSUME Crash
      PROVE  Known'
  <2>1. \A t \in Tasks : t \in lateReport' => status[t] # "none"
    <3>1. SUFFICES ASSUME NEW t \in Tasks, Reporting(t) PROVE status[t] # "none"
      BY <1>21, Zenon DEF Crash, Disconnect, Known
    <3>2. PICK r \in Routines : work[<<link, t, r>>] \in {"accepted", "polling"}
      BY <3>1, Zenon DEF Reporting
    <3>3. link \in Clients
      BY <3>1, ClientsAssumption DEF Reporting, Clients, TypeOK
    <3>4. QED
      BY <3>2, <3>3, Zenon DEF Known
  <2>2. \A e \in lateResult' : status[e.task] # "none"
    BY <1>21 DEF Crash, Disconnect, Clients, Known, TypeOK
  <2>3. QED
    BY <1>21, <2>1, <2>2, Zenon DEF Crash, Disconnect, NoRecord, Jobs, Known, TypeOK,
     platformVars, netVars, lateVars, boxVars, ledVars
<1>22. ASSUME PlatformRestarts
      PROVE  Known'
  BY <1>22, Zenon DEF PlatformRestarts, Known, TypeOK,
     platformVars, netVars, lateVars, boxVars, ledVars
<1>23. ASSUME RecoverLedgerTasks
      PROVE  Known'
  <2>1. link \in Clients
    BY <1>23 DEF RecoverLedgerTasks, TypeOK, Clients
  <2>2. ASSUME NEW g \in Clients, NEW t \in Tasks, NEW r \in Routines,
               work'[<<g, t, r>>] # "none"
        PROVE  status[t] # "none"
    <3>1. <<g, t, r>> \in Jobs
      BY Zenon DEF Jobs
    <3>2. work[<<g, t, r>>] # "none" \/ led[link][t] = "open"
      BY <1>23, <2>2, <3>1, Zenon DEF RecoverLedgerTasks
    <3>3. QED
      BY <2>1, <3>2, Zenon DEF Known
  <2>3. QED
    BY <1>23, <2>2, SMTT(30) DEF RecoverLedgerTasks, Known, TypeOK, platformVars, netVars,
     lateVars, boxVars, ledVars
<1>24. ASSUME link # 0, NEW e \in box[link], HandleResult(e)
      PROVE  Known'
  <2>1. e \in Events
    BY <1>24 DEF TypeOK, Clients
  <2>2. e.task \in Tasks
    BY <2>1, Zenon DEF Events
  <2>3. \A u \in Tasks : status[u] # "none" => status'[u] # "none"
    BY <1>24, <2>2, Zenon DEF HandleResult, Settle, SetStatus, TypeOK
  <2>4. \A m \in toAgent' : m.type = "dispatch" => m \in toAgent
    BY <1>24 DEF HandleResult
  <2>5. QED
    BY <1>24, <2>3, <2>4, SMTT(30) DEF HandleResult, Events, Dispatch, Answer, Known, TypeOK,
     platformVars, netVars, lateVars, boxVars, ledVars
<1>25. ASSUME NEW e \in lateResult, HandleLateResult(e)
      PROVE  Known'
  <2>1. e \in Events
    BY <1>25, Zenon DEF TypeOK, Clients
  <2>2. e.task \in Tasks
    BY <2>1, Zenon DEF Events
  <2>3. \A u \in Tasks : status[u] # "none" => status'[u] # "none"
    BY <1>25, <2>2, Zenon DEF HandleLateResult, Settle, SetStatus, TypeOK
  <2>4. \A m \in toAgent' : m.type = "dispatch" => m \in toAgent
    BY <1>25, Zenon DEF HandleLateResult
  <2>5. QED
    BY <1>25, <2>3, <2>4 DEF HandleLateResult, Events, Dispatch, Answer, Known,
     TypeOK, platformVars, netVars, lateVars, boxVars, ledVars
<1>26. ASSUME link # 0, NEW m \in toAgent, ReceiveDispatch(m)
      PROVE  Known'
  BY <1>26 DEF ReceiveDispatch, Known, TypeOK,
     platformVars, netVars, lateVars, boxVars, ledVars
<1>27. ASSUME link # 0, NEW m \in toAgent, ReceiveAnswer(m)
      PROVE  Known'
  <2>1. link \in Clients
    BY <1>27 DEF TypeOK, Clients
  <2>2. diskBox' \subseteq box[link] \cup diskBox /\ \A g \in Clients : box'[g] \subseteq box[g]
    BY <1>27, <2>1, Zenon DEF ReceiveAnswer, TypeOK
  <2>3. QED
    BY <1>27, <2>1, <2>2 DEF ReceiveAnswer, Known, TypeOK, platformVars, netVars,
     lateVars, boxVars, ledVars
<1>28. QED
  BY <1>1, <1>2, <1>3, <1>4, <1>5, <1>6, <1>7, <1>8, <1>9, <1>10, <1>11, <1>12,
     <1>13, <1>14, <1>15, <1>16, <1>17, <1>18, <1>19, <1>20, <1>21, <1>22, <1>23,
     <1>24, <1>25, <1>26, <1>27, Zenon DEF Next, Execute

\* No step reports a success that did not happen.
LEMMA EvidenceStep == ASSUME TypeOK, Evidence, Next PROVE Evidence'
<1>1. ASSUME NEW t \in Tasks, CreateTask(t)
      PROVE  Evidence'
  BY <1>1, Zenon DEF CreateTask, Senders, Evidence, TypeOK,
     platformVars, netVars, lateVars, boxVars, ledVars
<1>2. ASSUME NEW t \in Tasks, DispatchFails(t)
      PROVE  Evidence'
  BY <1>2, Zenon DEF DispatchFails, SetStatus, Senders, Terminal, Evidence, TypeOK,
     platformVars, netVars, lateVars, boxVars, ledVars
<1>3. ASSUME NEW t \in Tasks, ResumeQueuedStoragePreflight(t)
      PROVE  Evidence'
  BY <1>3, Zenon DEF ResumeQueuedStoragePreflight, Senders, Evidence, TypeOK,
     platformVars, netVars, lateVars, boxVars, ledVars
<1>4. ASSUME NEW t \in Tasks, ReconcileAbandonedTask(t)
      PROVE  Evidence'
  BY <1>4, Zenon DEF ReconcileAbandonedTask, SetStatus, Terminal, Evidence, TypeOK,
     platformVars, netVars, lateVars, boxVars, ledVars
<1>5. ASSUME NEW t \in Tasks, ForceStop(t)
      PROVE  Evidence'
  BY <1>5, Zenon DEF ForceStop, SetStatus, Evidence, TypeOK,
     platformVars, netVars, lateVars, boxVars, ledVars
<1>6. ASSUME NEW t \in Tasks, StopSucceeds(t)
      PROVE  Evidence'
  BY <1>6, Zenon DEF StopSucceeds, SetStatus, Terminal, Evidence, TypeOK,
     platformVars, netVars, lateVars, boxVars, ledVars
<1>7. ASSUME NEW t \in Tasks, MarkBackupCancelFailed(t)
      PROVE  Evidence'
  BY <1>7, ZenonT(30) DEF MarkBackupCancelFailed, SetStatus, Evidence, TypeOK,
     platformVars, netVars, lateVars, boxVars, ledVars
<1>8. ASSUME NEW t \in Tasks, VeleroFinishes(t)
      PROVE  Evidence'
  BY <1>8 DEF VeleroFinishes, Reported, Evidence, TypeOK,
     platformVars, netVars, lateVars, boxVars, ledVars
<1>9. ASSUME NEW t \in Tasks, NEW x \in Senders, DispatchTask(x, t)
      PROVE  Evidence'
  BY <1>9, Zenon DEF DispatchTask, Dispatch, Evidence, TypeOK,
     platformVars, netVars, lateVars, boxVars, ledVars
<1>10. ASSUME NEW t \in Tasks, NEW x \in Senders, MarkDispatched(x, t)
      PROVE  Evidence'
  BY <1>10, Zenon DEF MarkDispatched, SetStatus, Evidence, TypeOK,
     platformVars, netVars, lateVars, boxVars, ledVars
<1>11. ASSUME NEW t \in Tasks, NEW x \in Senders, DispatchWaitsForAgent(x, t)
      PROVE  Evidence'
  BY <1>11, Zenon DEF DispatchWaitsForAgent, SetStatus, Evidence, TypeOK,
     platformVars, netVars, lateVars, boxVars, ledVars
<1>12. ASSUME NEW t \in Tasks, HandleReport(t)
      PROVE  Evidence'
  BY <1>12, Zenon DEF HandleReport, SetStatus, Evidence, TypeOK,
     platformVars, netVars, lateVars, boxVars, ledVars
<1>13. ASSUME NEW t \in Tasks, HandleLateReport(t)
      PROVE  Evidence'
  BY <1>13, Zenon DEF HandleLateReport, SetStatus, Evidence, TypeOK,
     platformVars, netVars, lateVars, boxVars, ledVars
<1>14. ASSUME NEW t \in Tasks, NEW g \in Clients, NEW r \in Routines, RecordTask(g, t, r)
      PROVE  Evidence'
  BY <1>14, Zenon DEF RecordTask, SetLedger, Ledgers, Jobs, Evidence, TypeOK,
     platformVars, netVars, lateVars, boxVars, ledVars
<1>15. ASSUME NEW t \in Tasks, NEW g \in Clients, NEW r \in Routines, SendTaskAccepted(g, t, r)
      PROVE  Evidence'
  BY <1>15, Zenon DEF SendTaskAccepted, Jobs, Clients, Evidence, TypeOK,
     platformVars, netVars, lateVars, boxVars, ledVars
<1>16. ASSUME NEW t \in Tasks, NEW g \in Clients, NEW r \in Routines, Submit(g, t, r)
      PROVE  Evidence'
  BY <1>16 DEF Submit, Jobs, Evidence, TypeOK,
     platformVars, netVars, lateVars, boxVars, ledVars
<1>17. ASSUME NEW t \in Tasks, NEW g \in Clients, NEW r \in Routines, ReportOutcome(g, t, r)
      PROVE  Evidence'
  <2>1. PICK o \in Observes(t, work[<<g, t, r>>]) :
          SendReliableEvent(g, [task |-> t, outcome |-> o])
    BY <1>17, Zenon DEF ReportOutcome
  <2>2. o = "completed" => op[t] = "completed"
    BY <2>1, Zenon DEF Observes
  <2>3. /\ \A e \in diskBox' : e.outcome = "completed" => op[e.task] = "completed"
        /\ \A h \in Clients : \A e \in box'[h] : e.outcome = "completed" => op[e.task] = "completed"
    BY <2>1, <2>2 DEF SendReliableEvent, Evidence, TypeOK
  <2>4. QED
    BY <1>17, <2>3, Zenon DEF ReportOutcome, Evidence, TypeOK, platformVars, netVars,
     lateVars, boxVars, ledVars
<1>18. ASSUME NEW t \in Tasks, NEW g \in Clients, MarkTerminalAcked(g, t)
      PROVE  Evidence'
  BY <1>18, Zenon DEF MarkTerminalAcked, Evidence, TypeOK,
     platformVars, netVars, lateVars, boxVars, ledVars
<1>19. ASSUME Connect
      PROVE  Evidence'
  BY <1>19, Zenon DEF Connect, Clients, Evidence, TypeOK,
     platformVars, netVars, lateVars, boxVars, ledVars
<1>20. ASSUME Drop
      PROVE  Evidence'
  BY <1>20 DEF Drop, Disconnect, Clients, Evidence, TypeOK,
     platformVars, netVars, lateVars, boxVars, ledVars
<1>21. ASSUME Crash
      PROVE  Evidence'
  BY <1>21 DEF Crash, Disconnect, Clients, NoRecord, Ledgers, Evidence, TypeOK,
     platformVars, netVars, lateVars, boxVars, ledVars
<1>22. ASSUME PlatformRestarts
      PROVE  Evidence'
  BY <1>22, Zenon DEF PlatformRestarts, Evidence, TypeOK,
     platformVars, netVars, lateVars, boxVars, ledVars
<1>23. ASSUME RecoverLedgerTasks
      PROVE  Evidence'
  BY <1>23, Zenon DEF RecoverLedgerTasks, Evidence, TypeOK,
     platformVars, netVars, lateVars, boxVars, ledVars
<1>24. ASSUME link # 0, NEW e \in box[link], HandleResult(e)
      PROVE  Evidence'
  <2>1. e \in Events /\ (e.outcome = "completed" => op[e.task] = "completed")
    BY <1>24 DEF Evidence, TypeOK, Clients
  <2>2. \A u \in Tasks : status'[u] = "succeeded" => op[u] = "completed"
    BY <1>24, <2>1 DEF HandleResult, Settle, SetStatus, Events, Evidence, TypeOK
  <2>3. QED
    BY <1>24, <2>2, Zenon DEF HandleResult, Evidence, TypeOK, platformVars, netVars,
     lateVars, boxVars, ledVars
<1>25. ASSUME NEW e \in lateResult, HandleLateResult(e)
      PROVE  Evidence'
  BY <1>25 DEF HandleLateResult, Settle, SetStatus, Terminal, Events, Evidence,
     TypeOK,
     platformVars, netVars, lateVars, boxVars, ledVars
<1>26. ASSUME link # 0, NEW m \in toAgent, ReceiveDispatch(m)
      PROVE  Evidence'
  BY <1>26, Zenon DEF ReceiveDispatch, Evidence, TypeOK,
     platformVars, netVars, lateVars, boxVars, ledVars
<1>27. ASSUME link # 0, NEW m \in toAgent, ReceiveAnswer(m)
      PROVE  Evidence'
  <2>1. link \in Clients
    BY <1>27 DEF TypeOK, Clients
  <2>2. diskBox' \subseteq box[link] \cup diskBox /\ \A g \in Clients : box'[g] \subseteq box[g]
    BY <1>27, <2>1, Zenon DEF ReceiveAnswer, TypeOK
  <2>3. QED
    BY <1>27, <2>1, <2>2, Zenon DEF ReceiveAnswer, Evidence, TypeOK, platformVars,
     netVars, lateVars, boxVars, ledVars
<1>28. QED
  BY <1>1, <1>2, <1>3, <1>4, <1>5, <1>6, <1>7, <1>8, <1>9, <1>10, <1>11, <1>12,
     <1>13, <1>14, <1>15, <1>16, <1>17, <1>18, <1>19, <1>20, <1>21, <1>22, <1>23,
     <1>24, <1>25, <1>26, <1>27, Zenon DEF Next, Execute

\* What a step does to the rows: nothing, open one, or set one that is open.
RowStep ==
  \/ status' = status
  \/ \E t \in Tasks : status[t] = "none" /\ status' = [status EXCEPT ![t] = "queued"]
  \/ \E t \in Tasks :
       \E s \in {"queued", "dispatched", "running", "canceling"} \cup Terminal :
         status[t] # "none" /\ SetStatus(t, s)

\* Every step treats the rows so.
LEMMA RowsStep == ASSUME TypeOK, Known, Next PROVE RowStep
<1>1. ASSUME NEW t \in Tasks, CreateTask(t)
      PROVE  RowStep
  BY <1>1, Zenon DEF CreateTask, RowStep, Known, platformVars
<1>2. ASSUME NEW t \in Tasks, DispatchFails(t)
      PROVE  RowStep
  BY <1>2, Zenon DEF DispatchFails, Waiting, Senders, Terminal, RowStep, Known,
     platformVars
<1>3. ASSUME NEW t \in Tasks, ResumeQueuedStoragePreflight(t)
      PROVE  RowStep
  BY <1>3, Zenon DEF ResumeQueuedStoragePreflight, RowStep, Known, platformVars
<1>4. ASSUME NEW t \in Tasks, ReconcileAbandonedTask(t)
      PROVE  RowStep
  BY <1>4, Zenon DEF ReconcileAbandonedTask, Active, Terminal, RowStep, Known, platformVars
<1>5. ASSUME NEW t \in Tasks, ForceStop(t)
      PROVE  RowStep
  BY <1>5, Zenon DEF ForceStop, Active, RowStep, Known, platformVars
<1>6. ASSUME NEW t \in Tasks, StopSucceeds(t)
      PROVE  RowStep
  BY <1>6, Zenon DEF StopSucceeds, Terminal, RowStep, Known, platformVars
<1>7. ASSUME NEW t \in Tasks, MarkBackupCancelFailed(t)
      PROVE  RowStep
  BY <1>7, Zenon DEF MarkBackupCancelFailed, RowStep, Known, platformVars
<1>8. ASSUME NEW t \in Tasks, VeleroFinishes(t)
      PROVE  RowStep
  BY <1>8, Zenon DEF VeleroFinishes, RowStep, Known, platformVars
<1>9. ASSUME NEW t \in Tasks, NEW x \in Senders, DispatchTask(x, t)
      PROVE  RowStep
  BY <1>9, Zenon DEF DispatchTask, RowStep, Known, platformVars
<1>10. ASSUME NEW t \in Tasks, NEW x \in Senders, MarkDispatched(x, t)
      PROVE  RowStep
  BY <1>10, Zenon DEF MarkDispatched, RowStep, Known, platformVars
<1>11. ASSUME NEW t \in Tasks, NEW x \in Senders, DispatchWaitsForAgent(x, t)
      PROVE  RowStep
  BY <1>11, Zenon DEF DispatchWaitsForAgent, Waiting, RowStep, Known, platformVars
<1>12. ASSUME NEW t \in Tasks, HandleReport(t)
      PROVE  RowStep
  <2>1. PICK r \in Routines : work[<<link, t, r>>] \in {"accepted", "polling"}
    BY <1>12, Zenon DEF HandleReport, Reporting
  <2>2. link \in Clients
    BY <1>12, ClientsAssumption DEF HandleReport, Reporting, Clients, TypeOK
  <2>3. status[t] # "none"
    BY <2>1, <2>2, Zenon DEF Known
  <2>4. QED
    BY <1>12, <2>3, Zenon DEF HandleReport, RowStep
<1>13. ASSUME NEW t \in Tasks, HandleLateReport(t)
      PROVE  RowStep
  BY <1>13, Zenon DEF HandleLateReport, RowStep, Known, platformVars
<1>14. ASSUME NEW t \in Tasks, NEW g \in Clients, NEW r \in Routines, RecordTask(g, t, r)
      PROVE  RowStep
  BY <1>14, Zenon DEF RecordTask, RowStep, Known, platformVars
<1>15. ASSUME NEW t \in Tasks, NEW g \in Clients, NEW r \in Routines, SendTaskAccepted(g, t, r)
      PROVE  RowStep
  BY <1>15, Zenon DEF SendTaskAccepted, RowStep, Known, platformVars
<1>16. ASSUME NEW t \in Tasks, NEW g \in Clients, NEW r \in Routines, Submit(g, t, r)
      PROVE  RowStep
  BY <1>16, ZenonT(30) DEF Submit, RowStep, Known, platformVars
<1>17. ASSUME NEW t \in Tasks, NEW g \in Clients, NEW r \in Routines, ReportOutcome(g, t, r)
      PROVE  RowStep
  BY <1>17, Zenon DEF ReportOutcome, RowStep, Known, platformVars
<1>18. ASSUME NEW t \in Tasks, NEW g \in Clients, MarkTerminalAcked(g, t)
      PROVE  RowStep
  BY <1>18, Zenon DEF MarkTerminalAcked, RowStep, Known, platformVars
<1>19. ASSUME Connect
      PROVE  RowStep
  BY <1>19, Zenon DEF Connect, RowStep, Known, platformVars
<1>20. ASSUME Drop
      PROVE  RowStep
  BY <1>20, Zenon DEF Drop, RowStep, Known, platformVars
<1>21. ASSUME Crash
      PROVE  RowStep
  BY <1>21, Zenon DEF Crash, RowStep, Known, platformVars
<1>22. ASSUME PlatformRestarts
      PROVE  RowStep
  BY <1>22, Zenon DEF PlatformRestarts, RowStep, Known, platformVars
<1>23. ASSUME RecoverLedgerTasks
      PROVE  RowStep
  BY <1>23, Zenon DEF RecoverLedgerTasks, RowStep, Known, platformVars
<1>24. ASSUME link # 0, NEW e \in box[link], HandleResult(e)
      PROVE  RowStep
  <2>1. e \in Events /\ status[e.task] # "none"
    BY <1>24, ClientsAssumption DEF Known, TypeOK, Clients
  <2>2. QED
    BY <1>24, <2>1, Zenon DEF HandleResult, Settle, Events, Terminal, RowStep
<1>25. ASSUME NEW e \in lateResult, HandleLateResult(e)
      PROVE  RowStep
  <2>1. e \in Events /\ status[e.task] # "none"
    BY <1>25, ClientsAssumption, Zenon DEF Known, TypeOK, Clients
  <2>2. QED
    BY <1>25, <2>1, Zenon DEF HandleLateResult, Settle, Events, Terminal, RowStep
<1>26. ASSUME link # 0, NEW m \in toAgent, ReceiveDispatch(m)
      PROVE  RowStep
  BY <1>26, Zenon DEF ReceiveDispatch, RowStep, Known, platformVars
<1>27. ASSUME link # 0, NEW m \in toAgent, ReceiveAnswer(m)
      PROVE  RowStep
  BY <1>27, Zenon DEF ReceiveAnswer, RowStep, Known, platformVars
<1>28. QED
  BY <1>1, <1>2, <1>3, <1>4, <1>5, <1>6, <1>7, <1>8, <1>9, <1>10, <1>11, <1>12,
     <1>13, <1>14, <1>15, <1>16, <1>17, <1>18, <1>19, <1>20, <1>21, <1>22, <1>23,
     <1>24, <1>25, <1>26, <1>27, Zenon DEF Next, Execute


\* The initial state satisfies the three parts of the invariant.
LEMMA InitHolds == ASSUME Init PROVE TypeOK /\ Known /\ Evidence
<1>1. TypeOK
  <2>1. /\ status \in [Tasks -> {"none"}] /\ stop \in [Tasks -> {"none"}]
        /\ send \in [Senders \X Tasks -> {"idle"}] /\ work \in [Jobs -> {"none"}]
        /\ op \in [Tasks -> {"absent"}]
    BY Zenon DEF Init
  <2>2. NoRecord \in Ledgers
    BY Zenon DEF NoRecord, Ledgers
  <2>3. box \in [Clients -> SUBSET Events] /\ led \in [Clients -> Ledgers]
    BY <2>2, Zenon DEF Init
  <2>4. cur \in 0..NumClients
    BY ClientsAssumption DEF Init
  <2>5. QED
    BY <2>1, <2>2, <2>3, <2>4, Zenon DEF Init, TypeOK
<1>2. Known
  BY Zenon DEF Init, Known, NoRecord, Jobs
<1>3. Evidence
  BY Zenon DEF Init, Evidence
<1>4. QED
  BY <1>1, <1>2, <1>3, Zenon

\* A step that changes nothing keeps the three parts.
LEMMA StutterHolds ==
  ASSUME TypeOK, Known, Evidence, UNCHANGED vars PROVE TypeOK' /\ Known' /\ Evidence'
<1>1. TypeOK'
  BY Zenon DEF vars, platformVars, netVars, lateVars, boxVars, ledVars, TypeOK
<1>2. Known'
  BY Zenon DEF vars, platformVars, netVars, lateVars, boxVars, ledVars, Known
<1>3. Evidence'
  BY Zenon DEF vars, platformVars, netVars, lateVars, boxVars, ledVars, Evidence
<1>4. QED
  BY <1>1, <1>2, <1>3, Zenon

\* The variables of the delivery keep their types.
THEOREM TypeCorrect == Spec => []TypeOK
<1>1. Init => TypeOK
  BY InitHolds, Zenon
<1>2. TypeOK /\ [Next]_vars => TypeOK'
  <2>1. CASE Next
    BY <2>1, TypeStep, Zenon
  <2>2. CASE UNCHANGED vars
    BY <2>2, Zenon DEF vars, platformVars, netVars, lateVars, boxVars, ledVars, TypeOK
  <2>3. QED
    BY <2>1, <2>2, Zenon
<1>3. QED
  BY <1>1, <1>2, PTL DEF Spec

\* The inductive invariant: the types, that nothing refers to a task that does
\* not exist, and that every report of success rests on a completed operation.
THEOREM Invariance == Spec => [](TypeOK /\ Known /\ Evidence)
<1>1. Init => TypeOK /\ Known /\ Evidence
  BY InitHolds, Zenon
<1>2. TypeOK /\ Known /\ Evidence /\ [Next]_vars => TypeOK' /\ Known' /\ Evidence'
  BY TypeStep, KnownStep, EvidenceStep, StutterHolds, Zenon
<1>3. QED
  BY <1>1, <1>2, PTL DEF Spec

\* However often a task is dispatched, executed, recovered after a restart and
\* reported, the platform sets it to succeeded only if its operation completed.
THEOREM SuccessIsReal == Spec => []SucceededMeansDone
<1>1. Evidence => SucceededMeansDone
  BY Zenon DEF Evidence, SucceededMeansDone
<1>2. QED
  BY <1>1, Invariance, PTL

\* The rows implement the abstract life of a task: it is opened once, ended at
\* most once and keeps its outcome, whatever is retried, repeated or late.
THEOREM RowsImplementLifecycle == Spec => LifecycleSpec
<1>1. Init => Lifecycle!Init
  BY DEF Init, Life, Lifecycle!Init, Terminal
<1>2. ASSUME TypeOK, Known, RowStep
      PROVE  Lifecycle!Next \/ Life' = Life
  <2>1. CASE status' = status
    BY <2>1, Zenon DEF Life
  <2>2. ASSUME NEW t \in Tasks, status[t] = "none",
               status' = [status EXCEPT ![t] = "queued"]
        PROVE  Lifecycle!Open(t)
    BY <1>2, <2>2, Zenon DEF Life, Lifecycle!Open, Terminal, TypeOK
  <2>3. ASSUME NEW t \in Tasks, status[t] # "none",
               NEW s \in {"queued", "dispatched", "running",
     "canceling"} \cup Terminal,
               SetStatus(t, s)
        PROVE  Life' = Life \/ (s \in Terminal /\ Lifecycle!End(t, s))
    <3>1. CASE status[t] \in Terminal
      BY <1>2, <2>3, <3>1, Zenon DEF Life, SetStatus, TypeOK
    <3>2. CASE status[t] \notin Terminal /\ s \in Terminal
      BY <1>2, <2>3, <3>2, ZenonT(60) DEF Life, SetStatus, TypeOK, Terminal, Lifecycle!End
    <3>3. CASE status[t] \notin Terminal /\ s \notin Terminal
      BY <1>2, <2>3, <3>3, ZenonT(60) DEF Life, SetStatus, TypeOK, Terminal
    <3>4. QED
      BY <3>1, <3>2, <3>3, Zenon
  <2>4. QED
    BY <1>2, <2>1, <2>2, <2>3, Zenon DEF RowStep, Lifecycle!Next, Lifecycle!Outcomes,
     Terminal
<1>3. TypeOK /\ Known /\ [Next]_vars => [Lifecycle!Next]_Life
  <2>1. ASSUME TypeOK, Known, Next PROVE Lifecycle!Next \/ Life' = Life
    BY <1>2, <2>1, RowsStep, Zenon
  <2>2. ASSUME UNCHANGED vars PROVE Life' = Life
    BY <2>2, Zenon DEF vars, platformVars, Life
  <2>3. QED
    BY <2>1, <2>2, Zenon
<1>4. QED
  BY <1>1, <1>3, Invariance, PTL DEF Spec, LifecycleSpec, Lifecycle!Spec

\* Where no backup is forced to stop, what the agent has been told is settled,
\* or has written down as such, has ended on the platform.
Settled ==
  /\ \A t \in Tasks : status[t] # "canceling" /\ stop[t] = "none"
  /\ \A m \in toAgent : m.type = "ack" => status[m.event.task] \in Terminal
  /\ \A g \in Clients, t \in Tasks : <<g, t>> \in acking => status[t] \in Terminal
  /\ \A t \in Tasks : diskLed[t] = "acked" => status[t] \in Terminal
  /\ \A g \in Clients, t \in Tasks : led[g][t] = "acked" => status[t] \in Terminal

\* A task that has ended keeps its row.
LEMMA EndedStays ==
  ASSUME TypeOK, RowStep
  PROVE  \A t \in Tasks : status[t] \in Terminal => status'[t] \in Terminal
  BY Zenon DEF RowStep, SetStatus, TypeOK, Terminal

\* A step keeps what was acknowledged settled.
LEMMA SettledStep ==
  ASSUME Stoppable = {}, TypeOK, Known, Settled, Next PROVE Settled'
<1>0. \A t \in Tasks : status[t] \in Terminal => status'[t] \in Terminal
  BY RowsStep, EndedStays, Zenon
<1>1. ASSUME NEW t \in Tasks, CreateTask(t)
      PROVE  Settled'
  <2>1. \A u \in Tasks : status'[u] # "canceling"
    BY <1>1, Zenon DEF CreateTask, Senders, Settled, TypeOK
  <2>2. QED
    BY <1>0, <1>1, <2>1, ZenonT(60) DEF CreateTask, Events, Dispatch, Answer, Settled, TypeOK,
     platformVars, netVars, lateVars, boxVars, ledVars
<1>2. ASSUME NEW t \in Tasks, DispatchFails(t)
      PROVE  Settled'
  <2>1. \A u \in Tasks : status'[u] # "canceling"
    BY <1>2, ZenonT(30) DEF DispatchFails, SetStatus, Settled, TypeOK
  <2>2. QED
    BY <1>0, <1>2, <2>1, Zenon DEF DispatchFails, Events, Dispatch, Answer, Settled,
     TypeOK, platformVars, netVars, lateVars, boxVars, ledVars
<1>3. ASSUME NEW t \in Tasks, ResumeQueuedStoragePreflight(t)
      PROVE  Settled'
  BY <1>3, Zenon DEF ResumeQueuedStoragePreflight, Settled, TypeOK,
     platformVars, netVars, lateVars, boxVars, ledVars
<1>4. ASSUME NEW t \in Tasks, ReconcileAbandonedTask(t)
      PROVE  Settled'
  <2>1. \A u \in Tasks : status'[u] # "canceling"
    BY <1>4, Zenon DEF ReconcileAbandonedTask, SetStatus, Settled, TypeOK
  <2>2. QED
    BY <1>0, <1>4, <2>1, Zenon DEF ReconcileAbandonedTask, Events, Dispatch, Answer,
     Settled, TypeOK, platformVars, netVars, lateVars, boxVars, ledVars
<1>5. ASSUME NEW t \in Tasks, ForceStop(t)
      PROVE  Settled'
  BY <1>5, Zenon DEF ForceStop
<1>6. ASSUME NEW t \in Tasks, StopSucceeds(t)
      PROVE  Settled'
  BY <1>6, Zenon DEF StopSucceeds, Settled
<1>7. ASSUME NEW t \in Tasks, MarkBackupCancelFailed(t)
      PROVE  Settled'
  BY <1>7, Zenon DEF MarkBackupCancelFailed, Settled
<1>8. ASSUME NEW t \in Tasks, VeleroFinishes(t)
      PROVE  Settled'
  BY <1>8, Zenon DEF VeleroFinishes, Settled, TypeOK,
     platformVars, netVars, lateVars, boxVars, ledVars
<1>9. ASSUME NEW t \in Tasks, NEW x \in Senders, DispatchTask(x, t)
      PROVE  Settled'
  BY <1>9 DEF DispatchTask, Settled, TypeOK,
     platformVars, netVars, lateVars, boxVars, ledVars
<1>10. ASSUME NEW t \in Tasks, NEW x \in Senders, MarkDispatched(x, t)
      PROVE  Settled'
  <2>1. \A u \in Tasks : status'[u] # "canceling"
    BY <1>10, Zenon DEF MarkDispatched, SetStatus, Settled, TypeOK
  <2>2. QED
    BY <1>0, <1>10, <2>1, Zenon DEF MarkDispatched, Events, Dispatch, Answer, Settled,
     TypeOK, platformVars, netVars, lateVars, boxVars, ledVars
<1>11. ASSUME NEW t \in Tasks, NEW x \in Senders, DispatchWaitsForAgent(x, t)
      PROVE  Settled'
  <2>1. \A u \in Tasks : status'[u] # "canceling"
    BY <1>11, Zenon DEF DispatchWaitsForAgent, SetStatus, Settled, TypeOK
  <2>2. QED
    BY <1>0, <1>11, <2>1, Zenon DEF DispatchWaitsForAgent, Events, Dispatch, Answer,
     Settled, TypeOK, platformVars, netVars, lateVars, boxVars, ledVars
<1>12. ASSUME NEW t \in Tasks, HandleReport(t)
      PROVE  Settled'
  <2>1. \A u \in Tasks : status'[u] # "canceling"
    BY <1>12, Zenon DEF HandleReport, SetStatus, Settled, TypeOK
  <2>2. QED
    BY <1>0, <1>12, <2>1, ZenonT(60) DEF HandleReport, Events, Dispatch, Answer, Settled,
     TypeOK, platformVars, netVars, lateVars, boxVars, ledVars
<1>13. ASSUME NEW t \in Tasks, HandleLateReport(t)
      PROVE  Settled'
  <2>1. \A u \in Tasks : status'[u] # "canceling"
    BY <1>13, ZenonT(30) DEF HandleLateReport, SetStatus, Settled, TypeOK
  <2>2. QED
    BY <1>0, <1>13, <2>1, Zenon DEF HandleLateReport, Events, Dispatch, Answer, Settled,
     TypeOK, platformVars, netVars, lateVars, boxVars, ledVars
<1>14. ASSUME NEW t \in Tasks, NEW g \in Clients, NEW r \in Routines, RecordTask(g, t, r)
      PROVE  Settled'
  <2>1. /\ \A u \in Tasks : diskLed'[u] = "acked" => status[u] \in Terminal
        /\ \A h \in Clients, u \in Tasks : led'[h][u] = "acked" => status[u] \in Terminal
    <3>1. CASE UNCHANGED ledVars
      BY <3>1, Zenon DEF Settled, ledVars
    <3>2. ASSUME NEW v \in {"open", "acked"}, SetLedger(g, t, v),
                 v = "acked" => status[t] \in Terminal
          PROVE  (\A u \in Tasks : diskLed'[u] = "acked" => status[u] \in Terminal)
                 /\ (\A h \in Clients, u \in Tasks : led'[h][u] = "acked" => status[u] \in Terminal)
      <4>1. led' = [led EXCEPT ![g] = [led[g] EXCEPT ![t] = v]]
        BY <3>2, Zenon DEF SetLedger
      <4>2. diskLed' = [led[g] EXCEPT ![t] = v]
        BY <3>2, Zenon DEF SetLedger
      <4>3. led \in [Clients -> Ledgers] /\ led[g] \in [Tasks -> {"none", "open", "acked"}]
        BY Zenon DEF Ledgers, TypeOK
      <4>4. \A u \in Tasks : diskLed'[u] = "acked" => status[u] \in Terminal
        BY <3>2, <4>2, <4>3, Zenon DEF Settled
      <4>5. led'[g] = diskLed' /\ \A h \in Clients : h # g => led'[h] = led[h]
        BY <4>1, <4>2, <4>3, Zenon
      <4>6. QED
        BY <4>4, <4>5, Zenon DEF Settled
    <3>3. QED
      BY <1>14, <3>1, <3>2, Zenon DEF RecordTask, Settled
  <2>2. QED
    BY <1>14, <2>1, Zenon DEF RecordTask, Settled, TypeOK, platformVars, netVars,
     lateVars, boxVars, ledVars
<1>15. ASSUME NEW t \in Tasks, NEW g \in Clients, NEW r \in Routines, SendTaskAccepted(g, t, r)
      PROVE  Settled'
  BY <1>15, Zenon DEF SendTaskAccepted, Settled, TypeOK,
     platformVars, netVars, lateVars, boxVars, ledVars
<1>16. ASSUME NEW t \in Tasks, NEW g \in Clients, NEW r \in Routines, Submit(g, t, r)
      PROVE  Settled'
  BY <1>16, Zenon DEF Submit, Settled, TypeOK,
     platformVars, netVars, lateVars, boxVars, ledVars
<1>17. ASSUME NEW t \in Tasks, NEW g \in Clients, NEW r \in Routines, ReportOutcome(g, t, r)
      PROVE  Settled'
  BY <1>17, Zenon DEF ReportOutcome, Settled, TypeOK,
     platformVars, netVars, lateVars, boxVars, ledVars
<1>18. ASSUME NEW t \in Tasks, NEW g \in Clients, MarkTerminalAcked(g, t)
      PROVE  Settled'
  <2>1. /\ \A u \in Tasks : diskLed'[u] = "acked" => status[u] \in Terminal
        /\ \A h \in Clients, u \in Tasks : led'[h][u] = "acked" => status[u] \in Terminal
    <3>1. CASE UNCHANGED ledVars
      BY <3>1, Zenon DEF Settled, ledVars
    <3>2. ASSUME NEW v \in {"open", "acked"}, SetLedger(g, t, v),
                 v = "acked" => status[t] \in Terminal
          PROVE  (\A u \in Tasks : diskLed'[u] = "acked" => status[u] \in Terminal)
                 /\ (\A h \in Clients, u \in Tasks : led'[h][u] = "acked" => status[u] \in Terminal)
      <4>1. led' = [led EXCEPT ![g] = [led[g] EXCEPT ![t] = v]]
        BY <3>2, Zenon DEF SetLedger
      <4>2. diskLed' = [led[g] EXCEPT ![t] = v]
        BY <3>2, Zenon DEF SetLedger
      <4>3. led \in [Clients -> Ledgers] /\ led[g] \in [Tasks -> {"none", "open", "acked"}]
        BY Zenon DEF Ledgers, TypeOK
      <4>4. \A u \in Tasks : diskLed'[u] = "acked" => status[u] \in Terminal
        BY <3>2, <4>2, <4>3, Zenon DEF Settled
      <4>5. led'[g] = diskLed' /\ \A h \in Clients : h # g => led'[h] = led[h]
        BY <4>1, <4>2, <4>3, Zenon
      <4>6. QED
        BY <4>4, <4>5, Zenon DEF Settled
    <3>3. QED
      BY <1>18, <3>1, <3>2, Zenon DEF MarkTerminalAcked, Settled
  <2>2. QED
    BY <1>18, <2>1, ZenonT(30) DEF MarkTerminalAcked, Settled, TypeOK, platformVars, netVars,
     lateVars, boxVars, ledVars
<1>19. ASSUME Connect
      PROVE  Settled'
  BY <1>19, Zenon DEF Connect, Settled, TypeOK,
     platformVars, netVars, lateVars, boxVars, ledVars
<1>20. ASSUME Drop
      PROVE  Settled'
  BY <1>20, ZenonT(30) DEF Drop, Disconnect, Settled, TypeOK,
     platformVars, netVars, lateVars, boxVars, ledVars
<1>21. ASSUME Crash
      PROVE  Settled'
  BY <1>21, Zenon DEF Crash, Disconnect, NoRecord, Settled, TypeOK,
     platformVars, netVars, lateVars, boxVars, ledVars
<1>22. ASSUME PlatformRestarts
      PROVE  Settled'
  BY <1>22, ZenonT(30) DEF PlatformRestarts, Settled, TypeOK,
     platformVars, netVars, lateVars, boxVars, ledVars
<1>23. ASSUME RecoverLedgerTasks
      PROVE  Settled'
  BY <1>23, Zenon DEF RecoverLedgerTasks, Settled, TypeOK,
     platformVars, netVars, lateVars, boxVars, ledVars
<1>24. ASSUME link # 0, NEW e \in box[link], HandleResult(e)
      PROVE  Settled'
  <2>1. e \in Events
    BY <1>24, ClientsAssumption DEF TypeOK, Clients
  <2>2. \A u \in Tasks : status'[u] # "canceling"
    BY <1>24, ZenonT(30) DEF HandleResult, Settle, SetStatus, Settled, TypeOK
  <2>3. ~Conflicts(e.task, e.outcome) => status'[e.task] \in Terminal
    BY <1>24, <2>1 DEF HandleResult, Settle, Ignored, SetStatus, Settled, Events,
     Terminal, TypeOK
  <2>4. \A m \in toAgent' : m.type = "ack" => status'[m.event.task] \in Terminal
    BY <1>0, <1>24, <2>1, <2>3 DEF HandleResult, Events, Dispatch, Answer, Settled,
     TypeOK
  <2>5. QED
    BY <1>0, <1>24, <2>2, <2>4, Zenon DEF HandleResult, Settled, TypeOK, platformVars,
     netVars, lateVars, boxVars, ledVars
<1>25. ASSUME NEW e \in lateResult, HandleLateResult(e)
      PROVE  Settled'
  <2>1. \A u \in Tasks : status'[u] # "canceling"
    BY <1>25, ZenonT(30) DEF HandleLateResult, Settle, SetStatus, Settled, TypeOK
  <2>2. QED
    BY <1>0, <1>25, <2>1 DEF HandleLateResult, Events, Dispatch, Answer, Settled,
     TypeOK, platformVars, netVars, lateVars, boxVars, ledVars
<1>26. ASSUME link # 0, NEW m \in toAgent, ReceiveDispatch(m)
      PROVE  Settled'
  BY <1>26, Zenon DEF ReceiveDispatch, Settled, TypeOK,
     platformVars, netVars, lateVars, boxVars, ledVars
<1>27. ASSUME link # 0, NEW m \in toAgent, ReceiveAnswer(m)
      PROVE  Settled'
  <2>1. \A g \in Clients, t \in Tasks : <<g, t>> \in acking' => status[t] \in Terminal
    BY <1>27 DEF ReceiveAnswer, Settled, TypeOK
  <2>2. QED
    BY <1>27, <2>1, Zenon DEF ReceiveAnswer, Settled, TypeOK, platformVars, netVars,
     lateVars, boxVars, ledVars
<1>28. QED
  BY <1>1, <1>2, <1>3, <1>4, <1>5, <1>6, <1>7, <1>8, <1>9, <1>10, <1>11, <1>12,
     <1>13, <1>14, <1>15, <1>16, <1>17, <1>18, <1>19, <1>20, <1>21, <1>22, <1>23,
     <1>24, <1>25, <1>26, <1>27, Zenon DEF Next, Execute


\* Without a force stop, an agent that holds an outcome as acknowledged may
\* forget the task: the platform has ended it.
THEOREM AcknowledgedIsSettled ==
  ASSUME Stoppable = {} PROVE Spec => []AckedMeansSettled
<1>1. Init => Settled
  BY DEF Init, Settled, NoRecord
<1>2. TypeOK /\ Known /\ Settled /\ [Next]_vars => Settled'
  <2>1. ASSUME TypeOK, Known, Settled, Next PROVE Settled'
    BY <2>1, SettledStep, Zenon
  <2>2. ASSUME Settled, UNCHANGED vars PROVE Settled'
    BY <2>2, Zenon DEF vars, platformVars, netVars, lateVars, boxVars, ledVars, Settled
  <2>3. QED
    BY <2>1, <2>2, Zenon
<1>3. Settled => AckedMeansSettled
  BY Zenon DEF Settled, AckedMeansSettled
<1>4. QED
  BY <1>1, <1>2, <1>3, Invariance, PTL DEF Spec

(***************************************************************************)
(* What the agent's files keep where a process lives no longer than its    *)
(* connection.  Then one client at a time writes the files, and they are   *)
(* the copies of the connected one.                                        *)
(***************************************************************************)
Alone ==
  /\ link # 0 => box[link] = diskBox /\ led[link] = diskLed
  /\ \A g \in Clients, t \in Tasks, r \in Routines : work[<<g, t, r>>] # "none" => g = link
  /\ \A g \in Clients, t \in Tasks : <<g, t>> \in acking => g = link

\* A step removes an event only for its answer, and an open record only for an
\* acknowledged outcome.
FilesKept ==
  /\ \A e \in diskBox \ diskBox' : \E m \in toAgent : m.type # "dispatch" /\ m.event = e
  /\ \A t \in Tasks : diskLed[t] = "open" /\ diskLed'[t] # "open" =>
       \E g \in Clients : <<g, t>> \in acking

\* The client that writes is the connected one.
LEMMA WriterIsLinked ==
  ASSUME TypeOK, Alone, NEW g \in Clients, g = link
  PROVE  box[g] = diskBox /\ led[g] = diskLed /\ link # 0
BY ClientsAssumption DEF Alone, Clients, TypeOK

\* Only the ledger is written, by the connected client.
LEMMA LedgerKeeps ==
  ASSUME TypeOK, Alone, NEW g \in Clients, g = link, NEW t \in Tasks, NEW v \in {"open", "acked"},
         SetLedger(g, t, v), v = "acked" => <<g, t>> \in acking, UNCHANGED <<link, box, diskBox>>
  PROVE  (link # 0 => box'[link] = diskBox' /\ led'[link] = diskLed') /\ FilesKept
<1>1. led[g] = diskLed /\ box[g] = diskBox /\ led \in [Clients -> Ledgers] /\ led[g] \in Ledgers
  BY WriterIsLinked, Zenon DEF TypeOK
<1>2. led'[g] = [led[g] EXCEPT ![t] = v] /\ diskLed' = [led[g] EXCEPT ![t] = v]
  BY <1>1, Zenon DEF SetLedger
<1>3. \A u \in Tasks : diskLed'[u] = IF u = t THEN v ELSE diskLed[u]
  BY <1>1, <1>2, Zenon DEF Ledgers
<1> QED
  BY <1>1, <1>2, <1>3, SMTT(30) DEF FilesKept

\* Every step keeps the files and the copies of the connected client equal.
LEMMA AloneStep ==
  ASSUME InProcess = FALSE, TypeOK, Alone, Next PROVE Alone' /\ FilesKept
<1> USE DEF platformVars, netVars, lateVars, boxVars, ledVars
<1>a. /\ work = [j \in Jobs |-> work[j]]
      /\ box = [g \in Clients |-> box[g]] /\ led = [g \in Clients |-> led[g]]
  BY Zenon DEF TypeOK
<1>1. ASSUME NEW t \in Tasks, CreateTask(t)
      PROVE  Alone' /\ FilesKept
  BY <1>1, Zenon DEF CreateTask, Alone, FilesKept
<1>2. ASSUME NEW t \in Tasks, DispatchFails(t)
      PROVE  Alone' /\ FilesKept
  BY <1>2, Zenon DEF DispatchFails, Alone, FilesKept
<1>3. ASSUME NEW t \in Tasks, ResumeQueuedStoragePreflight(t)
      PROVE  Alone' /\ FilesKept
  BY <1>3, Zenon DEF ResumeQueuedStoragePreflight, Alone, FilesKept
<1>4. ASSUME NEW t \in Tasks, ReconcileAbandonedTask(t)
      PROVE  Alone' /\ FilesKept
  BY <1>4, ZenonT(30) DEF ReconcileAbandonedTask, Alone, FilesKept
<1>5. ASSUME NEW t \in Tasks, ForceStop(t)
      PROVE  Alone' /\ FilesKept
  BY <1>5, Zenon DEF ForceStop, Alone, FilesKept
<1>6. ASSUME NEW t \in Tasks, StopSucceeds(t)
      PROVE  Alone' /\ FilesKept
  BY <1>6, Zenon DEF StopSucceeds, Alone, FilesKept
<1>7. ASSUME NEW t \in Tasks, MarkBackupCancelFailed(t)
      PROVE  Alone' /\ FilesKept
  BY <1>7, Zenon DEF MarkBackupCancelFailed, Alone, FilesKept
<1>8. ASSUME NEW t \in Tasks, VeleroFinishes(t)
      PROVE  Alone' /\ FilesKept
  BY <1>8, Zenon DEF VeleroFinishes, Alone, FilesKept
<1>9. ASSUME NEW t \in Tasks, NEW x \in Senders, DispatchTask(x, t)
      PROVE  Alone' /\ FilesKept
  BY <1>9, Zenon DEF DispatchTask, Alone, FilesKept
<1>10. ASSUME NEW t \in Tasks, NEW x \in Senders, MarkDispatched(x, t)
      PROVE  Alone' /\ FilesKept
  BY <1>10, ZenonT(30) DEF MarkDispatched, Alone, FilesKept
<1>11. ASSUME NEW t \in Tasks, NEW x \in Senders, DispatchWaitsForAgent(x, t)
      PROVE  Alone' /\ FilesKept
  BY <1>11, Zenon DEF DispatchWaitsForAgent, Alone, FilesKept
<1>12. ASSUME NEW t \in Tasks, HandleReport(t)
      PROVE  Alone' /\ FilesKept
  BY <1>12, ZenonT(30) DEF HandleReport, Alone, FilesKept
<1>13. ASSUME NEW t \in Tasks, HandleLateReport(t)
      PROVE  Alone' /\ FilesKept
  BY <1>13, Zenon DEF HandleLateReport, Alone, FilesKept
<1>14. ASSUME NEW t \in Tasks, NEW g \in Clients, NEW r \in Routines, RecordTask(g, t, r)
      PROVE  Alone' /\ FilesKept
  <2>1. g = link
    BY <1>14, Zenon DEF RecordTask, Alone
  <2>2. \A h \in Clients, u \in Tasks, q \in Routines : work'[<<h, u, q>>] # "none" => h = link
    BY <1>a, <1>14, <2>1, Zenon DEF RecordTask, Alone, Jobs
  <2>3. QED
    BY <1>14, <2>1, <2>2, LedgerKeeps, Zenon DEF RecordTask, Alone
<1>15. ASSUME NEW t \in Tasks, NEW g \in Clients, NEW r \in Routines, SendTaskAccepted(g, t, r)
      PROVE  Alone' /\ FilesKept
  <2>1. g = link
    BY <1>15, Zenon DEF SendTaskAccepted, Alone
  <2>2. \A h \in Clients, u \in Tasks, q \in Routines : work'[<<h, u, q>>] # "none" => h = link
    BY <1>a, <1>15, <2>1, Zenon DEF SendTaskAccepted, Alone, Jobs
  <2>3. led[g] = diskLed
    BY <2>1, WriterIsLinked, Zenon
  <2>4. QED
    BY <1>15, <2>1, <2>2, <2>3, Zenon DEF SendTaskAccepted, Alone, FilesKept
<1>16. ASSUME NEW t \in Tasks, NEW g \in Clients, NEW r \in Routines, Submit(g, t, r)
      PROVE  Alone' /\ FilesKept
  <2>1. g = link
    BY <1>16, Zenon DEF Submit, Alone
  <2>2. \A h \in Clients, u \in Tasks, q \in Routines : work'[<<h, u, q>>] # "none" => h = link
    BY <1>a, <1>16, <2>1, Zenon DEF Submit, Alone, Jobs
  <2>3. QED
    BY <1>16, <2>2, Zenon DEF Submit, Alone, FilesKept
<1>17. ASSUME NEW t \in Tasks, NEW g \in Clients, NEW r \in Routines, ReportOutcome(g, t, r)
      PROVE  Alone' /\ FilesKept
  <2>1. g = link
    BY <1>17, Zenon DEF ReportOutcome, Alone, Observes
  <2>2. \A h \in Clients, u \in Tasks, q \in Routines : work'[<<h, u, q>>] # "none" => h = link
    BY <1>a, <1>17, <2>1, ZenonT(30) DEF ReportOutcome, Alone, Jobs
  <2>3. PICK e : SendReliableEvent(g, e)
    BY <1>17, Zenon DEF ReportOutcome
  <2>4. box'[link] = diskBox' /\ diskBox \subseteq diskBox'
    BY <1>a, <2>1, <2>3, WriterIsLinked, Zenon DEF SendReliableEvent
  <2>5. QED
    BY <1>17, <2>2, <2>4, Zenon DEF ReportOutcome, Alone, FilesKept
<1>18. ASSUME NEW t \in Tasks, NEW g \in Clients, MarkTerminalAcked(g, t)
      PROVE  Alone' /\ FilesKept
  <2>1. g = link /\ <<g, t>> \in acking
    BY <1>18, Zenon DEF MarkTerminalAcked, Alone
  <2>2. CASE UNCHANGED ledVars
    BY <1>18, <2>2, Zenon DEF MarkTerminalAcked, Alone, FilesKept
  <2>3. CASE SetLedger(g, t, "acked")
    BY <1>18, <2>1, <2>3, LedgerKeeps, Zenon DEF MarkTerminalAcked, Alone
  <2>4. QED
    BY <1>18, <2>2, <2>3, Zenon DEF MarkTerminalAcked
<1>19. ASSUME Connect
      PROVE  Alone' /\ FilesKept
  <2>1. cur + 1 \in Clients
    BY <1>19, ClientsAssumption DEF Connect, Clients, TypeOK
  <2>2. box'[link'] = diskBox /\ led'[link'] = diskLed
    BY <1>a, <1>19, <2>1, Zenon DEF Connect
  <2>3. link = 0 /\ 0 \notin Clients
    BY <1>19 DEF Connect, Clients
  <2>4. QED
    BY <1>19, <2>2, <2>3, Zenon DEF Connect, Alone, FilesKept
<1>20. ASSUME Drop
      PROVE  Alone' /\ FilesKept
  BY <1>20, Zenon DEF Drop
<1>21. ASSUME Crash
      PROVE  Alone' /\ FilesKept
  <2>1. \A g \in Clients, t \in Tasks, r \in Routines : work'[<<g, t, r>>] = "none"
    BY <1>21, Zenon DEF Crash, Jobs
  <2>2. QED
    BY <1>21, <2>1, Zenon DEF Crash, Disconnect, Alone, FilesKept
<1>22. ASSUME PlatformRestarts
      PROVE  Alone' /\ FilesKept
  BY <1>22, Zenon DEF PlatformRestarts, Alone, FilesKept
<1>23. ASSUME RecoverLedgerTasks
      PROVE  Alone' /\ FilesKept
  <2>1. \A g \in Clients, t \in Tasks, r \in Routines :
          g # link => work'[<<g, t, r>>] = work[<<g, t, r>>]
    BY <1>23, Zenon DEF RecoverLedgerTasks, Jobs
  <2>2. UNCHANGED <<link, box, diskBox, led, diskLed, acking>>
    BY <1>23, Zenon DEF RecoverLedgerTasks
  <2>3. QED
    BY <2>1, <2>2, Zenon DEF Alone, FilesKept
<1>24. ASSUME link # 0, NEW e \in box[link], HandleResult(e)
      PROVE  Alone' /\ FilesKept
  BY <1>24, Zenon DEF HandleResult, Alone, FilesKept
<1>25. ASSUME NEW e \in lateResult, HandleLateResult(e)
      PROVE  Alone' /\ FilesKept
  BY <1>25, Zenon DEF HandleLateResult, Alone, FilesKept
<1>26. ASSUME link # 0, NEW m \in toAgent, ReceiveDispatch(m)
      PROVE  Alone' /\ FilesKept
  <2>1. \A g \in Clients, t \in Tasks, r \in Routines :
          g # link => work'[<<g, t, r>>] = work[<<g, t, r>>]
    BY <1>a, <1>26, Zenon DEF ReceiveDispatch, Jobs
  <2>2. UNCHANGED <<link, box, diskBox, led, diskLed, acking>>
    BY <1>26, Zenon DEF ReceiveDispatch
  <2>3. QED
    BY <2>1, <2>2, Zenon DEF Alone, FilesKept
<1>27. ASSUME link # 0, NEW m \in toAgent, ReceiveAnswer(m)
      PROVE  Alone' /\ FilesKept
  <2>1. link \in Clients
    BY <1>27 DEF TypeOK, Clients
  <2>2. CASE UNCHANGED <<box, diskBox, acking>>
    BY <1>27, <2>2, Zenon DEF ReceiveAnswer, Alone, FilesKept
  <2>3. CASE box' = [box EXCEPT ![link] = @ \ {m.event}] /\ diskBox' = box[link] \ {m.event}
    <3>1. box'[link] = diskBox' /\ box[link] = diskBox
      BY <1>a, <1>27, <2>1, <2>3, Zenon DEF Alone
    <3>2. \A e \in diskBox \ diskBox' : e = m.event /\ m.type # "dispatch"
      BY <1>27, <2>3, <3>1, Zenon DEF ReceiveAnswer
    <3>3. \A g \in Clients, t \in Tasks : <<g, t>> \in acking' => <<g, t>> \in acking \/ g = link
      BY <1>27 DEF ReceiveAnswer
    <3>4. QED
      BY <1>27, <3>1, <3>2, <3>3, Zenon DEF ReceiveAnswer, Alone, FilesKept
  <2>4. QED
    BY <1>27, <2>2, <2>3, Zenon DEF ReceiveAnswer
<1>28. QED
  BY <1>1, <1>2, <1>3, <1>4, <1>5, <1>6, <1>7, <1>8, <1>9, <1>10, <1>11, <1>12,
     <1>13, <1>14, <1>15, <1>16, <1>17, <1>18, <1>19, <1>20, <1>21, <1>22, <1>23,
     <1>24, <1>25, <1>26, <1>27, Zenon DEF Next, Execute

\* An event is in the agent's file until the platform has answered it, for every
\* set of tasks and every number of restarts, where a process lives no longer
\* than its connection (sendReliableEvent, acknowledge, remove).
THEOREM ReportsStay ==
  ASSUME InProcess = FALSE PROVE Spec => ReportsAreKept
<1>1. Init => Alone
  <2>1. ASSUME Init PROVE \A g \in Clients, t \in Tasks, r \in Routines : work[<<g, t, r>>] = "none"
    BY <2>1, Zenon DEF Init, Jobs
  <2>2. QED
    BY <2>1, Zenon DEF Init, Alone
<1>2. TypeOK /\ Alone /\ [Next]_vars => Alone'
  <2>1. ASSUME TypeOK, Alone, Next PROVE Alone'
    BY <2>1, AloneStep, Zenon
  <2>2. ASSUME Alone, UNCHANGED vars PROVE Alone'
    BY <2>2, Zenon DEF vars, platformVars, netVars, lateVars, boxVars, ledVars, Alone
  <2>3. QED
    BY <2>1, <2>2, Zenon
<1>3. TypeOK /\ Alone /\ [Next]_vars =>
        [\A e \in diskBox \ diskBox' : \E m \in toAgent : m.type # "dispatch" /\ m.event = e]_vars
  BY AloneStep, Zenon DEF FilesKept
<1>4. Spec => [][Next]_vars
  BY Zenon DEF Spec
<1>5. Spec => [](TypeOK /\ Alone)
  BY <1>1, <1>2, TypeCorrect, PTL DEF Spec
<1>6. QED
  BY <1>3, <1>4, <1>5, PTL DEF ReportsAreKept

\* The platform needs nothing more of the task: it has ended, or a force stop
\* ends it.
Over(t) == status[t] \in Terminal \/ stop[t] # "none"

\* A restarted agent finds the task in its files.
Held(t) == diskLed[t] = "open" \/ \E e \in diskBox : e.task = t

\* The agent has recorded the task, or the platform has read, or may still read,
\* that it did.
Underway(t) ==
  \/ status[t] = "running" \/ t \in lateReport
  \/ \E g \in Clients, r \in Routines : work[<<g, t, r>>] \in {"recorded", "accepted", "polling"}

\* Whatever lets the agent forget a task is about one that is over, so the files
\* hold every other task that is under way.
Durable ==
  /\ \A t \in Tasks : status[t] = "canceling" => stop[t] # "none"
  /\ \A m \in toAgent : m.type # "dispatch" => Over(m.event.task)
  /\ \A g \in Clients, t \in Tasks : <<g, t>> \in acking => Over(t)
  /\ \A t \in Recorded : Underway(t) => Held(t) \/ Over(t)

\* What a step may add to the parts of Durable, and that a stop is not undone.
Adds ==
  /\ \A t \in Tasks : stop[t] # "none" => stop'[t] # "none"
  /\ \A t \in Tasks : status'[t] = "canceling" => status[t] = "canceling" \/ stop'[t] # "none"
  /\ \A m \in toAgent' : m.type # "dispatch" => m \in toAgent \/ Over(m.event.task)'
  /\ \A g \in Clients, t \in Tasks : <<g, t>> \in acking' => <<g, t>> \in acking \/ Over(t)
  /\ \A t \in Recorded : Underway(t)' => Underway(t) \/ Held(t)' \/ Over(t)'

\* Every step adds only that.
LEMMA AddsStep ==
  ASSUME InProcess = FALSE, TypeOK, Alone, Durable, Next PROVE Adds
<1> USE DEF platformVars, netVars, lateVars, boxVars, ledVars
<1>a. /\ status = [t \in Tasks |-> status[t]] /\ stop = [t \in Tasks |-> stop[t]]
      /\ work = [j \in Jobs |-> work[j]] /\ led \in [Clients -> Ledgers]
      /\ lateResult \subseteq Events /\ Recorded \subseteq Tasks
  BY TasksAssumption, Zenon DEF TypeOK, Recorded
<1>b. link # 0 => link \in Clients /\ box[link] \subseteq Events
  BY DEF TypeOK, Clients
<1>1. ASSUME NEW t \in Tasks, CreateTask(t)
      PROVE  Adds
  <2>1. \A u \in Tasks : /\ status'[u] = "running" => status[u] = "running"
                         /\ status'[u] = "canceling" => status[u] = "canceling" \/ stop'[u] # "none"
                         /\ stop[u] # "none" => stop'[u] # "none"
    BY <1>a, <1>1, Zenon DEF CreateTask
  <2>2. QED
    BY <1>a, <1>1, <2>1, Zenon DEF CreateTask, Adds, Underway
<1>2. ASSUME NEW t \in Tasks, DispatchFails(t)
      PROVE  Adds
  <2>1. \A u \in Tasks : /\ status'[u] = "running" => status[u] = "running"
                         /\ status'[u] = "canceling" => status[u] = "canceling" \/ stop'[u] # "none"
                         /\ stop[u] # "none" => stop'[u] # "none"
    BY <1>a, <1>2, Zenon DEF DispatchFails, SetStatus, Terminal
  <2>2. QED
    BY <1>a, <1>2, <2>1, Zenon DEF DispatchFails, Adds, Underway
<1>3. ASSUME NEW t \in Tasks, ResumeQueuedStoragePreflight(t)
      PROVE  Adds
  <2>1. \A u \in Tasks : Underway(u)' => Underway(u)
    BY <1>3, Zenon DEF ResumeQueuedStoragePreflight, Underway
  <2>2. QED
    BY <1>a, <1>3, <2>1, Zenon DEF ResumeQueuedStoragePreflight, Adds
<1>4. ASSUME NEW t \in Tasks, ReconcileAbandonedTask(t)
      PROVE  Adds
  <2>1. \A u \in Tasks : /\ status'[u] = "running" => status[u] = "running"
                         /\ status'[u] = "canceling" => status[u] = "canceling" \/ stop'[u] # "none"
                         /\ stop[u] # "none" => stop'[u] # "none"
    BY <1>a, <1>4, Zenon DEF ReconcileAbandonedTask, SetStatus, Terminal
  <2>2. QED
    BY <1>a, <1>4, <2>1, SMTT(30) DEF ReconcileAbandonedTask, Adds, Underway
<1>5. ASSUME NEW t \in Tasks, ForceStop(t)
      PROVE  Adds
  <2>1. \A u \in Tasks : /\ status'[u] = "running" => status[u] = "running"
                         /\ status'[u] = "canceling" => status[u] = "canceling" \/ stop'[u] # "none"
                         /\ stop[u] # "none" => stop'[u] # "none"
    BY <1>a, <1>5, Zenon DEF ForceStop, SetStatus, Terminal
  <2>2. QED
    BY <1>a, <1>5, <2>1, Zenon DEF ForceStop, Adds, Underway
<1>6. ASSUME NEW t \in Tasks, StopSucceeds(t)
      PROVE  Adds
  <2>1. \A u \in Tasks : /\ status'[u] = "running" => status[u] = "running"
                         /\ status'[u] = "canceling" => status[u] = "canceling" \/ stop'[u] # "none"
                         /\ stop[u] # "none" => stop'[u] # "none"
    BY <1>a, <1>6, Zenon DEF StopSucceeds, SetStatus, Terminal
  <2>2. QED
    BY <1>a, <1>6, <2>1, Zenon DEF StopSucceeds, Adds, Underway
<1>7. ASSUME NEW t \in Tasks, MarkBackupCancelFailed(t)
      PROVE  Adds
  <2>1. \A u \in Tasks : /\ status'[u] = "running" => status[u] = "running" \/ stop'[u] # "none"
                         /\ status'[u] = "canceling" => status[u] = "canceling" \/ stop'[u] # "none"
                         /\ stop[u] # "none" => stop'[u] # "none"
    BY <1>a, <1>7, Zenon DEF MarkBackupCancelFailed, SetStatus, Terminal
  <2>2. QED
    BY <1>a, <1>7, <2>1, Zenon DEF MarkBackupCancelFailed, Adds, Underway, Over
<1>8. ASSUME NEW t \in Tasks, VeleroFinishes(t)
      PROVE  Adds
  <2>1. \A u \in Tasks : Underway(u)' => Underway(u)
    BY <1>8, Zenon DEF VeleroFinishes, Underway
  <2>2. QED
    BY <1>a, <1>8, <2>1, Zenon DEF VeleroFinishes, Adds
<1>9. ASSUME NEW t \in Tasks, NEW x \in Senders, DispatchTask(x, t)
      PROVE  Adds
  <2>1. \A u \in Tasks : Underway(u)' => Underway(u)
    BY <1>9, ZenonT(30) DEF DispatchTask, Underway
  <2>2. QED
    BY <1>a, <1>9, <2>1 DEF DispatchTask, Adds
<1>10. ASSUME NEW t \in Tasks, NEW x \in Senders, MarkDispatched(x, t)
      PROVE  Adds
  <2>1. \A u \in Tasks : /\ status'[u] = "running" => status[u] = "running"
                         /\ status'[u] = "canceling" => status[u] = "canceling" \/ stop'[u] # "none"
                         /\ stop[u] # "none" => stop'[u] # "none"
    BY <1>a, <1>10, Zenon DEF MarkDispatched, SetStatus, Terminal
  <2>2. QED
    BY <1>a, <1>10, <2>1, Zenon DEF MarkDispatched, Adds, Underway
<1>11. ASSUME NEW t \in Tasks, NEW x \in Senders, DispatchWaitsForAgent(x, t)
      PROVE  Adds
  <2>1. \A u \in Tasks : /\ status'[u] = "running" => status[u] = "running"
                         /\ status'[u] = "canceling" => status[u] = "canceling" \/ stop'[u] # "none"
                         /\ stop[u] # "none" => stop'[u] # "none"
    BY <1>a, <1>11, Zenon DEF DispatchWaitsForAgent, SetStatus, Terminal
  <2>2. QED
    BY <1>a, <1>11, <2>1, Zenon DEF DispatchWaitsForAgent, Adds, Underway
<1>12. ASSUME NEW t \in Tasks, HandleReport(t)
      PROVE  Adds
  <2>1. Underway(t)
    BY <1>b, <1>12, Zenon DEF HandleReport, Reporting, Reading, Underway
  <2>2. \A u \in Tasks : /\ u # t => status'[u] = status[u]
                         /\ status'[u] = "canceling" => status[u] = "canceling"
    BY <1>a, <1>12, Zenon DEF HandleReport, SetStatus, Terminal
  <2>3. \A u \in Tasks : u # t => (Underway(u)' => Underway(u))
    BY <1>12, <2>2, Zenon DEF HandleReport, Underway
  <2>4. QED
    BY <1>a, <1>12, <2>1, <2>2, <2>3, Zenon DEF HandleReport, Adds
<1>13. ASSUME NEW t \in Tasks, HandleLateReport(t)
      PROVE  Adds
  <2>1. Underway(t)
    BY <1>b, <1>13, Zenon DEF HandleLateReport, Underway
  <2>2. \A u \in Tasks : /\ u # t => status'[u] = status[u]
                         /\ status'[u] = "canceling" => status[u] = "canceling"
    BY <1>a, <1>13, Zenon DEF HandleLateReport, SetStatus, Terminal
  <2>3. \A u \in Tasks : u # t => (Underway(u)' => Underway(u))
    BY <1>13, <2>2, ZenonT(30) DEF HandleLateReport, Underway
  <2>4. QED
    BY <1>a, <1>13, <2>1, <2>2, <2>3, Zenon DEF HandleLateReport, Adds
<1>14. ASSUME NEW t \in Tasks, NEW g \in Clients, NEW r \in Routines, RecordTask(g, t, r)
      PROVE  Adds
  <2>1. Held(t)'
    <3>1. diskLed'[t] = "open"
      BY <1>a, <1>14, Zenon DEF RecordTask, SetLedger, Ledgers
    <3>2. QED
      BY <3>1, Zenon DEF Held
  <2>2. \A h \in Clients, u \in Tasks, q \in Routines :
          u # t => work'[<<h, u, q>>] = work[<<h, u, q>>]
    BY <1>a, <1>14, Zenon DEF RecordTask, Jobs
  <2>3. \A u \in Tasks : u # t => (Underway(u)' => Underway(u))
    BY <1>14, <2>2, Zenon DEF RecordTask, Underway
  <2>4. QED
    BY <1>a, <1>14, <2>1, <2>3, Zenon DEF RecordTask, Adds
<1>15. ASSUME NEW t \in Tasks, NEW g \in Clients, NEW r \in Routines, SendTaskAccepted(g, t, r)
      PROVE  Adds
  <2>1. t \in Recorded => Underway(t)
    BY <1>15, Zenon DEF SendTaskAccepted, Underway
  <2>2. \A h \in Clients, u \in Tasks, q \in Routines :
          u # t => work'[<<h, u, q>>] = work[<<h, u, q>>]
    BY <1>a, <1>15, Zenon DEF SendTaskAccepted, Jobs
  <2>3. \A u \in Tasks : u # t => (Underway(u)' => Underway(u))
    BY <1>15, <2>2, Zenon DEF SendTaskAccepted, Underway
  <2>4. QED
    BY <1>a, <1>15, <2>1, <2>3, Zenon DEF SendTaskAccepted, Adds
<1>16. ASSUME NEW t \in Tasks, NEW g \in Clients, NEW r \in Routines, Submit(g, t, r)
      PROVE  Adds
  <2>1. Underway(t)
    BY <1>16, Zenon DEF Submit, Underway
  <2>2. \A h \in Clients, u \in Tasks, q \in Routines :
          u # t => work'[<<h, u, q>>] = work[<<h, u, q>>]
    BY <1>a, <1>16, Zenon DEF Submit, Jobs
  <2>3. \A u \in Tasks : u # t => (Underway(u)' => Underway(u))
    BY <1>16, <2>2, Zenon DEF Submit, Underway
  <2>4. QED
    BY <1>a, <1>16, <2>1, <2>3, Zenon DEF Submit, Adds
<1>17. ASSUME NEW t \in Tasks, NEW g \in Clients, NEW r \in Routines, ReportOutcome(g, t, r)
      PROVE  Adds
  <2>1. Held(t)'
    <3>1. PICK o : SendReliableEvent(g, [task |-> t, outcome |-> o])
      BY <1>17, Zenon DEF ReportOutcome
    <3>2. [task |-> t, outcome |-> o] \in diskBox'
      BY <3>1, Zenon DEF SendReliableEvent
    <3>3. QED
      BY <3>2, Zenon DEF Held
  <2>2. \A h \in Clients, u \in Tasks, q \in Routines :
          u # t => work'[<<h, u, q>>] = work[<<h, u, q>>]
    BY <1>a, <1>17, Zenon DEF ReportOutcome, Jobs
  <2>3. \A u \in Tasks : u # t => (Underway(u)' => Underway(u))
    BY <1>17, <2>2, Zenon DEF ReportOutcome, Underway
  <2>4. QED
    BY <1>a, <1>17, <2>1, <2>3, Zenon DEF ReportOutcome, Adds
<1>18. ASSUME NEW t \in Tasks, NEW g \in Clients, MarkTerminalAcked(g, t)
      PROVE  Adds
  <2>1. \A u \in Tasks : Underway(u)' => Underway(u)
    BY <1>18, Zenon DEF MarkTerminalAcked, Underway
  <2>2. QED
    BY <1>a, <1>18, <2>1, Zenon DEF MarkTerminalAcked, Adds
<1>19. ASSUME Connect
      PROVE  Adds
  <2>1. \A u \in Tasks : Underway(u)' => Underway(u)
    BY <1>19, Zenon DEF Connect, Underway
  <2>2. QED
    BY <1>a, <1>19, <2>1, Zenon DEF Connect, Adds
<1>20. ASSUME Drop
      PROVE  Adds
  BY <1>20, Zenon DEF Drop
<1>21. ASSUME Crash
      PROVE  Adds
  <2>1. \A t \in Tasks : t \in lateReport' => Underway(t)
    BY <1>b, <1>21, Zenon DEF Crash, Disconnect, Reporting, Underway
  <2>2. \A g \in Clients, t \in Tasks, r \in Routines : work'[<<g, t, r>>] = "none"
    BY <1>21, Zenon DEF Crash, Jobs
  <2>3. \A t \in Tasks : Underway(t)' => Underway(t)
    BY <1>21, <2>1, <2>2, Zenon DEF Crash, Underway
  <2>4. QED
    BY <1>a, <1>21, <2>3, Zenon DEF Crash, Disconnect, Adds
<1>22. ASSUME PlatformRestarts
      PROVE  Adds
  <2>1. \A u \in Tasks : Underway(u)' => Underway(u)
    BY <1>22, ZenonT(30) DEF PlatformRestarts, Underway
  <2>2. QED
    BY <1>a, <1>22, <2>1, Zenon DEF PlatformRestarts, Adds
<1>23. ASSUME RecoverLedgerTasks
      PROVE  Adds
  <2>1. \A g \in Clients, t \in Tasks, r \in Routines :
          \/ work'[<<g, t, r>>] = work[<<g, t, r>>]
          \/ diskLed'[t] = "open"
    BY <1>23, ZenonT(30) DEF RecoverLedgerTasks, Alone, Jobs
  <2>2. \A t \in Tasks : Underway(t)' => Underway(t) \/ Held(t)'
    BY <1>23, <2>1, ZenonT(30) DEF RecoverLedgerTasks, Underway, Held
  <2>3. QED
    BY <1>a, <1>23, <2>2, Zenon DEF RecoverLedgerTasks, Adds
<1>24. ASSUME link # 0, NEW e \in box[link], HandleResult(e)
      PROVE  Adds
  <2>1. e \in Events /\ e.task \in Tasks
    BY <1>a, <1>b, <1>24, Zenon DEF Events
  <2>2. \A u \in Tasks : /\ status'[u] = "canceling" => status[u] = "canceling"
                         /\ status'[u] = "running" => status[u] = "running"
    BY <1>a, <1>24, Zenon DEF HandleResult, Settle, SetStatus, Terminal
  <2>3. \A u \in Tasks : Underway(u)' => Underway(u)
    BY <1>24, <2>2, ZenonT(30) DEF HandleResult, Underway
  <2>4. Over(e.task)'
    BY <1>a, <1>24, <2>1, Zenon DEF HandleResult, Settle, Conflicts, Ignored, SetStatus, Terminal,
       Durable, Over
  <2>5. QED
    BY <1>a, <1>24, <2>2, <2>3, <2>4 DEF HandleResult, Adds
<1>25. ASSUME NEW e \in lateResult, HandleLateResult(e)
      PROVE  Adds
  <2>1. e \in Events /\ e.task \in Tasks
    BY <1>a, <1>b, <1>25, Zenon DEF Events
  <2>2. \A u \in Tasks : /\ status'[u] = "canceling" => status[u] = "canceling"
                         /\ status'[u] = "running" => status[u] = "running"
    BY <1>a, <1>25, Zenon DEF HandleLateResult, Settle, SetStatus, Terminal
  <2>3. \A u \in Tasks : Underway(u)' => Underway(u)
    BY <1>25, <2>2, Zenon DEF HandleLateResult, Underway
  <2>4. QED
    BY <1>a, <1>25, <2>2, <2>3, Zenon DEF HandleLateResult, Adds
<1>26. ASSUME link # 0, NEW m \in toAgent, ReceiveDispatch(m)
      PROVE  Adds
  <2>1. \A g \in Clients, t \in Tasks, r \in Routines :
          work'[<<g, t, r>>] = work[<<g, t, r>>] \/ work'[<<g, t, r>>] = "received"
    BY <1>a, <1>26, Zenon DEF ReceiveDispatch, Jobs
  <2>2. \A t \in Tasks : Underway(t)' => Underway(t)
    BY <1>26, <2>1, Zenon DEF ReceiveDispatch, Underway
  <2>3. QED
    BY <1>a, <1>26, <2>2, Zenon DEF ReceiveDispatch, Adds
<1>27. ASSUME link # 0, NEW m \in toAgent, ReceiveAnswer(m)
      PROVE  Adds
  <2>1. \A t \in Tasks : Underway(t)' => Underway(t)
    BY <1>27, ZenonT(30) DEF ReceiveAnswer, Underway
  <2>2. Over(m.event.task)
    BY <1>27, Zenon DEF ReceiveAnswer, Durable
  <2>3. QED
    BY <1>a, <1>27, <2>1, <2>2 DEF ReceiveAnswer, Adds
<1>28. QED
  BY <1>1, <1>2, <1>3, <1>4, <1>5, <1>6, <1>7, <1>8, <1>9, <1>10, <1>11, <1>12,
     <1>13, <1>14, <1>15, <1>16, <1>17, <1>18, <1>19, <1>20, <1>21, <1>22, <1>23,
     <1>24, <1>25, <1>26, <1>27, Zenon DEF Next, Execute

\* What it adds keeps the invariant, as the files are kept.
LEMMA DurableFrame ==
  ASSUME TypeOK, Durable, FilesKept, RowStep, Adds PROVE Durable'
<1>1. \A t \in Tasks : Over(t) => Over(t)'
  BY EndedStays, ZenonT(30) DEF Over, Adds
<1>2. \A t \in Tasks : Held(t) => Held(t)' \/ Over(t)
  <2>1. SUFFICES ASSUME NEW t \in Tasks, Held(t) PROVE Held(t)' \/ Over(t)
    OBVIOUS
  <2>2. CASE diskLed[t] = "open"
    BY <2>2, Zenon DEF Held, FilesKept, Durable
  <2>3. ASSUME NEW e \in diskBox, e.task = t PROVE Held(t)' \/ Over(t)
    BY <2>3, Zenon DEF Held, FilesKept, Durable
  <2>4. QED
    BY <2>1, <2>2, <2>3, Zenon DEF Held
<1>3. Recorded \subseteq Tasks
  BY TasksAssumption, Zenon DEF Recorded
<1>4. \A m \in toAgent : m.type # "dispatch" => m.event.task \in Tasks
  BY Zenon DEF TypeOK, Dispatch, Answer, Events
<1>5. \A t \in Tasks : status'[t] = "canceling" => stop'[t] # "none"
  BY Zenon DEF Durable, Adds
<1>6. \A m \in toAgent' : m.type # "dispatch" => Over(m.event.task)'
  BY <1>1, <1>4, ZenonT(30) DEF Durable, Adds
<1>7. \A g \in Clients, t \in Tasks : <<g, t>> \in acking' => Over(t)'
  BY <1>1, Zenon DEF Durable, Adds
<1>8. \A t \in Recorded : Underway(t)' => Held(t)' \/ Over(t)'
  BY <1>1, <1>2, <1>3, Zenon DEF Durable, Adds
<1>9. QED
  BY <1>5, <1>6, <1>7, <1>8, Zenon DEF Durable

\* What the platform holds as running can be found in the agent's files, for
\* every set of tasks and every number of restarts, where a process lives no
\* longer than its connection (UpdateTaskStatus, recordTask, markTerminalAcked).
THEOREM AcceptedStays ==
  ASSUME InProcess = FALSE PROVE Spec => []DeliverySafety
<1>1. Init => Alone /\ Durable
  <2>1. ASSUME Init PROVE \A g \in Clients, t \in Tasks, r \in Routines : work[<<g, t, r>>] = "none"
    BY <2>1, Zenon DEF Init, Jobs
  <2>2. ASSUME Init PROVE \A t \in Tasks : status[t] = "none"
    BY <2>2, Zenon DEF Init
  <2>3. Recorded \subseteq Tasks
    BY TasksAssumption, Zenon DEF Recorded
  <2>4. ASSUME Init PROVE Durable
    <3>1. \A t \in Recorded : ~ Underway(t)
      BY <2>1, <2>2, <2>3, <2>4, Zenon DEF Init, Underway
    <3>2. QED
      BY <2>2, <2>4, <3>1, Zenon DEF Init, Durable
  <2>5. QED
    BY <2>1, <2>4, Zenon DEF Init, Alone
<1>2. TypeOK /\ Known /\ Alone /\ Durable /\ [Next]_vars => Alone' /\ Durable'
  <2>1. ASSUME TypeOK, Known, Alone, Durable, Next PROVE Alone' /\ Durable'
    BY <2>1, AloneStep, AddsStep, RowsStep, DurableFrame, Zenon
  <2>2. ASSUME Alone, Durable, UNCHANGED vars PROVE Alone' /\ Durable'
    BY <2>2, ZenonT(30) DEF vars, platformVars, netVars, lateVars, boxVars, ledVars, Alone, Durable, Over,
       Held, Underway
  <2>3. QED
    BY <2>1, <2>2, Zenon
<1>3. TypeOK /\ Durable => DeliverySafety
  BY Zenon DEF Durable, Underway, Held, Over, Terminal, DeliverySafety, AcceptedIsDurable
<1>4. QED
  BY <1>1, <1>2, <1>3, Invariance, PTL DEF Spec
=============================================================================
