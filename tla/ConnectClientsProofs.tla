------------------------ MODULE ConnectClientsProofs ------------------------
(* Theorems about ConnectClients for every set of clients and every limit.  *)
EXTENDS ConnectClients, FiniteSetTheorems, TLAPS

\* The clients that hold a place of the group.
Occupied == {c \in Clients : task[c] \in Active}

\* The clients that have been refused, or still may be.
AtRisk == {c \in Clients : dial[c] = "refused" \/ task[c] \in {"checked", "dialing"}}

-----------------------------------------------------------------------------
(* The inductive invariant.  The checked invariants speak of the end of     *)
(* connecting; they follow from what each task has done by the time it      *)
(* stands where it stands.                                                  *)

\* What the task of c has done so far, and what the group knows of it.
TaskInv(c) ==
    /\ task[c] \in {"queued", "launched", "checked"} => dial[c] = "none"
    /\ task[c] = "dialing" => dial[c] # "none"
    /\ task[c] = "dialed" => dial[c] = "accepted"
    /\ taskErr[c] # "none" => task[c] \in {"erring", "ending", "finished"}
    /\ task[c] = "erring" => taskErr[c] # "none"
    /\ c \in stored <=> task[c] \in {"ending", "finished"} /\ taskErr[c] = "none"
    /\ c \in stored => dial[c] = "accepted"
    /\ dial[c] = "refused" => task[c] = "dialing" \/ taskErr[c] # "none"
    /\ taskErr[c] # "none" /\ task[c] \in {"ending", "finished"} => groupErr # "none"
    /\ taskErr[c] = "cancelled" => GroupDone

\* Once connecting has succeeded the connections belong to the publish loops.
HandedOver == stage = "returned" /\ result = "ok"

\* The connection of c is live only in the hands of a task that knows of it.
ConnInv(c) ==
    /\ dial[c] = "none" => conn[c] = "none"
    /\ dial[c] = "refused" => conn[c] # "live"
    /\ dial[c] = "pending" => conn[c] # "live"
    /\ dial[c] = "pending" /\ conn[c] = "none" => task[c] = "dialing"
    /\ task[c] = "dialing" /\ dial[c] = "accepted" => conn[c] = "live"
    /\ task[c] = "dialed" => conn[c] = "live"
    /\ taskErr[c] # "none" => conn[c] # "live"
    /\ c \in stored /\ stage \in {"launch", "wait"} => conn[c] = "live"

\* connectClients waits for every task before it says how it went.
StageInv ==
    /\ stage = "wait" => \A c \in Clients : task[c] # "queued"
    /\ stage \in {"tearDown", "returned"} => \A c \in Clients : task[c] = "finished"
    /\ result = "none" <=> stage \in {"launch", "wait"}
    /\ stage = "tearDown" => result # "ok"
    /\ result = "ok" => groupErr = "none"
    /\ stage = "returned" /\ result # "ok" => \A c \in stored : conn[c] # "live"

\* The group's first error is not a cancellation that another error caused.
CauseInv ==
    /\ groupErr = "cancelled" => ctxDone
    /\ groupErr = "failed" => \E c \in Clients : taskErr[c] = "failed"
    /\ result = "cancelled" => ctxDone
    /\ result = "failed" => groupErr = "failed"

\* Places are given back only after the group has been cancelled.
LimitInv == Cardinality(Occupied) <= Limit /\ Cardinality(AtRisk) <= Limit

\* What holds while connecting, and goes on to hold when the publish loops close
\* the connections they were handed.
ConnectInv ==
    /\ TypeOK
    /\ \A c \in Clients : TaskInv(c) /\ ConnInv(c)
    /\ StageInv
    /\ CauseInv
    /\ connected = Cardinality(stored)
    /\ LimitInv

\* Of connectClients itself nothing is closed that it reported as connected.
IInv ==
    /\ ConnectInv
    /\ HandedOver => \A c \in Clients : conn[c] = "live"

-----------------------------------------------------------------------------
(* Sets of clients.                                                        *)

\* Sets of clients have a size, and a smaller set has a smaller one.
LEMMA FewerClients ==
    ASSUME NEW T \in SUBSET Clients, NEW S \in SUBSET T
    PROVE  /\ IsFiniteSet(T) /\ Cardinality(T) \in Nat /\ Cardinality(S) \in Nat
           /\ Cardinality(S) <= Cardinality(T)
<1>1. IsFiniteSet(T)
  BY ClientsAssumption, FS_Subset
<1>2. IsFiniteSet(S) /\ Cardinality(S) <= Cardinality(T)
  BY <1>1, FS_Subset
<1>. QED  BY <1>1, <1>2, FS_CardinalityType

\* The limits hold after a step in which no task takes a place, and no client
\* is put at risk unless the clients at risk all hold places.
LEMMA LimitKept ==
    ASSUME LimitInv, Occupied' \subseteq Occupied,
           AtRisk' \subseteq AtRisk \/ AtRisk' \subseteq Occupied'
    PROVE  LimitInv'
<1>1. /\ Occupied \in SUBSET Clients /\ AtRisk \in SUBSET Clients
      /\ Occupied' \in SUBSET Clients /\ AtRisk' \in SUBSET Clients
  BY DEF Occupied, AtRisk
<1>2. Cardinality(Occupied') <= Limit
  <2>1. /\ Cardinality(Occupied') <= Cardinality(Occupied)
        /\ Cardinality(Occupied') \in Nat /\ Cardinality(Occupied) \in Nat
    BY <1>1, FewerClients
  <2>. QED  BY <2>1, LimitAssumption DEF LimitInv
<1>3. CASE AtRisk' \subseteq AtRisk
  <2>1. /\ Cardinality(AtRisk') <= Cardinality(AtRisk)
        /\ Cardinality(AtRisk') \in Nat /\ Cardinality(AtRisk) \in Nat
    BY <1>1, <1>3, FewerClients
  <2>. QED  BY <1>2, <2>1, LimitAssumption DEF LimitInv
<1>4. CASE AtRisk' \subseteq Occupied'
  <2>1. /\ Cardinality(AtRisk') <= Cardinality(Occupied')
        /\ Cardinality(AtRisk') \in Nat /\ Cardinality(Occupied') \in Nat
    BY <1>1, <1>4, FewerClients
  <2>. QED  BY <1>2, <2>1, LimitAssumption DEF LimitInv
<1>. QED  BY <1>3, <1>4

-----------------------------------------------------------------------------
(* The invariant is inductive.                                             *)

\* The initial states satisfy the invariant.
LEMMA InitInv == Init => IInv
<1>. HAVE Init
<1>. USE DEF Init, InitConnect
<1>1. TypeOK
  BY ClientsAssumption, FS_CardinalityType
  DEF TypeOK, Conns, Dials, Errors, Tasks, Stages, Results
<1>2. \A c \in Clients : TaskInv(c) /\ ConnInv(c)
  BY DEF TaskInv, ConnInv
<1>3. StageInv /\ CauseInv
  BY DEF StageInv, CauseInv
<1>4. LimitInv
  <2>1. Occupied = {} /\ AtRisk = {}
    BY DEF Occupied, AtRisk, Active
  <2>. QED  BY <2>1, FS_EmptySet, LimitAssumption DEF LimitInv
<1>. QED  BY <1>1, <1>2, <1>3, <1>4, FS_EmptySet DEF IInv, ConnectInv, HandedOver

\* What a step leaves of client d as it is needs no second look.
LEMMA OtherClient ==
    ASSUME NEW d \in Clients, TaskInv(d), ConnInv(d),
           task'[d] = task[d], dial'[d] = dial[d], taskErr'[d] = taskErr[d],
           conn'[d] = conn[d], d \in stored' <=> d \in stored,
           stage' \in {"launch", "wait"} => stage \in {"launch", "wait"},
           ctxDone => ctxDone', groupErr # "none" => groupErr' # "none"
    PROVE  TaskInv(d)' /\ ConnInv(d)'
BY DEF TaskInv, ConnInv, GroupDone

\* A step of a task changes nothing of the stage; whoever takes a step has not
\* finished before, so connectClients is still waiting for it.
LEMMA TaskStage ==
    ASSUME ConnectInv, NEW c \in Clients, task[c] # "finished", task[c] # "queued",
           UNCHANGED <<ctxDone, stage, result>>,
           \A d \in Clients \ {c} : task'[d] = task[d],
           task'[c] # "queued"
    PROVE  StageInv' /\ stage \in {"launch", "wait"} /\ result = "none"
<1>1. stage \in {"launch", "wait"} /\ result = "none"
  BY DEF ConnectInv, TypeOK, Stages, StageInv
<1>. QED  BY <1>1 DEF ConnectInv, StageInv

\* Every step of a task preserves the invariant.
LEMMA TaskStepInv ==
    ASSUME ConnectInv, NEW c \in Clients, TaskStep(c)
    PROVE  ConnectInv' /\ stage' # "returned"
<1>. USE DEF Enter, FailWith
<1>1. TypeOK /\ TaskInv(c) /\ ConnInv(c) /\ CauseInv /\ LimitInv
  BY DEF ConnectInv
<1>2. /\ task[c] \notin {"finished", "queued"} /\ task'[c] # "queued"
      /\ \A d \in Clients \ {c} : task'[d] = task[d] /\ taskErr'[d] = taskErr[d]
      /\ UNCHANGED <<ctxDone, stage, result>>
  BY <1>1 DEF TaskStep, CheckPassed, Skip, Dial, DialAccepted, DialRefused, DialCancelled,
     Record, ReportError, Finish, TypeOK
<1>3. StageInv' /\ stage \in {"launch", "wait"} /\ result = "none"
  BY <1>2, TaskStage
<1>4. TypeOK'
  <2>1. CASE Record(c)
    <3>1. stored \cup {c} \in SUBSET Clients /\ c \notin stored
      BY <1>1, <2>1 DEF Record, TaskInv, TypeOK
    <3>2. /\ Cardinality(stored \cup {c}) <= Cardinality(Clients)
          /\ IsFiniteSet(stored) /\ Cardinality(stored) \in Nat
          /\ Cardinality(Clients) \in Nat
      BY <1>1, <3>1, FewerClients DEF TypeOK
    <3>3. Cardinality(stored \cup {c}) = connected + 1
      BY <3>1, <3>2, FS_AddElement DEF ConnectInv
    <3>4. connected' \in 0..Cardinality(Clients)
      BY <1>1, <2>1, <3>2, <3>3 DEF Record, TypeOK
    <3>. QED  BY <1>1, <2>1, <3>1, <3>4 DEF Record, TypeOK, Tasks
  <2>2. CASE ~Record(c)
    BY <1>1, <2>2 DEF TaskStep, CheckPassed, Skip, Dial, DialAccepted, DialRefused,
       DialCancelled, ReportError, Finish, TypeOK, Conns, Dials, Errors, Tasks
  <2>. QED  BY <2>1, <2>2
<1>5. TaskInv(c)' /\ ConnInv(c)'
  BY <1>1, <1>2, <1>3 DEF TaskStep, CheckPassed, Skip, Dial, DialAccepted, DialRefused,
     DialCancelled, Record, ReportError, Finish, TypeOK, TaskInv, ConnInv, GroupDone
<1>6. ASSUME NEW d \in Clients, d # c
      PROVE  TaskInv(d)' /\ ConnInv(d)'
  <2>1. /\ dial'[d] = dial[d] /\ conn'[d] = conn[d] /\ (d \in stored' <=> d \in stored)
        /\ groupErr # "none" => groupErr' # "none"
    BY <1>1, <1>6 DEF TaskStep, CheckPassed, Skip, Dial, DialAccepted, DialRefused,
       DialCancelled, Record, ReportError, Finish, TypeOK
  <2>2. TaskInv(d) /\ ConnInv(d)
    BY DEF ConnectInv
  <2>3. task'[d] = task[d] /\ taskErr'[d] = taskErr[d] /\ stage' = stage /\ ctxDone' = ctxDone
    BY <1>2, <1>6
  <2>. QED  BY <2>1, <2>2, <2>3, OtherClient
<1>7. CauseInv'
  <2>1. \A d \in Clients : taskErr[d] # "none" => taskErr'[d] = taskErr[d]
    BY <1>1 DEF TaskStep, CheckPassed, Skip, Dial, DialAccepted, DialRefused, DialCancelled,
       Record, ReportError, Finish, TypeOK, TaskInv
  <2>2. CASE ReportError(c)
    BY <1>1, <1>3, <2>1, <2>2 DEF ReportError, CauseInv, TaskInv, TypeOK, Errors, GroupDone
  <2>3. CASE ~ReportError(c)
    <3>1. groupErr' = groupErr
      BY <2>3 DEF TaskStep, CheckPassed, Skip, Dial, DialAccepted, DialRefused,
         DialCancelled, Record, Finish
    <3>. QED  BY <1>1, <1>2, <1>3, <2>1, <3>1 DEF CauseInv
  <2>. QED  BY <2>2, <2>3
<1>8. connected' = Cardinality(stored')
  <2>1. CASE Record(c)
    <3>1. IsFiniteSet(stored) /\ c \notin stored
      BY <1>1, <2>1, FewerClients DEF Record, TaskInv, TypeOK
    <3>2. Cardinality(stored \cup {c}) = Cardinality(stored) + 1
      BY <3>1, FS_AddElement
    <3>. QED  BY <2>1, <3>2 DEF ConnectInv, Record
  <2>2. CASE ~Record(c)
    BY <2>2 DEF TaskStep, CheckPassed, Skip, Dial, DialAccepted, DialRefused, DialCancelled,
       ReportError, Finish, ConnectInv
  <2>. QED  BY <2>1, <2>2
<1>9. LimitInv'
  <2>1. Occupied' \subseteq Occupied
    BY <1>1, <1>2 DEF TaskStep, CheckPassed, Skip, Dial, DialAccepted, DialRefused,
       DialCancelled, Record, ReportError, Finish, TypeOK, Occupied, Active, Tasks
  <2>2. CASE CheckPassed(c)
    <3>1. groupErr = "none" /\ \A d \in Clients : TaskInv(d)
      BY <2>2 DEF CheckPassed, GroupDone, TypeOK, ConnectInv
    <3>2. AtRisk' \subseteq Occupied'
      BY <1>1, <2>2, <3>1 DEF CheckPassed, TypeOK, TaskInv, AtRisk, Occupied, Active, Tasks
    <3>. QED  BY <1>1, <2>1, <3>2, LimitKept
  <2>3. CASE ~CheckPassed(c)
    <3>1. AtRisk' \subseteq AtRisk
      BY <1>1, <1>2, <2>3 DEF TaskStep, Skip, Dial, DialAccepted, DialRefused,
         DialCancelled, Record, ReportError, Finish, TypeOK, AtRisk
    <3>. QED  BY <1>1, <2>1, <3>1, LimitKept
  <2>. QED  BY <2>2, <2>3
<1>. QED  BY <1>2, <1>3, <1>4, <1>5, <1>6, <1>7, <1>8, <1>9 DEF ConnectInv

\* Every step of connectClients itself preserves the invariant.
LEMMA GroupStepInv ==
    ASSUME ConnectInv, GroupStep
    PROVE  ConnectInv' /\ (~HandedOver /\ HandedOver' => \A c \in Clients : conn'[c] = "live")
<1>. USE DEF Enter
<1>1. TypeOK /\ StageInv /\ CauseInv /\ LimitInv /\ \A c \in Clients : TaskInv(c) /\ ConnInv(c)
  BY DEF ConnectInv
<1>2. CASE Launch
  <2>1. PICK c \in Clients : /\ task[c] = "queued" /\ task' = [task EXCEPT ![c] = "launched"]
                             /\ UNCHANGED <<ctxDone, conn, dial, taskErr, groupErr, stored,
                                            connected, result>>
    BY <1>2 DEF Launch
  <2>2. stage = "launch" /\ stage' = IF \E d \in Clients : task'[d] = "queued"
                                     THEN "launch" ELSE "wait"
    BY <1>2 DEF Launch
  <2>3. TypeOK'
    BY <1>1, <2>1, <2>2 DEF TypeOK, Tasks, Stages
  <2>4. TaskInv(c)' /\ ConnInv(c)'
    BY <1>1, <2>1, <2>2 DEF TypeOK, TaskInv, ConnInv, GroupDone
  <2>5. ASSUME NEW d \in Clients, d # c
        PROVE  TaskInv(d)' /\ ConnInv(d)'
    <3>1. task'[d] = task[d] /\ (stage' \in {"launch", "wait"} => stage \in {"launch", "wait"})
      BY <1>1, <2>1, <2>2, <2>5 DEF TypeOK
    <3>. QED  BY <1>1, <2>1, <3>1, OtherClient
  <2>6. StageInv' /\ CauseInv' /\ ~HandedOver'
    BY <1>1, <2>1, <2>2 DEF StageInv, CauseInv, HandedOver
  <2>7. LimitInv'
    <3>1. Occupied \in SUBSET Clients /\ Cardinality(Occupied) < Limit
      BY <1>2 DEF Launch, Occupied
    <3>2. Occupied' = Occupied \cup {c} /\ AtRisk' = AtRisk
      BY <1>1, <2>1 DEF TypeOK, Occupied, AtRisk, Active, Tasks
    <3>3. Cardinality(Occupied') <= Cardinality(Occupied) + 1 /\ Cardinality(Occupied) \in Nat
      BY <3>1, <3>2, FewerClients, FS_AddElement
    <3>4. Cardinality(Occupied') \in Nat
      BY FewerClients DEF Occupied
    <3>. QED  BY <1>1, <3>1, <3>2, <3>3, <3>4, LimitAssumption DEF LimitInv
  <2>. QED  BY <2>1, <2>3, <2>4, <2>5, <2>6, <2>7 DEF ConnectInv
<1>3. CASE Wait
  <2>1. /\ stage = "wait" /\ result = "none" /\ \A c \in Clients : task[c] = "finished"
        /\ UNCHANGED <<ctxDone, conn, dial, task, taskErr, groupErr, stored, connected>>
        /\ IF ~GroupDone
           THEN stage' = "returned" /\ result' = "ok"
           ELSE stage' = "tearDown" /\ result' = IF groupErr # "none" THEN groupErr
                                                                      ELSE "cancelled"
    BY <1>1, <1>3 DEF Wait, StageInv
  <2>2. TypeOK'
    BY <1>1, <2>1 DEF TypeOK, Stages, Results, Errors
  <2>3. ASSUME NEW c \in Clients
        PROVE  TaskInv(c)' /\ ConnInv(c)'
    BY <1>1, <2>1, OtherClient
  <2>4. StageInv' /\ CauseInv'
    BY <1>1, <2>1 DEF StageInv, CauseInv, TypeOK, Errors, GroupDone
  <2>5. LimitInv'
    BY <1>1, <2>1 DEF LimitInv, Occupied, AtRisk
  <2>6. ASSUME HandedOver', NEW c \in Clients
        PROVE  conn'[c] = "live"
    BY <1>1, <2>1, <2>6 DEF HandedOver, TaskInv, ConnInv, GroupDone
  <2>. QED  BY <2>1, <2>2, <2>3, <2>4, <2>5, <2>6 DEF ConnectInv
<1>4. CASE DisconnectNext
  <2>1. PICK c \in stored : conn' = [conn EXCEPT ![c] = "closed"]
    BY <1>4 DEF DisconnectNext
  <2>2. stage = "tearDown" /\ UNCHANGED <<ctxDone, connectVars>> /\ c \in Clients
    BY <1>1, <1>4 DEF DisconnectNext, TypeOK
  <2>3. TypeOK'
    BY <1>1, <2>1, <2>2 DEF TypeOK, connectVars, Conns
  <2>4. ASSUME NEW d \in Clients
        PROVE  TaskInv(d)' /\ ConnInv(d)'
    BY <1>1, <2>1, <2>2 DEF TypeOK, connectVars, StageInv, TaskInv, ConnInv, GroupDone
  <2>5. StageInv' /\ CauseInv' /\ ~HandedOver'
    BY <1>1, <2>2 DEF StageInv, CauseInv, HandedOver, connectVars
  <2>6. LimitInv'
    BY <1>1, <2>2 DEF LimitInv, Occupied, AtRisk, connectVars
  <2>. QED  BY <2>2, <2>3, <2>4, <2>5, <2>6 DEF ConnectInv, connectVars
<1>5. CASE DisconnectedAll
  <2>1. /\ stage = "tearDown" /\ stage' = "returned" /\ \A c \in stored : conn[c] # "live"
        /\ UNCHANGED <<ctxDone, conn, dial, task, taskErr, groupErr, stored, connected, result>>
    BY <1>5 DEF DisconnectedAll
  <2>2. TypeOK'
    BY <1>1, <2>1 DEF TypeOK, Stages
  <2>3. ASSUME NEW c \in Clients
        PROVE  TaskInv(c)' /\ ConnInv(c)'
    BY <1>1, <2>1, OtherClient
  <2>4. StageInv' /\ CauseInv' /\ ~HandedOver'
    BY <1>1, <2>1 DEF StageInv, CauseInv, HandedOver
  <2>5. LimitInv'
    BY <1>1, <2>1 DEF LimitInv, Occupied, AtRisk
  <2>. QED  BY <2>1, <2>2, <2>3, <2>4, <2>5 DEF ConnectInv
<1>. QED  BY <1>2, <1>3, <1>4, <1>5 DEF GroupStep

\* The broker's answer to one dial preserves the invariant.
LEMMA BrokerInv ==
    ASSUME ConnectInv, NEW c \in Clients, BrokerAccepts(c) \/ BrokerRefuses(c)
    PROVE  ConnectInv' /\ HandedOver' = HandedOver /\ ~HandedOver
<1>1. TypeOK /\ StageInv /\ CauseInv /\ LimitInv /\ TaskInv(c) /\ ConnInv(c)
  BY DEF ConnectInv
<1>2. /\ task[c] = "dialing" /\ dial[c] = "pending" /\ conn[c] = "none"
      /\ UNCHANGED <<ctxDone, task, taskErr, groupErr, stored, connected, stage, result>>
      /\ \A d \in Clients \ {c} : dial'[d] = dial[d] /\ conn'[d] = conn[d]
  BY <1>1 DEF BrokerAccepts, BrokerRefuses, TypeOK, ConnInv
<1>3. TypeOK'
  BY <1>1, <1>2 DEF BrokerAccepts, BrokerRefuses, TypeOK, Conns, Dials
<1>4. TaskInv(c)' /\ ConnInv(c)'
  BY <1>1, <1>2 DEF BrokerAccepts, BrokerRefuses, TypeOK, TaskInv, ConnInv, GroupDone
<1>5. ASSUME NEW d \in Clients, d # c
      PROVE  TaskInv(d)' /\ ConnInv(d)'
  BY <1>2, <1>5, OtherClient DEF ConnectInv
<1>6. StageInv' /\ CauseInv' /\ HandedOver' = HandedOver /\ ~HandedOver
  BY <1>1, <1>2 DEF StageInv, CauseInv, HandedOver
<1>7. LimitInv'
  <2>1. Occupied' = Occupied /\ AtRisk' \subseteq AtRisk
    BY <1>1, <1>2 DEF Occupied, AtRisk
  <2>. QED  BY <1>1, <2>1, LimitKept
<1>. QED  BY <1>2, <1>3, <1>4, <1>5, <1>6, <1>7 DEF ConnectInv

\* Cancelling the context, closing a connection that was handed over, or doing
\* neither: steps that leave connectClients and its tasks alone.
LEMMA OutsideInv ==
    ASSUME ConnectInv, UNCHANGED connectVars, ctxDone' \in BOOLEAN, ctxDone => ctxDone',
           conn' \in [Clients -> Conns],
           \A c \in Clients : conn'[c] = conn[c] \/ (HandedOver /\ conn'[c] = "closed")
    PROVE  ConnectInv'
<1>. USE DEF connectVars
<1>1. TypeOK /\ StageInv /\ CauseInv /\ LimitInv
  BY DEF ConnectInv
<1>2. TypeOK' /\ StageInv' /\ CauseInv'
  BY <1>1 DEF TypeOK, StageInv, CauseInv, HandedOver
<1>3. ASSUME NEW c \in Clients
      PROVE  TaskInv(c)' /\ ConnInv(c)'
  BY <1>1 DEF ConnectInv, TaskInv, ConnInv, StageInv, HandedOver, GroupDone
<1>4. LimitInv'
  BY <1>1 DEF LimitInv, Occupied, AtRisk
<1>. QED  BY <1>2, <1>3, <1>4 DEF ConnectInv

\* Every step of the specification preserves the invariant.
LEMMA NextInv == IInv /\ [Next]_vars => IInv'
<1>. SUFFICES ASSUME IInv, [Next]_vars
              PROVE  IInv'
  OBVIOUS
<1>1. ConnectInv /\ (HandedOver => \A c \in Clients : conn[c] = "live")
  BY DEF IInv
<1>2. ASSUME NEW c \in Clients, TaskStep(c)
      PROVE  IInv'
  BY <1>1, <1>2, TaskStepInv DEF IInv, HandedOver
<1>3. ASSUME NEW c \in Clients, BrokerAccepts(c) \/ BrokerRefuses(c)
      PROVE  IInv'
  BY <1>1, <1>3, BrokerInv DEF IInv
<1>4. CASE GroupStep
  <2>1. CASE ~HandedOver
    BY <1>1, <1>4, <2>1, GroupStepInv DEF IInv
  <2>2. CASE HandedOver
    BY <1>4, <2>2 DEF HandedOver, GroupStep, Launch, Wait, DisconnectNext, DisconnectedAll
  <2>. QED  BY <2>1, <2>2
<1>5. CASE Cancel \/ UNCHANGED vars
  <2>1. /\ UNCHANGED <<conn, connectVars>> /\ ctxDone' \in BOOLEAN
        /\ conn' \in [Clients -> Conns] /\ (ctxDone => ctxDone')
    BY <1>1, <1>5 DEF Cancel, vars, ConnectInv, TypeOK
  <2>2. ConnectInv'
    BY <1>1, <2>1, OutsideInv
  <2>. QED  BY <1>1, <2>1, <2>2 DEF IInv, HandedOver, connectVars
<1>. QED  BY <1>2, <1>3, <1>4, <1>5 DEF Next, Terminating

\* The inductive invariant holds in every reachable state, whatever the number
\* of clients and the limit on concurrent connects.
THEOREM Invariant == Spec => []IInv
<1>1. Init => IInv
  BY InitInv
<1>2. IInv /\ [Next]_vars => IInv'
  BY NextInv
<1>. QED  BY <1>1, <1>2, PTL DEF Spec

\* Every variable keeps its type; in particular no client is counted twice.
THEOREM TypeCorrect == Spec => []TypeOK
<1>1. IInv => TypeOK
  BY DEF IInv, ConnectInv
<1>. QED  BY <1>1, Invariant, PTL

-----------------------------------------------------------------------------
(* The checked invariants.                                                 *)

\* What was not reported as connected is closed by the time it is reported.
LEMMA FailureCloses ==
    ASSUME ConnectInv, stage = "returned", result # "ok", NEW c \in Clients
    PROVE  conn[c] # "live"
<1>1. TaskInv(c) /\ ConnInv(c) /\ StageInv
  BY DEF ConnectInv
<1>. QED  BY <1>1 DEF StageInv, TaskInv, ConnInv

\* Success is only reported with every client stored.
LEMMA SuccessStores ==
    ASSUME ConnectInv, result = "ok"
    PROVE  stage = "returned" /\ stored = Clients /\ connected = Cardinality(Clients)
<1>1. StageInv /\ TypeOK /\ connected = Cardinality(stored) /\ \A c \in Clients : TaskInv(c)
  BY DEF ConnectInv
<1>2. stage = "returned"
  BY <1>1 DEF StageInv, TypeOK, Stages
<1>3. stored = Clients
  BY <1>1, <1>2 DEF StageInv, TypeOK, TaskInv
<1>. QED  BY <1>1, <1>2, <1>3

\* A connect phase that ended with an error leaves no connection open.
THEOREM NothingOpen == Spec => []NothingLeftOpen
<1>1. IInv => NothingLeftOpen
  BY FailureCloses DEF IInv, NothingLeftOpen
<1>. QED  BY <1>1, Invariant, PTL

\* Success means every client: connected, stored and counted.
THEOREM AllOrNothing == Spec => []SuccessMeansAll
<1>1. IInv => SuccessMeansAll
  BY SuccessStores DEF IInv, HandedOver, SuccessMeansAll
<1>. QED  BY <1>1, Invariant, PTL

\* The error that connectClients returns is the one that stopped it.
THEOREM TrueCause == Spec => []CauseReported
<1>1. IInv => CauseReported
  BY DEF IInv, ConnectInv, CauseInv, CauseReported
<1>. QED  BY <1>1, Invariant, PTL

\* A refused dial has had a place of the semaphore, and gives it back too late for
\* another one.
LEMMA RefusalsBounded == ConnectInv => FailuresWithinLimit
<1>. DEFINE Refused == {c \in Clients : dial[c] = "refused"}
<1>. SUFFICES ASSUME ConnectInv
              PROVE  Cardinality(Refused) <= Limit
  BY DEF FailuresWithinLimit
<1>1. Refused \in SUBSET AtRisk /\ AtRisk \in SUBSET Clients
  BY DEF AtRisk
<1>2. /\ Cardinality(Refused) <= Cardinality(AtRisk)
      /\ Cardinality(Refused) \in Nat /\ Cardinality(AtRisk) \in Nat
  BY <1>1, FewerClients
<1>3. Cardinality(AtRisk) <= Limit
  BY DEF ConnectInv, LimitInv
<1>. QED  BY <1>2, <1>3, LimitAssumption

\* No more than Limit dials fail before connecting stops.
THEOREM FailuresLimited == Spec => []FailuresWithinLimit
<1>1. IInv => FailuresWithinLimit
  BY RefusalsBounded DEF IInv
<1>. QED  BY <1>1, Invariant, PTL

\* A client that is still queued when connecting stops is never dialled.
THEOREM QueuedStaysIdle == Spec => QueuedNeverDials
<1>. SUFFICES ASSUME NEW c \in Clients
              PROVE  Spec => [](task[c] = "queued" /\ GroupDone => [](dial[c] = "none"))
  BY DEF QueuedNeverDials
<1>. DEFINE P == task[c] = "queued" /\ GroupDone
            Q == dial[c] = "none"
            Passed == /\ GroupDone /\ dial[c] = "none"
                      /\ task[c] \in {"queued", "launched", "erring", "ending", "finished"}
<1>1. IInv /\ P => Passed
  BY DEF IInv, ConnectInv, TaskInv
<1>2. Passed => Q
  OBVIOUS
<1>3. IInv /\ Passed /\ [Next]_vars => Passed'
  <2>. SUFFICES ASSUME IInv, Passed, [Next]_vars
                PROVE  Passed'
    OBVIOUS
  <2>. USE DEF Enter, FailWith, GroupDone
  <2>1. TypeOK /\ \A d \in Clients : TaskInv(d)
    BY DEF IInv, ConnectInv
  <2>2. ASSUME NEW d \in Clients, TaskStep(d)
        PROVE  Passed'
    <3>1. GroupDone'
      BY <2>1, <2>2 DEF TaskStep, CheckPassed, Skip, Dial, DialAccepted, DialRefused,
         DialCancelled, Record, ReportError, Finish, TypeOK, TaskInv
    <3>2. CASE d = c
      BY <2>1, <2>2, <3>1, <3>2 DEF TaskStep, CheckPassed, Skip, Dial, DialAccepted,
         DialRefused, DialCancelled, Record, ReportError, Finish, TypeOK
    <3>3. CASE d # c
      BY <2>1, <2>2, <3>1, <3>3 DEF TaskStep, CheckPassed, Skip, Dial, DialAccepted,
         DialRefused, DialCancelled, Record, ReportError, Finish, TypeOK
    <3>. QED  BY <3>2, <3>3
  <2>3. ASSUME NEW d \in Clients, BrokerAccepts(d) \/ BrokerRefuses(d)
        PROVE  Passed'
    BY <2>1, <2>3 DEF BrokerAccepts, BrokerRefuses, TypeOK
  <2>4. CASE GroupStep
    BY <2>1, <2>4 DEF GroupStep, Launch, Wait, DisconnectNext, DisconnectedAll, connectVars,
       TypeOK
  <2>5. CASE Cancel \/ UNCHANGED vars
    BY <2>1, <2>5 DEF Cancel, vars, connectVars
  <2>. QED  BY <2>2, <2>3, <2>4, <2>5 DEF Next, Terminating
<1>. HIDE DEF P, Q, Passed
<1>4. Spec => [](P => []Q)
  BY <1>1, <1>2, <1>3, Invariant, PTL DEF Spec
<1>. QED  BY <1>4 DEF P, Q

=============================================================================
