------------------------- MODULE PlainYamlSyncProofs -------------------------
(***************************************************************************)
(* Theorems of PlainYamlSync, for every number of Applications, callers,   *)
(* objects and clusters, and that it implements ManifestManager.           *)
(***************************************************************************)
EXTENDS PlainYamlSync, TLAPS

(***************************************************************************)
(* Hypotheses of the theorems.                                             *)
(***************************************************************************)
\* One Sync or Clear after the other, or all Applications in one cluster.
OneCaller  == \A p, q \in Procs : p = q
OneCluster == \A a, b \in Apps : DestOf[a] = DestOf[b]

\* The manager keeps one git client.
OneRepository == \A a, b \in Apps : RepoOf[a] = RepoOf[b]

\* The label tells Applications apart.
LabelsDiffer == \A a, b \in Apps : LabelOf[a] = LabelOf[b] => a = b

\* No two Applications deploy the same manifests to the same cluster.
TargetsDiffer ==
    \A a, b \in Apps : DestOf[a] = DestOf[b] /\ SourceOf(a) = SourceOf(b) => a = b

\* Nobody pushes or edits while a call is under way.
Undisturbed == "midway" \notin Env

\* No call fails and the process does not die.
Reliable == MaxFaults = 0 \/ {"fail", "crash"} \cap Env = {}

(***************************************************************************)
(* Type correctness.                                                       *)
(***************************************************************************)
UsesCur == {"record", "create", "compare", "apply", "get", "delete"}

\* The local variables a call has set by the time they are used.
CallsKnow ==
    \A p \in Procs :
        /\ proc[p].pc # "idle" => proc[p].app \in Apps
        /\ proc[p].pc \in UsesCur => proc[p].cur \in Objs
        /\ proc[p].pc \notin {"idle", "target"} => targetCli \in Clusters

TypeInv == TypeOK /\ CallsKnow

LEMMA IdleProcType == IdleProc \in Proc
BY DEF IdleProc, Proc, ProcPc, Status

\* Commits, drift, crashes and the beginnings and ends of calls keep the types.
LEMMA OutsideCallType ==
    ASSUME TypeInv,
           \/ \E o \in Objs, x \in Contents \cup {None} :
                GitPush(o, x) \/ \E cl \in Clusters : Drift(cl, o, x)
           \/ \E p \in Procs, a \in Apps :
                \/ \E forced \in BOOLEAN : CheckSync(p, a, forced)
                \/ CallClear(p, a)
           \/ \E p \in Procs : CallFails(p)
           \/ \E r \in Apps \X Objs : CacheRecord(r)
           \/ Crash
    PROVE  TypeInv'
<1>1. ASSUME NEW o \in Objs, NEW x \in Contents \cup {None}, GitPush(o, x)
      PROVE  TypeInv'
  BY <1>1, BoundAssumption
     DEF TypeInv, TypeOK, CallsKnow, GitPush, clusterVars, managerVars
<1>2. ASSUME NEW cl \in Clusters, NEW o \in Objs, NEW x \in Contents \cup {None},
             Drift(cl, o, x)
      PROVE  TypeInv'
  BY <1>2, BoundAssumption DEF TypeInv, TypeOK, CallsKnow, Drift, recordVars, managerVars
<1>3. ASSUME NEW p \in Procs, NEW a \in Apps, NEW forced \in BOOLEAN,
             CheckSync(p, a, forced)
      PROVE  TypeInv'
  <2>1. [IdleProc EXCEPT !.pc = "target", !.op = "sync", !.app = a,
                         !.forced = forced] \in Proc
    BY DEF IdleProc, Proc, ProcPc, Status
  <2> QED  BY <1>3, <2>1, MapAssumption
           DEF TypeInv, TypeOK, CallsKnow, UsesCur, CheckSync, IdleProc, envVars, clusterVars,
               Status
<1>4. ASSUME NEW p \in Procs, NEW a \in Apps, CallClear(p, a)
      PROVE  TypeInv'
  <2>1. [IdleProc EXCEPT !.pc = "target", !.op = "clear", !.app = a] \in Proc
    BY DEF IdleProc, Proc, ProcPc, Status
  <2> QED  BY <1>4, <2>1
           DEF TypeInv, TypeOK, CallsKnow, UsesCur, CallClear, IdleProc, envVars, clusterVars,
               managerVars
<1>5. ASSUME NEW p \in Procs, CallFails(p)
      PROVE  TypeInv'
  BY <1>5, IdleProcType, BoundAssumption
     DEF TypeInv, TypeOK, CallsKnow, UsesCur, CallFails, Return, IdleProc, envVars,
         clusterVars, managerVars
<1>6. CASE Crash
  BY <1>6, IdleProcType, BoundAssumption
     DEF TypeInv, TypeOK, CallsKnow, UsesCur, Crash, IdleProc, envVars, clusterVars
<1>7. ASSUME NEW r \in Apps \X Objs, CacheRecord(r)
      PROVE  TypeInv'
  BY <1>7 DEF TypeInv, TypeOK, CallsKnow, CacheRecord, envVars, managerVars
<1> QED  BY <1>1, <1>2, <1>3, <1>4, <1>5, <1>6, <1>7

\* What a step of one call has to keep.
LEMMA ProcStepType ==
    ASSUME TypeInv, NEW p \in Procs, NEW q \in Proc, proc' = [proc EXCEPT ![p] = q],
           q.pc # "idle" => q.app \in Apps,
           q.pc \in UsesCur => q.cur \in Objs,
           q.pc \notin {"idle", "target"} => targetCli' \in Clusters,
           targetCli' \in Clusters \/ UNCHANGED targetCli
    PROVE  proc' \in [Procs -> Proc] /\ CallsKnow'
<1>1. /\ proc' \in [Procs -> Proc] /\ proc'[p] = q
      /\ \A x \in Procs \ {p} : proc'[x] = proc[x]
  BY DEF TypeInv, TypeOK
<1> QED  BY <1>1 DEF TypeInv, CallsKnow

\* Going on to another place of the code.
LEMMA GotoType ==
    ASSUME TypeInv, NEW p \in Procs, NEW pc \in ProcPc, Goto(p, pc),
           pc # "idle" => proc[p].app \in Apps,
           pc \in UsesCur => proc[p].cur \in Objs,
           pc \notin {"idle", "target"} => targetCli' \in Clusters,
           targetCli' \in Clusters \/ UNCHANGED targetCli
    PROVE  proc' \in [Procs -> Proc] /\ CallsKnow'
<1> DEFINE q == [proc[p] EXCEPT !.pc = pc]
<1>1. proc[p] \in Proc
  BY DEF TypeInv, TypeOK
<1>2. q \in Proc /\ q.pc = pc /\ q.app = proc[p].app /\ q.cur = proc[p].cur
  BY <1>1 DEF Proc
<1>3. proc' = [proc EXCEPT ![p] = q]
  BY DEF Goto
<1> HIDE DEF q
<1> QED  BY <1>2, <1>3, ProcStepType

\* So does each step of a call.
LEMMA CallStepType ==
    ASSUME TypeInv, NEW p \in Procs, CallStep(p)
    PROVE  TypeInv'
<1> USE DEF At, envVars, clusterVars, recordVars, managerVars, UsesCur
<1>1. /\ proc[p] \in Proc
      /\ proc[p].pc # "idle" => proc[p].app \in Apps
      /\ proc[p].pc \in UsesCur => proc[p].cur \in Objs
      /\ proc[p].pc \notin {"idle", "target"} => targetCli \in Clusters
  BY DEF TypeInv, TypeOK, CallsKnow
<1>2. CASE SetTargetClient(p)
  <2>1. targetCli' \in Clusters
    BY <1>1, <1>2, MapAssumption DEF SetTargetClient
  <2>2. PICK pc \in {"infos", "list"} : Goto(p, pc)
    BY <1>2 DEF SetTargetClient
  <2>3. proc' \in [Procs -> Proc] /\ CallsKnow'
    BY <1>1, <1>2, <2>1, <2>2, GotoType DEF SetTargetClient, ProcPc
  <2> QED  BY <1>2, <2>1, <2>3 DEF SetTargetClient, TypeInv, TypeOK
<1>3. CASE GetManifestInfos(p)
  <2> DEFINE found == {o \in Objs : /\ HomeOf[o] = <<gitCli, PathOf[proc[p].app]>>
                                    /\ manifest[o] # None}
             q     == [proc[p] EXCEPT !.todo = found, !.pc = "list"]
  <2>1. found \in SUBSET Objs
    OBVIOUS
  <2>2. q \in Proc /\ q.pc = "list" /\ q.app = proc[p].app
    BY <1>1, <2>1 DEF Proc, ProcPc
  <2>3. proc' = [proc EXCEPT ![p] = q]
    BY <1>3 DEF GetManifestInfos
  <2>4. proc' \in [Procs -> Proc] /\ CallsKnow'
    <3> HIDE DEF q
    <3> QED  BY <1>1, <1>3, <2>2, <2>3, ProcStepType DEF GetManifestInfos
  <2> QED  BY <1>3, <2>4 DEF GetManifestInfos, TypeInv, TypeOK
<1>4. CASE GetDeployResourceList(p)
  <2> DEFINE found  == {r \in cached : LabelOf[r[1]] = LabelOf[proc[p].app]}
             missed == {r \in records \ cached : LabelOf[r[1]] = LabelOf[proc[p].app]}
             pc     == IF proc[p].op = "sync" THEN "next" ELSE "prune"
             q      == [proc[p] EXCEPT !.old = found, !.hidden = missed, !.pc = pc]
  <2>1. /\ found \in SUBSET (Apps \X Objs) /\ missed \in SUBSET (Apps \X Objs)
        /\ pc \in {"next", "prune"}
    BY DEF TypeInv, TypeOK
  <2>2. q \in Proc /\ q.pc \in {"next", "prune"} /\ q.app = proc[p].app
    <3>1. pc \in ProcPc
      BY <2>1 DEF ProcPc
    <3> HIDE DEF found, missed, pc
    <3> QED  BY <1>1, <2>1, <3>1 DEF Proc
  <2>3. proc' = [proc EXCEPT ![p] = q]
    BY <1>4 DEF GetDeployResourceList
  <2>4. proc' \in [Procs -> Proc] /\ CallsKnow'
    <3> HIDE DEF q
    <3> QED  BY <1>1, <1>4, <2>2, <2>3, ProcStepType DEF GetDeployResourceList
  <2> QED  BY <1>4, <2>4 DEF GetDeployResourceList, TypeInv, TypeOK
<1>5. ASSUME NEW o \in Objs, ObjectFromManifest(p, o)
      PROVE  TypeInv'
  <2>1. CASE Return(p)
    BY <1>5, <2>1, IdleProcType
       DEF ObjectFromManifest, Return, IdleProc, TypeInv, TypeOK, CallsKnow
  <2>2. ASSUME proc' = [proc EXCEPT ![p] = [proc[p] EXCEPT
                 !.todo = @ \ {o}, !.cur = o, !.want = manifest[o], !.pc = "record"]]
        PROVE  TypeInv'
    <3>1. [proc[p] EXCEPT !.todo = @ \ {o}, !.cur = o, !.want = manifest[o],
                          !.pc = "record"] \in Proc
      BY <1>1 DEF TypeInv, TypeOK, Proc, ProcPc
    <3> QED  BY <1>1, <1>5, <2>2, <3>1
             DEF ObjectFromManifest, TypeInv, TypeOK, CallsKnow
  <2> QED  BY <1>5, <2>1, <2>2 DEF ObjectFromManifest
<1>6. CASE UpdateDeployResource(p)
  <2> DEFINE r        == <<proc[p].app, proc[p].cur>>
             Recorded == [proc[p] EXCEPT !.updated = @ \cup {r}, !.pc = "compare"]
  <2>1. r \in Apps \X Objs
    BY <1>1, <1>6 DEF UpdateDeployResource
  <2>4. /\ Recorded \in Proc /\ Recorded.pc = "compare"
        /\ Recorded.app = proc[p].app /\ Recorded.cur = proc[p].cur
    BY <1>1, <2>1 DEF Proc, ProcPc
  <2>2. CASE r \in cached
    <3>1. proc' = [proc EXCEPT ![p] = Recorded]
      BY <1>6, <2>2 DEF UpdateDeployResource
    <3>2. proc' \in [Procs -> Proc] /\ CallsKnow'
      <4> HIDE DEF Recorded
      <4> QED  BY <1>1, <1>6, <2>4, <3>1, ProcStepType DEF UpdateDeployResource
    <3> QED  BY <1>6, <2>1, <3>2 DEF UpdateDeployResource, TypeInv, TypeOK
  <2>3. CASE r \notin cached
    <3>1. proc' \in [Procs -> Proc] /\ CallsKnow'
      BY <1>1, <1>6, <2>3, GotoType DEF UpdateDeployResource, ProcPc
    <3> QED  BY <1>6, <2>3, <3>1 DEF UpdateDeployResource, TypeInv, TypeOK
  <2> QED  BY <2>2, <2>3
<1>14. CASE CreateDeployResource(p)
  <2> DEFINE r        == <<proc[p].app, proc[p].cur>>
             Recorded == [proc[p] EXCEPT !.updated = @ \cup {r}, !.pc = "compare"]
  <2>1. r \in Apps \X Objs
    BY <1>1, <1>14 DEF CreateDeployResource
  <2>2. CASE r \in records
    <3>1. Rejected(p)
      BY <1>14, <2>2 DEF CreateDeployResource
    <3> QED  BY <3>1, IdleProcType DEF Rejected, Return, IdleProc, TypeInv, TypeOK, CallsKnow
  <2>4. /\ Recorded \in Proc /\ Recorded.pc = "compare"
        /\ Recorded.app = proc[p].app /\ Recorded.cur = proc[p].cur
    BY <1>1, <2>1 DEF Proc, ProcPc
  <2>3. CASE r \notin records
    <3>1. proc' = [proc EXCEPT ![p] = Recorded]
      BY <1>14, <2>3 DEF CreateDeployResource
    <3>2. records' \subseteq Apps \X Objs /\ cached' \subseteq Apps \X Objs
      BY <1>14, <2>1, <2>3 DEF CreateDeployResource, Cache, TypeInv, TypeOK
    <3>3. proc' \in [Procs -> Proc] /\ CallsKnow'
      <4> HIDE DEF Recorded
      <4> QED  BY <1>1, <1>14, <2>3, <2>4, <3>1, ProcStepType DEF CreateDeployResource
    <3> QED  BY <1>14, <2>3, <3>2, <3>3 DEF CreateDeployResource, TypeInv, TypeOK
  <2> QED  BY <2>2, <2>3
<1>7. CASE CompareDeployWithManifest(p)
  <2>1. ASSUME NEW pc \in {"next", "apply"}, Goto(p, pc)
        PROVE  TypeInv'
    <3>1. proc' \in [Procs -> Proc] /\ CallsKnow'
      BY <1>1, <1>7, <2>1, GotoType DEF CompareDeployWithManifest, ProcPc
    <3> QED  BY <1>7, <3>1 DEF CompareDeployWithManifest, TypeInv, TypeOK
  <2>2. ASSUME NEW pc \in {"next", "apply"},
               proc' = [proc EXCEPT ![p] = [proc[p] EXCEPT
                 !.status = "OutOfSync", !.seen = live[targetCli][proc[p].cur],
                 !.where = targetCli, !.pc = pc]]
        PROVE  TypeInv'
    <3>1. /\ live[targetCli][proc[p].cur] \in Contents \cup {None}
          /\ targetCli \in Clusters
      BY <1>7 DEF CompareDeployWithManifest, TypeInv, TypeOK, CallsKnow
    <3>2. [proc[p] EXCEPT !.status = "OutOfSync", !.seen = live[targetCli][proc[p].cur],
                          !.where = targetCli, !.pc = pc] \in Proc
      BY <1>1, <3>1 DEF Proc, ProcPc, Status
    <3> QED  BY <1>1, <1>7, <2>2, <3>1, <3>2
             DEF CompareDeployWithManifest, TypeInv, TypeOK, CallsKnow
  <2> QED  BY <1>7, <2>1, <2>2 DEF CompareDeployWithManifest
<1>8. CASE ApplyManifest(p)
  <2>1. CASE Rejected(p)
    BY <2>1, IdleProcType DEF Rejected, Return, IdleProc, TypeInv, TypeOK, CallsKnow
  <2>2. CASE ~Rejected(p)
    <3>1. live' = [live EXCEPT ![targetCli][proc[p].cur] = proc[p].want]
      BY <1>8, <2>2 DEF ApplyManifest
    <3>2. live' \in [Clusters -> [Objs -> Contents \cup {None}]]
      BY <1>1, <3>1 DEF TypeInv, TypeOK, Proc
    <3>3. proc' \in [Procs -> Proc] /\ CallsKnow'
      BY <1>1, <1>8, <2>2, GotoType DEF ApplyManifest, ProcPc
    <3> QED  BY <1>8, <2>2, <3>2, <3>3 DEF ApplyManifest, TypeInv, TypeOK
  <2> QED  BY <2>1, <2>2
<1>9. CASE EndOfManifests(p)
  BY <1>9 DEF EndOfManifests, TypeInv, TypeOK, CallsKnow, Proc, ProcPc
<1>10. ASSUME NEW r \in proc[p].old, DeleteRecord(p, r)
       PROVE  TypeInv'
  <2>1. CASE Rejected(p)
    BY <2>1, IdleProcType DEF Rejected, Return, IdleProc, TypeInv, TypeOK, CallsKnow
  <2>2. ASSUME proc' = [proc EXCEPT ![p] = [proc[p] EXCEPT
                          !.old = @ \ {r}, !.cur = r[2], !.pc = "get"]],
               records' = records \ {r}
        PROVE  TypeInv'
    <3>1. r[2] \in Objs
      BY <1>1 DEF Proc
    <3>2. [proc[p] EXCEPT !.old = @ \ {r}, !.cur = r[2], !.pc = "get"] \in Proc
      BY <1>1, <3>1 DEF Proc, ProcPc
    <3>3. records' \subseteq Apps \X Objs /\ cached' \subseteq Apps \X Objs
      BY <1>10, <2>2 DEF DeleteRecord, Rejected, Cache, TypeInv, TypeOK
    <3>4. skipped' = skipped
      BY <1>10 DEF DeleteRecord, Rejected
    <3> QED  BY <1>1, <1>10, <2>1, <2>2, <3>1, <3>2, <3>3, <3>4
             DEF DeleteRecord, TypeInv, TypeOK, CallsKnow
  <2> QED  BY <1>10, <2>1, <2>2 DEF DeleteRecord
<1>11. CASE GetDeprecated(p)
  <2>1. PICK pc \in {"prune", "delete"} : Goto(p, pc)
    BY <1>11 DEF GetDeprecated
  <2>2. proc' \in [Procs -> Proc] /\ CallsKnow'
    BY <1>1, <1>11, <2>1, GotoType DEF GetDeprecated, ProcPc
  <2> QED  BY <1>11, <2>2 DEF GetDeprecated, TypeInv, TypeOK
<1>12. CASE DeleteDeprecated(p)
  <2>1. CASE Rejected(p)
    BY <2>1, IdleProcType DEF Rejected, Return, IdleProc, TypeInv, TypeOK, CallsKnow
  <2>2. CASE ~Rejected(p)
    <3>1. live' = [live EXCEPT ![targetCli][proc[p].cur] = None]
      BY <1>12, <2>2 DEF DeleteDeprecated
    <3>2. live' \in [Clusters -> [Objs -> Contents \cup {None}]]
      BY <3>1 DEF TypeInv, TypeOK
    <3>3. proc' \in [Procs -> Proc] /\ CallsKnow'
      BY <1>1, <1>12, <2>2, GotoType DEF DeleteDeprecated, ProcPc
    <3> QED  BY <1>12, <2>2, <3>2, <3>3 DEF DeleteDeprecated, TypeInv, TypeOK
  <2> QED  BY <2>1, <2>2
<1>13. CASE Finish(p)
  BY <1>13, IdleProcType
     DEF Finish, Return, Proc, ProcPc, IdleProc, Status, TypeInv, TypeOK, CallsKnow
<1> QED  BY <1>2, <1>3, <1>4, <1>5, <1>6, <1>7, <1>8, <1>9, <1>10, <1>11, <1>12,
            <1>13, <1>14 DEF CallStep

LEMMA TypeStep == TypeInv /\ [Next]_vars => TypeInv'
<1> SUFFICES ASSUME TypeInv, [Next]_vars
             PROVE  TypeInv'
  OBVIOUS
<1>1. CASE UNCHANGED vars
  BY <1>1 DEF vars, TypeInv, TypeOK, CallsKnow
<1> QED  BY <1>1, OutsideCallType, CallStepType DEF Next

\* Nothing is wrong when the process starts.
LEMMA TypeInit == Init => TypeInv
BY IdleProcType, BoundAssumption
DEF Init, TypeInv, TypeOK, CallsKnow, UsesCur, IdleProc, Status

\* The variables take the values TypeOK says, and a call knows its Application,
\* object and client when it uses them.
THEOREM TypeCorrect == Spec => []TypeOK
<1>1. Init => TypeInv
  BY TypeInit
<1>2. TypeInv => TypeOK
  BY DEF TypeInv
<1> QED  BY <1>1, <1>2, TypeStep, PTL DEF Spec

(***************************************************************************)
(* What each step does to the local variables of its call.                 *)
(***************************************************************************)
KeepsOwner(p) ==
    /\ proc'[p].op = proc[p].op /\ proc'[p].app = proc[p].app
    /\ proc'[p].forced = proc[p].forced

KeepsLists(p) ==
    /\ proc'[p].todo = proc[p].todo /\ proc'[p].old = proc[p].old
    /\ proc'[p].updated = proc[p].updated /\ proc'[p].hidden = proc[p].hidden

KeepsCurrent(p) == proc'[p].cur = proc[p].cur /\ proc'[p].want = proc[p].want

Becomes(p, q) == proc'[p] = q /\ \A x \in Procs \ {p} : proc'[x] = proc[x]

\* A call begins.
Begins(p, op, a) ==
    /\ proc'[p].pc = "target" /\ proc'[p].op = op /\ proc'[p].app = a
    /\ proc'[p].status = "Unknown" /\ proc'[p].todo = {} /\ proc'[p].old = {}
    /\ proc'[p].updated = {} /\ proc'[p].hidden = {}
    /\ \A x \in Procs \ {p} : proc'[x] = proc[x]

LEMMA ReturnDoes ==
    ASSUME TypeInv, NEW p \in Procs, Return(p)
    PROVE  Becomes(p, IdleProc)
BY DEF Return, TypeInv, TypeOK, Becomes

\* A step that goes on, to pc, and changes nothing but what is named.
GoesOn(p, pc) ==
    /\ proc'[p].pc = pc /\ KeepsOwner(p)
    /\ \A x \in Procs \ {p} : proc'[x] = proc[x]

LEMMA GotoDoes ==
    ASSUME TypeInv, NEW p \in Procs, NEW pc \in ProcPc, Goto(p, pc)
    PROVE  /\ GoesOn(p, pc) /\ proc'[p].status = proc[p].status
           /\ KeepsLists(p) /\ KeepsCurrent(p)
BY DEF Goto, TypeInv, TypeOK, Proc, GoesOn, KeepsOwner, KeepsLists, KeepsCurrent

SetTargetClientEffect(p) ==
    /\ GoesOn(p, IF proc[p].op = "sync" THEN "infos" ELSE "list")
    /\ proc'[p].status = proc[p].status
    /\ KeepsLists(p) /\ KeepsCurrent(p)

LEMMA SetTargetClientDoes ==
    ASSUME TypeInv, NEW p \in Procs, SetTargetClient(p)
    PROVE  SetTargetClientEffect(p)
<1> DEFINE pc == IF proc[p].op = "sync" THEN "infos" ELSE "list"
<1>1. Goto(p, pc) /\ pc \in ProcPc
  BY DEF SetTargetClient, ProcPc
<1> HIDE DEF pc
<1> QED  BY <1>1, GotoDoes DEF pc, SetTargetClientEffect

GetManifestInfosEffect(p) ==
    /\ GoesOn(p, "list") /\ proc'[p].status = proc[p].status
    /\ proc'[p].todo = {o \in Objs : /\ HomeOf[o] = <<gitCli, PathOf[proc[p].app]>>
                                     /\ manifest[o] # None}
    /\ proc'[p].old = proc[p].old /\ proc'[p].updated = proc[p].updated
    /\ proc'[p].hidden = proc[p].hidden /\ KeepsCurrent(p)

LEMMA GetManifestInfosDoes ==
    ASSUME TypeInv, NEW p \in Procs, GetManifestInfos(p)
    PROVE  GetManifestInfosEffect(p)
<1> DEFINE found == {o \in Objs : /\ HomeOf[o] = <<gitCli, PathOf[proc[p].app]>>
                                  /\ manifest[o] # None}
<1>1. proc' = [proc EXCEPT ![p].todo = found, ![p].pc = "list"]
  BY DEF GetManifestInfos
<1> HIDE DEF found
<1>2. /\ GoesOn(p, "list") /\ proc'[p].status = proc[p].status
      /\ proc'[p].todo = found
      /\ proc'[p].old = proc[p].old /\ proc'[p].updated = proc[p].updated
      /\ proc'[p].hidden = proc[p].hidden /\ KeepsCurrent(p)
  BY <1>1 DEF TypeInv, TypeOK, Proc, GoesOn, KeepsOwner, KeepsCurrent
<1> QED  BY <1>2 DEF found, GetManifestInfosEffect

GetDeployResourceListEffect(p) ==
    /\ GoesOn(p, IF proc[p].op = "sync" THEN "next" ELSE "prune")
    /\ proc'[p].status = proc[p].status
    /\ proc'[p].old = {r \in cached : LabelOf[r[1]] = LabelOf[proc[p].app]}
    /\ proc'[p].hidden = {r \in records \ cached : LabelOf[r[1]] = LabelOf[proc[p].app]}
    /\ proc'[p].todo = proc[p].todo /\ proc'[p].updated = proc[p].updated
    /\ KeepsCurrent(p)

LEMMA GetDeployResourceListDoes ==
    ASSUME TypeInv, NEW p \in Procs, GetDeployResourceList(p)
    PROVE  GetDeployResourceListEffect(p)
<1> DEFINE found  == {r \in cached : LabelOf[r[1]] = LabelOf[proc[p].app]}
           missed == {r \in records \ cached : LabelOf[r[1]] = LabelOf[proc[p].app]}
           pc     == IF proc[p].op = "sync" THEN "next" ELSE "prune"
<1>1. proc' = [proc EXCEPT ![p].old = found, ![p].hidden = missed, ![p].pc = pc]
  BY DEF GetDeployResourceList
<1> HIDE DEF found, missed, pc
<1>2. /\ GoesOn(p, pc) /\ proc'[p].status = proc[p].status
      /\ proc'[p].old = found /\ proc'[p].hidden = missed
      /\ proc'[p].todo = proc[p].todo /\ proc'[p].updated = proc[p].updated
      /\ KeepsCurrent(p)
  BY <1>1 DEF TypeInv, TypeOK, Proc, GoesOn, KeepsOwner, KeepsCurrent
<1> QED  BY <1>2 DEF found, missed, pc, GetDeployResourceListEffect

ObjectFromManifestEffect(p, o) ==
    \/ Becomes(p, IdleProc)
    \/ /\ GoesOn(p, "record") /\ proc'[p].status = proc[p].status
       /\ proc'[p].todo = proc[p].todo \ {o}
       /\ proc'[p].old = proc[p].old /\ proc'[p].updated = proc[p].updated
       /\ proc'[p].hidden = proc[p].hidden
       /\ proc'[p].cur = o /\ proc'[p].want = manifest[o] /\ manifest[o] # None

LEMMA ObjectFromManifestDoes ==
    ASSUME TypeInv, NEW p \in Procs, NEW o \in Objs, ObjectFromManifest(p, o)
    PROVE  ObjectFromManifestEffect(p, o)
<1> USE DEF ObjectFromManifestEffect
<1>1. CASE manifest[o] = None
  BY <1>1, ReturnDoes DEF ObjectFromManifest
<1>2. CASE manifest[o] # None
  <2>1. proc' = [proc EXCEPT ![p].todo = @ \ {o}, ![p].cur = o,
                             ![p].want = manifest[o], ![p].pc = "record"]
    BY <1>2 DEF ObjectFromManifest
  <2> QED  BY <1>2, <2>1 DEF TypeInv, TypeOK, Proc, GoesOn, KeepsOwner
<1> QED  BY <1>1, <1>2

\* The DeployResource of the object at hand.
OwnRecord(p) == <<proc[p].app, proc[p].cur>>

UpdateDeployResourceEffect(p) ==
    /\ proc'[p].status = proc[p].status /\ proc'[p].todo = proc[p].todo
    /\ proc'[p].old = proc[p].old /\ proc'[p].hidden = proc[p].hidden
    /\ KeepsCurrent(p)
    /\ \/ /\ OwnRecord(p) \in cached /\ GoesOn(p, "compare")
          /\ proc'[p].updated = proc[p].updated \cup {OwnRecord(p)}
          /\ skipped' = skipped \cup ({OwnRecord(p)} \ records)
       \/ /\ OwnRecord(p) \notin cached /\ GoesOn(p, "create")
          /\ proc'[p].updated = proc[p].updated /\ UNCHANGED skipped

LEMMA UpdateDeployResourceDoes ==
    ASSUME TypeInv, NEW p \in Procs, UpdateDeployResource(p)
    PROVE  UpdateDeployResourceEffect(p)
<1> USE DEF UpdateDeployResourceEffect, OwnRecord
<1>1. CASE OwnRecord(p) \in cached
  <2>1. /\ proc' = [proc EXCEPT ![p].updated = @ \cup {OwnRecord(p)}, ![p].pc = "compare"]
        /\ skipped' = skipped \cup ({OwnRecord(p)} \ records)
    BY <1>1 DEF UpdateDeployResource
  <2> HIDE DEF OwnRecord
  <2> QED  BY <1>1, <2>1 DEF TypeInv, TypeOK, Proc, GoesOn, KeepsOwner, KeepsCurrent
<1>2. CASE OwnRecord(p) \notin cached
  <2>1. Goto(p, "create") /\ UNCHANGED skipped
    BY <1>2 DEF UpdateDeployResource
  <2> HIDE DEF OwnRecord
  <2> QED  BY <1>2, <2>1, GotoDoes DEF KeepsLists, ProcPc
<1> QED  BY <1>1, <1>2

CreateDeployResourceEffect(p) ==
    \/ Becomes(p, IdleProc) /\ UNCHANGED clusterVars
    \/ /\ GoesOn(p, "compare") /\ proc'[p].status = proc[p].status
       /\ proc'[p].todo = proc[p].todo /\ proc'[p].old = proc[p].old
       /\ proc'[p].hidden = proc[p].hidden /\ KeepsCurrent(p)
       /\ proc'[p].updated = proc[p].updated \cup {OwnRecord(p)}
       /\ records' = records \cup {OwnRecord(p)} /\ cached' \in {cached, records'}
       /\ skipped' = skipped \ {OwnRecord(p)} /\ UNCHANGED live

LEMMA CreateDeployResourceDoes ==
    ASSUME TypeInv, NEW p \in Procs, CreateDeployResource(p)
    PROVE  CreateDeployResourceEffect(p)
<1> USE DEF CreateDeployResourceEffect
<1>1. CASE OwnRecord(p) \in records
  BY <1>1, ReturnDoes DEF CreateDeployResource, Rejected, OwnRecord
<1>2. CASE OwnRecord(p) \notin records
  <2>1. /\ records' = records \cup {OwnRecord(p)} /\ Cache
        /\ skipped' = skipped \ {OwnRecord(p)} /\ UNCHANGED live
        /\ proc' = [proc EXCEPT ![p].updated = @ \cup {OwnRecord(p)}, ![p].pc = "compare"]
    BY <1>2 DEF CreateDeployResource, OwnRecord
  <2>2. cached' \in {cached, records'}
    BY <2>1 DEF Cache
  <2> QED  BY <2>1, <2>2 DEF TypeInv, TypeOK, Proc, GoesOn, KeepsOwner, KeepsCurrent
<1> QED  BY <1>1, <1>2

CompareEffect(p) ==
    /\ KeepsLists(p) /\ KeepsCurrent(p)
    /\ \/ /\ live[targetCli][proc[p].cur] = proc[p].want
          /\ GoesOn(p, "next") /\ proc'[p].status = proc[p].status
       \/ /\ GoesOn(p, "next") \/ (GoesOn(p, "apply") /\ Applies(p))
          /\ proc'[p].status = "OutOfSync"

LEMMA CompareDoes ==
    ASSUME TypeInv, NEW p \in Procs, CompareDeployWithManifest(p)
    PROVE  CompareEffect(p)
<1> USE DEF CompareEffect
<1> DEFINE found == live[targetCli][proc[p].cur]
<1>1. CASE found = proc[p].want
  BY <1>1, GotoDoes DEF CompareDeployWithManifest, ProcPc
<1>2. CASE found # proc[p].want
  <2>1. PICK pc \in {"next", "apply"} :
            /\ pc = "apply" => Applies(p)
            /\ proc' = [proc EXCEPT ![p].status = "OutOfSync", ![p].seen = found,
                                    ![p].where = targetCli, ![p].pc = pc]
    BY <1>2 DEF CompareDeployWithManifest, Applies
  <2> HIDE DEF found
  <2>2. /\ GoesOn(p, pc) /\ proc'[p].status = "OutOfSync"
        /\ KeepsLists(p) /\ KeepsCurrent(p)
    BY <2>1 DEF TypeInv, TypeOK, Proc, GoesOn, KeepsOwner, KeepsCurrent, KeepsLists
  <2>3. pc = "next" \/ (pc = "apply" /\ Applies(p))
    BY <2>1
  <2>4. GoesOn(p, "next") \/ (GoesOn(p, "apply") /\ Applies(p))
    BY <2>2, <2>3
  <2> QED  BY <2>2, <2>4
<1> QED  BY <1>1, <1>2

ApplyManifestEffect(p) ==
    /\ UNCHANGED recordVars
    /\ \/ Becomes(p, IdleProc) /\ UNCHANGED live
       \/ /\ live' = [live EXCEPT ![targetCli][proc[p].cur] = proc[p].want]
          /\ GoesOn(p, "next") /\ proc'[p].status = proc[p].status
          /\ KeepsLists(p)
          /\ KeepsCurrent(p)

LEMMA ApplyManifestDoes ==
    ASSUME TypeInv, NEW p \in Procs, ApplyManifest(p)
    PROVE  ApplyManifestEffect(p)
<1> USE DEF ApplyManifestEffect
<1>1. CASE Rejected(p)
  BY <1>1, ReturnDoes DEF Rejected, clusterVars, recordVars
<1>2. CASE ~Rejected(p)
  BY <1>2, GotoDoes DEF ApplyManifest, ProcPc
<1> QED  BY <1>1, <1>2

EndOfManifestsEffect(p) ==
    /\ GoesOn(p, "prune") /\ proc'[p].status = proc[p].status
    /\ proc'[p].todo = proc[p].todo /\ proc'[p].updated = proc[p].updated
    /\ proc'[p].old = proc[p].old \ proc[p].updated
    /\ proc'[p].hidden = proc[p].hidden /\ KeepsCurrent(p)

LEMMA EndOfManifestsDoes ==
    ASSUME TypeInv, NEW p \in Procs, EndOfManifests(p)
    PROVE  EndOfManifestsEffect(p)
BY DEF EndOfManifests, TypeInv, TypeOK, Proc, GoesOn, KeepsOwner, KeepsCurrent,
       EndOfManifestsEffect

DeleteRecordEffect(p, r) ==
    \/ Becomes(p, IdleProc) /\ UNCHANGED clusterVars /\ r \notin records
    \/ /\ records' = records \ {r} /\ cached' \in {cached, records'}
       /\ UNCHANGED <<live, skipped>>
       /\ GoesOn(p, "get") /\ proc'[p].status = proc[p].status
       /\ proc'[p].todo = proc[p].todo /\ proc'[p].updated = proc[p].updated
       /\ proc'[p].old = proc[p].old \ {r} /\ proc'[p].hidden = proc[p].hidden
       /\ proc'[p].cur = r[2] /\ proc'[p].want = proc[p].want

LEMMA DeleteRecordDoes ==
    ASSUME TypeInv, NEW p \in Procs, NEW r \in proc[p].old, DeleteRecord(p, r)
    PROVE  DeleteRecordEffect(p, r)
<1> USE DEF DeleteRecordEffect
<1>1. CASE r \notin records
  BY <1>1, ReturnDoes DEF DeleteRecord, Rejected, clusterVars
<1>2. CASE r \in records
  <2>1. /\ proc' = [proc EXCEPT ![p].old = @ \ {r}, ![p].cur = r[2], ![p].pc = "get"]
        /\ records' = records \ {r} /\ UNCHANGED <<live, skipped>>
        /\ cached' \in {cached, records'}
    BY <1>2 DEF DeleteRecord, Cache
  <2> QED  BY <2>1 DEF TypeInv, TypeOK, Proc, GoesOn, KeepsOwner
<1> QED  BY <1>1, <1>2

GetDeprecatedEffect(p) ==
    /\ \/ GoesOn(p, "prune") /\ live[targetCli][proc[p].cur] = None
       \/ GoesOn(p, "delete") /\ live[targetCli][proc[p].cur] # None
    /\ proc'[p].status = proc[p].status
    /\ KeepsLists(p) /\ KeepsCurrent(p)

LEMMA GetDeprecatedDoes ==
    ASSUME TypeInv, NEW p \in Procs, GetDeprecated(p)
    PROVE  GetDeprecatedEffect(p)
<1> USE DEF GetDeprecatedEffect
<1>1. CASE live[targetCli][proc[p].cur] = None
  BY <1>1, GotoDoes DEF GetDeprecated, ProcPc
<1>2. CASE live[targetCli][proc[p].cur] # None
  BY <1>2, GotoDoes DEF GetDeprecated, ProcPc
<1> QED  BY <1>1, <1>2

DeleteDeprecatedEffect(p) ==
    /\ UNCHANGED recordVars
    /\ \/ /\ Becomes(p, IdleProc) /\ UNCHANGED live
          /\ live[targetCli][proc[p].cur] = None
       \/ /\ live' = [live EXCEPT ![targetCli][proc[p].cur] = None]
          /\ GoesOn(p, "prune") /\ proc'[p].status = proc[p].status
          /\ KeepsLists(p)
          /\ KeepsCurrent(p)

LEMMA DeleteDeprecatedDoes ==
    ASSUME TypeInv, NEW p \in Procs, DeleteDeprecated(p)
    PROVE  DeleteDeprecatedEffect(p)
<1> USE DEF DeleteDeprecatedEffect
<1>1. CASE live[targetCli][proc[p].cur] = None
  BY <1>1, ReturnDoes DEF DeleteDeprecated, Rejected, clusterVars, recordVars
<1>2. CASE live[targetCli][proc[p].cur] # None
  BY <1>2, GotoDoes DEF DeleteDeprecated, ProcPc
<1> QED  BY <1>1, <1>2

LEMMA CheckSyncDoes ==
    ASSUME TypeInv, NEW p \in Procs, NEW a \in Apps, NEW forced \in BOOLEAN,
           CheckSync(p, a, forced)
    PROVE  /\ Begins(p, "sync", a) /\ proc'[p].forced = forced
BY DEF CheckSync, TypeInv, TypeOK, Begins, IdleProc

LEMMA CallClearDoes ==
    ASSUME TypeInv, NEW p \in Procs, NEW a \in Apps, CallClear(p, a)
    PROVE  Begins(p, "clear", a)
BY DEF CallClear, TypeInv, TypeOK, Begins, IdleProc

(***************************************************************************)
(* Whose objects a call handles.                                           *)
(***************************************************************************)
\* A call handles the manifests of its own Application, and records them.
OwnCall(p) ==
    /\ proc[p].pc # "idle" => gitCli # None
    /\ proc[p].todo \subseteq ObjsOf(proc[p].app)
    /\ proc[p].pc \in {"record", "create", "compare", "apply"}
         => proc[p].cur \in ObjsOf(proc[p].app)
    /\ \A r \in proc[p].old : r[2] \in ObjsOf(r[1])

OwnObjects ==
    /\ gitCli # None => \A a \in Apps : gitCli = RepoOf[a]
    /\ \A p \in Procs : OwnCall(p)
    /\ \A r \in records \cup cached : r[2] \in ObjsOf(r[1])

LEMMA OwnObjectsKept ==
    ASSUME OwnObjects, NEW p \in Procs, \A q \in Procs \ {p} : proc'[q] = proc[q],
           UNCHANGED gitCli, OwnCall(p)',
           \A r \in records' \cup cached' : r[2] \in ObjsOf(r[1])
    PROVE  OwnObjects'
<1>1. \A q \in Procs \ {p} : OwnCall(q)'
  BY DEF OwnObjects, OwnCall, ObjsOf
<1> QED  BY <1>1 DEF OwnObjects, ObjsOf

LEMMA OwnObjectsStep ==
    ASSUME OneRepository, TypeInv, OwnObjects, [Next]_vars
    PROVE  OwnObjects'
<1> USE DEF At, Rejected, envVars, clusterVars, managerVars, OwnObjects, OwnCall, ObjsOf
<1> USE DEF Becomes, Begins, GoesOn, KeepsOwner, KeepsLists, KeepsCurrent
<1>1. CASE UNCHANGED vars
  BY <1>1 DEF vars
<1>2. ASSUME NEW o \in Objs, NEW x \in Contents \cup {None}, GitPush(o, x)
      PROVE  OwnObjects'
  BY <1>2 DEF GitPush
<1>3. ASSUME NEW cl \in Clusters, NEW o \in Objs, NEW x \in Contents \cup {None},
             Drift(cl, o, x)
      PROVE  OwnObjects'
  BY <1>3 DEF Drift, recordVars
<1>4. ASSUME NEW p \in Procs, NEW a \in Apps, NEW forced \in BOOLEAN,
             CheckSync(p, a, forced)
      PROVE  OwnObjects'
  <2>1. gitCli' # None /\ \A b \in Apps : gitCli' = RepoOf[b]
    BY <1>4, MapAssumption, NoneAssumption DEF CheckSync, OneRepository
  <2>2. Begins(p, "sync", a)
    BY <1>4, CheckSyncDoes
  <2> QED  BY <1>4, <2>1, <2>2 DEF CheckSync
<1>5. ASSUME NEW p \in Procs, NEW a \in Apps, CallClear(p, a)
      PROVE  OwnObjects'
  <2>1. Begins(p, "clear", a)
    BY <1>5, CallClearDoes
  <2> QED  BY <1>5, <2>1 DEF CallClear
<1>6. ASSUME NEW p \in Procs, CallFails(p)
      PROVE  OwnObjects'
  BY <1>6, ReturnDoes DEF CallFails, IdleProc
<1>7. CASE Crash
  BY <1>7 DEF Crash, IdleProc
<1>9. ASSUME NEW r \in Apps \X Objs, CacheRecord(r)
      PROVE  OwnObjects'
  BY <1>9 DEF CacheRecord
<1>8. ASSUME NEW p \in Procs, CallStep(p)
      PROVE  OwnObjects'
  <2>1. CASE SetTargetClient(p)
    <3>1. SetTargetClientEffect(p)
      BY <2>1, SetTargetClientDoes
    <3> QED  BY <2>1, <3>1 DEF SetTargetClient, SetTargetClientEffect
  <2>2. CASE GetManifestInfos(p)
    <3>1. GetManifestInfosEffect(p)
      BY <2>2, GetManifestInfosDoes
    <3>2. \A o \in proc'[p].todo : HomeOf[o] = SourceOf(proc[p].app)
      BY <2>2, <3>1 DEF GetManifestInfos, GetManifestInfosEffect, SourceOf, TypeInv,
                        CallsKnow
    <3>3. OwnCall(p)'
      BY <2>2, <3>1, <3>2 DEF GetManifestInfos, GetManifestInfosEffect
    <3> QED  BY <2>2, <3>1, <3>3, OwnObjectsKept
             DEF GetManifestInfos, GetManifestInfosEffect
  <2>3. CASE GetDeployResourceList(p)
    <3>1. GetDeployResourceListEffect(p)
      BY <2>3, GetDeployResourceListDoes
    <3>2. \A r \in proc'[p].old : r[2] \in ObjsOf(r[1])
      BY <3>1 DEF GetDeployResourceListEffect
    <3>3. /\ gitCli' = gitCli /\ gitCli # None
          /\ proc'[p].todo = proc[p].todo /\ proc'[p].app = proc[p].app
          /\ proc'[p].pc \in {"next", "prune"}
      BY <2>3, <3>1 DEF GetDeployResourceList, GetDeployResourceListEffect
    <3>4. OwnCall(p)'
      BY <3>2, <3>3
    <3> QED  BY <2>3, <3>1, <3>4, OwnObjectsKept
             DEF GetDeployResourceList, GetDeployResourceListEffect
  <2>4. ASSUME NEW o \in Objs, ObjectFromManifest(p, o)
        PROVE  OwnObjects'
    <3>1. ObjectFromManifestEffect(p, o)
      BY <2>4, ObjectFromManifestDoes
    <3> QED  BY <2>4, <3>1 DEF ObjectFromManifest, ObjectFromManifestEffect, IdleProc
  <2>5. CASE UpdateDeployResource(p)
    <3>1. UpdateDeployResourceEffect(p)
      BY <2>5, UpdateDeployResourceDoes
    <3>2. OwnCall(p)'
      BY <2>5, <3>1 DEF UpdateDeployResource, UpdateDeployResourceEffect
    <3>3. UNCHANGED <<records, cached, gitCli>>
      BY <2>5 DEF UpdateDeployResource
    <3>4. \A q \in Procs \ {p} : proc'[q] = proc[q]
      BY <3>1 DEF UpdateDeployResourceEffect
    <3> QED  BY <3>2, <3>3, <3>4, OwnObjectsKept
  <2>13. CASE CreateDeployResource(p) /\ ~Becomes(p, IdleProc)
    <3>1. CreateDeployResourceEffect(p)
      BY <2>13, CreateDeployResourceDoes
    <3>2. OwnCall(p)'
      BY <2>13, <3>1 DEF CreateDeployResource, CreateDeployResourceEffect
    <3>3. /\ records' = records \cup {OwnRecord(p)} /\ cached' \in {cached, records'}
          /\ UNCHANGED gitCli
      BY <2>13, <3>1 DEF CreateDeployResource, CreateDeployResourceEffect
    <3>4. \A r \in records' \cup cached' : r[2] \in ObjsOf(r[1])
      <4>1. proc[p].cur \in ObjsOf(proc[p].app)
        BY <2>13 DEF CreateDeployResource
      <4>2. OwnRecord(p)[2] \in ObjsOf(OwnRecord(p)[1])
        BY <4>1 DEF OwnRecord
      <4> HIDE DEF ObjsOf
      <4> QED  BY <3>3, <4>2
    <3>5. \A q \in Procs \ {p} : proc'[q] = proc[q]
      BY <2>13, <3>1 DEF CreateDeployResourceEffect
    <3> HIDE DEF OwnObjects, OwnCall, ObjsOf
    <3> QED  BY <3>2, <3>3, <3>4, <3>5, OwnObjectsKept
  <2>14. CASE CreateDeployResource(p) /\ Becomes(p, IdleProc)
    <3>1. CreateDeployResourceEffect(p)
      BY <2>14, CreateDeployResourceDoes
    <3>2. UNCHANGED <<records, cached, gitCli>>
      BY <2>14, <3>1 DEF CreateDeployResource, CreateDeployResourceEffect, IdleProc
    <3> QED  BY <2>14, <3>2 DEF IdleProc
  <2>6. CASE CompareDeployWithManifest(p)
    <3>1. CompareEffect(p)
      BY <2>6, CompareDoes
    <3> QED  BY <2>6, <3>1 DEF CompareDeployWithManifest, CompareEffect
  <2>7. CASE ApplyManifest(p)
    <3>1. ApplyManifestEffect(p)
      BY <2>7, ApplyManifestDoes
    <3> QED  BY <2>7, <3>1 DEF ApplyManifest, ApplyManifestEffect, IdleProc, recordVars
  <2>8. CASE EndOfManifests(p)
    <3>1. EndOfManifestsEffect(p)
      BY <2>8, EndOfManifestsDoes
    <3>2. OwnCall(p)'
      BY <2>8, <3>1 DEF EndOfManifests, EndOfManifestsEffect
    <3> QED  BY <2>8, <3>1, <3>2, OwnObjectsKept
             DEF EndOfManifests, EndOfManifestsEffect
  <2>9. ASSUME NEW r \in proc[p].old, DeleteRecord(p, r)
        PROVE  OwnObjects'
    <3>1. DeleteRecordEffect(p, r)
      BY <2>9, DeleteRecordDoes
    <3> QED  BY <2>9, <3>1 DEF DeleteRecord, DeleteRecordEffect, IdleProc
  <2>10. CASE GetDeprecated(p)
    <3>1. GetDeprecatedEffect(p)
      BY <2>10, GetDeprecatedDoes
    <3> QED  BY <2>10, <3>1 DEF GetDeprecated, GetDeprecatedEffect
  <2>11. CASE DeleteDeprecated(p)
    <3>1. DeleteDeprecatedEffect(p)
      BY <2>11, DeleteDeprecatedDoes
    <3> QED  BY <2>11, <3>1 DEF DeleteDeprecated, DeleteDeprecatedEffect, IdleProc, recordVars
  <2>12. CASE Finish(p)
    BY <2>12, ReturnDoes DEF Finish, IdleProc
  <2> QED  BY <1>8, <2>1, <2>2, <2>3, <2>4, <2>5, <2>6, <2>7, <2>8, <2>9, <2>10,
              <2>11, <2>12, <2>13, <2>14 DEF CallStep
<1> QED  BY <1>1, <1>2, <1>3, <1>4, <1>5, <1>6, <1>7, <1>8, <1>9 DEF Next

(***************************************************************************)
(* Where a call is directed.                                               *)
(***************************************************************************)
\* Past setTargetClient a call is directed to the cluster of its Application.
DirectedCall(p) ==
    proc[p].pc \notin {"idle", "target"} => targetCli = DestOf[proc[p].app]

Directed == \A p \in Procs : DirectedCall(p)

\* Every step of a call but setTargetClient keeps the client, and the call goes
\* on for the same Application or ends.
LEMMA CallKeepsClient ==
    ASSUME TypeInv, NEW p \in Procs, CallStep(p), ~SetTargetClient(p)
    PROVE  /\ UNCHANGED targetCli
           /\ \A q \in Procs \ {p} : proc'[q] = proc[q]
           /\ proc[p].pc \notin {"idle", "target"}
           /\ Becomes(p, IdleProc) \/ (proc'[p].pc # "idle" /\ KeepsOwner(p))
<1> USE DEF At, Rejected, managerVars, Becomes, GoesOn
<1>1. CASE GetManifestInfos(p)
  BY <1>1, GetManifestInfosDoes DEF GetManifestInfos, GetManifestInfosEffect
<1>2. CASE GetDeployResourceList(p)
  <2>1. GetDeployResourceListEffect(p)
    BY <1>2, GetDeployResourceListDoes
  <2>2. UNCHANGED targetCli /\ proc[p].pc = "list"
    BY <1>2 DEF GetDeployResourceList
  <2> QED  BY <2>1, <2>2 DEF GetDeployResourceListEffect
<1>3. ASSUME NEW o \in Objs, ObjectFromManifest(p, o)
      PROVE  /\ UNCHANGED targetCli
             /\ \A q \in Procs \ {p} : proc'[q] = proc[q]
             /\ proc[p].pc \notin {"idle", "target"}
             /\ Becomes(p, IdleProc) \/ (proc'[p].pc # "idle" /\ KeepsOwner(p))
  <2>1. ObjectFromManifestEffect(p, o)
    BY <1>3, ObjectFromManifestDoes
  <2> QED  BY <1>3, <2>1 DEF ObjectFromManifest, ObjectFromManifestEffect
<1>4. CASE UpdateDeployResource(p)
  BY <1>4, UpdateDeployResourceDoes DEF UpdateDeployResource, UpdateDeployResourceEffect
<1>5. CASE CompareDeployWithManifest(p)
  BY <1>5, CompareDoes DEF CompareDeployWithManifest, CompareEffect
<1>6. CASE ApplyManifest(p)
  BY <1>6, ApplyManifestDoes DEF ApplyManifest, ApplyManifestEffect
<1>7. CASE EndOfManifests(p)
  BY <1>7, EndOfManifestsDoes DEF EndOfManifests, EndOfManifestsEffect
<1>8. ASSUME NEW r \in proc[p].old, DeleteRecord(p, r)
      PROVE  /\ UNCHANGED targetCli
             /\ \A q \in Procs \ {p} : proc'[q] = proc[q]
             /\ proc[p].pc \notin {"idle", "target"}
             /\ Becomes(p, IdleProc) \/ (proc'[p].pc # "idle" /\ KeepsOwner(p))
  <2>1. DeleteRecordEffect(p, r)
    BY <1>8, DeleteRecordDoes
  <2> QED  BY <1>8, <2>1 DEF DeleteRecord, DeleteRecordEffect
<1>9. CASE GetDeprecated(p)
  BY <1>9, GetDeprecatedDoes DEF GetDeprecated, GetDeprecatedEffect
<1>10. CASE DeleteDeprecated(p)
  BY <1>10, DeleteDeprecatedDoes DEF DeleteDeprecated, DeleteDeprecatedEffect
<1>12. CASE CreateDeployResource(p)
  <2>1. CreateDeployResourceEffect(p)
    BY <1>12, CreateDeployResourceDoes
  <2> QED  BY <1>12, <2>1 DEF CreateDeployResource, CreateDeployResourceEffect
<1>11. CASE Finish(p)
  BY <1>11, ReturnDoes DEF Finish
<1> QED  BY <1>1, <1>2, <1>3, <1>4, <1>5, <1>6, <1>7, <1>8, <1>9, <1>10, <1>11, <1>12
         DEF CallStep

LEMMA DirectedStep ==
    ASSUME OneCaller \/ OneCluster, TypeInv, Directed, [Next]_vars
    PROVE  Directed'
<1> USE DEF At, managerVars, Directed, DirectedCall
<1>1. CASE UNCHANGED vars
  BY <1>1 DEF vars
<1>2. ASSUME NEW o \in Objs, NEW x \in Contents \cup {None}, GitPush(o, x)
      PROVE  Directed'
  BY <1>2 DEF GitPush
<1>3. ASSUME NEW cl \in Clusters, NEW o \in Objs, NEW x \in Contents \cup {None},
             Drift(cl, o, x)
      PROVE  Directed'
  BY <1>3 DEF Drift
<1>4. ASSUME NEW p \in Procs, NEW a \in Apps, NEW forced \in BOOLEAN,
             CheckSync(p, a, forced)
      PROVE  Directed'
  <2>1. Begins(p, "sync", a)
    BY <1>4, CheckSyncDoes
  <2> QED  BY <1>4, <2>1 DEF CheckSync, Begins
<1>5. ASSUME NEW p \in Procs, NEW a \in Apps, CallClear(p, a)
      PROVE  Directed'
  <2>1. Begins(p, "clear", a)
    BY <1>5, CallClearDoes
  <2> QED  BY <1>5, <2>1 DEF CallClear, Begins
<1>6. ASSUME NEW p \in Procs, CallFails(p)
      PROVE  Directed'
  BY <1>6, ReturnDoes DEF CallFails, Becomes, IdleProc
<1>7. CASE Crash
  BY <1>7 DEF Crash, IdleProc
<1>10. ASSUME NEW r \in Apps \X Objs, CacheRecord(r)
      PROVE  Directed'
  BY <1>10 DEF CacheRecord
<1>8. ASSUME NEW p \in Procs, SetTargetClient(p)
      PROVE  Directed'
  <2>1. proc'[p].app = proc[p].app /\ \A q \in Procs \ {p} : proc'[q] = proc[q]
    BY <1>8, SetTargetClientDoes DEF SetTargetClientEffect, GoesOn, KeepsOwner
  <2>2. targetCli' = DestOf[proc[p].app] /\ proc[p].app \in Apps
    BY <1>8 DEF SetTargetClient, TypeInv, CallsKnow
  <2>3. ASSUME NEW q \in Procs, q # p
        PROVE  DirectedCall(q)'
    BY <2>1, <2>2, <2>3 DEF OneCaller, OneCluster, TypeInv, CallsKnow
  <2> QED  BY <2>1, <2>2, <2>3
<1>9. ASSUME NEW p \in Procs, CallStep(p), ~SetTargetClient(p)
      PROVE  Directed'
  BY <1>9, CallKeepsClient DEF Becomes, IdleProc, KeepsOwner
<1> QED  BY <1>1, <1>2, <1>3, <1>4, <1>5, <1>6, <1>7, <1>8, <1>9, <1>10
         DEF Next

\* Only applyManifest brings something into a cluster.
LEMMA OnlyApplyDeploys ==
    ASSUME TypeInv, [Next]_vars, NEW cl \in Clusters, NEW o \in Objs,
           live[cl][o] = None, live'[cl][o] # None
    PROVE  \E p \in Procs : /\ ApplyManifest(p)
                            /\ cl = targetCli /\ o = proc[p].cur
<1> USE DEF clusterVars, Rejected
<1>1. ASSUME NEW d \in Clusters, NEW b \in Objs, NEW x \in Contents \cup {None},
             Drift(d, b, x)
      PROVE  FALSE
  BY <1>1 DEF Drift, TypeInv, TypeOK
<1>2. ASSUME NEW p \in Procs, ApplyManifest(p)
      PROVE  cl = targetCli /\ o = proc[p].cur
  BY <1>2, ApplyManifestDoes DEF ApplyManifestEffect, TypeInv, TypeOK
<1>3. ASSUME NEW p \in Procs, DeleteDeprecated(p)
      PROVE  FALSE
  BY <1>3, DeleteDeprecatedDoes DEF DeleteDeprecatedEffect, TypeInv, TypeOK
<1>4. ASSUME NEW p \in Procs, CallStep(p), ~ApplyManifest(p), ~DeleteDeprecated(p)
      PROVE  UNCHANGED live
  BY <1>4 DEF CallStep, SetTargetClient, GetManifestInfos, GetDeployResourceList,
              ObjectFromManifest, UpdateDeployResource, CreateDeployResource,
              CompareDeployWithManifest, EndOfManifests, DeleteRecord, GetDeprecated,
              Finish
<1> QED  BY <1>1, <1>2, <1>3, <1>4
         DEF Next, vars, GitPush, CacheRecord, CheckSync, CallClear, CallFails, Crash

LEMMA DestinationStep ==
    ASSUME TypeInv, OwnObjects, Directed, DeployedInDestination, [Next]_vars
    PROVE  DeployedInDestination'
<1> SUFFICES ASSUME NEW cl \in Clusters, NEW o \in Objs, live'[cl][o] # None
             PROVE  \E a \in Apps : DestOf[a] = cl /\ o \in ObjsOf(a)
  BY DEF DeployedInDestination, ObjsOf
<1>1. CASE live[cl][o] # None
  BY <1>1 DEF DeployedInDestination
<1>2. CASE live[cl][o] = None
  <2>1. PICK p \in Procs : ApplyManifest(p) /\ cl = targetCli /\ o = proc[p].cur
    BY <1>2, OnlyApplyDeploys
  <2>2. proc[p].app \in Apps /\ targetCli = DestOf[proc[p].app] /\ o \in ObjsOf(proc[p].app)
    BY <2>1 DEF ApplyManifest, At, Directed, DirectedCall, OwnObjects, OwnCall, TypeInv,
                CallsKnow
  <2> QED  BY <2>1, <2>2
<1> QED  BY <1>1, <1>2

LEMMA OwnObjectsInit == Init => OwnObjects
BY DEF Init, OwnObjects, OwnCall, IdleProc

LEMMA DirectedInit == Init => Directed
BY DEF Init, Directed, DirectedCall, IdleProc

\* Objects are only in clusters that an Application with these manifests names as
\* its destination, whatever fails: as long as all Applications share a repository,
\* and calls do not overlap or all Applications share a cluster.
THEOREM DestinationsKept ==
    ASSUME OneRepository, OneCaller \/ OneCluster
    PROVE  Spec => []DeployedInDestination
<1> DEFINE Inv == TypeInv /\ OwnObjects /\ Directed /\ DeployedInDestination
<1>1. Init => Inv
  BY TypeInit, OwnObjectsInit, DirectedInit DEF Init, DeployedInDestination
<1>2. Inv /\ [Next]_vars => Inv'
  BY TypeStep, OwnObjectsStep, DirectedStep, DestinationStep
<1> QED  BY <1>1, <1>2, PTL DEF Spec

(***************************************************************************)
(* Whose DeployResources a call deletes.                                   *)
(***************************************************************************)
\* The DeployResources a call has left to look at are its own Application's.
OwnOld(p) == \A r \in proc[p].old : r[1] = proc[p].app

OldIsOwn == \A p \in Procs : OwnOld(p)

\* Only getDeployResourceList adds to them.
LEMMA OldShrinks ==
    ASSUME TypeInv, NEW p \in Procs, CallStep(p), ~GetDeployResourceList(p)
    PROVE  proc'[p].old \subseteq proc[p].old
<1> USE DEF Becomes, IdleProc, KeepsLists
<1>1. CASE SetTargetClient(p)
  BY <1>1, SetTargetClientDoes DEF SetTargetClientEffect
<1>2. CASE GetManifestInfos(p)
  BY <1>2, GetManifestInfosDoes DEF GetManifestInfosEffect
<1>3. ASSUME NEW o \in Objs, ObjectFromManifest(p, o)
      PROVE  proc'[p].old \subseteq proc[p].old
  BY <1>3, ObjectFromManifestDoes DEF ObjectFromManifestEffect
<1>4. CASE UpdateDeployResource(p)
  BY <1>4, UpdateDeployResourceDoes DEF UpdateDeployResourceEffect
<1>5. CASE CompareDeployWithManifest(p)
  BY <1>5, CompareDoes DEF CompareEffect
<1>6. CASE ApplyManifest(p)
  BY <1>6, ApplyManifestDoes DEF ApplyManifestEffect
<1>7. CASE EndOfManifests(p)
  BY <1>7, EndOfManifestsDoes DEF EndOfManifestsEffect
<1>8. ASSUME NEW r \in proc[p].old, DeleteRecord(p, r)
      PROVE  proc'[p].old \subseteq proc[p].old
  BY <1>8, DeleteRecordDoes DEF DeleteRecordEffect
<1>9. CASE GetDeprecated(p)
  BY <1>9, GetDeprecatedDoes DEF GetDeprecatedEffect
<1>10. CASE DeleteDeprecated(p)
  BY <1>10, DeleteDeprecatedDoes DEF DeleteDeprecatedEffect
<1>11. CASE Finish(p)
  BY <1>11, ReturnDoes DEF Finish
<1>12. CASE CreateDeployResource(p)
  BY <1>12, CreateDeployResourceDoes DEF CreateDeployResourceEffect
<1> QED  BY <1>1, <1>2, <1>3, <1>4, <1>5, <1>6, <1>7, <1>8, <1>9, <1>10, <1>11, <1>12
         DEF CallStep

LEMMA OldIsOwnStep ==
    ASSUME LabelsDiffer, TypeInv, OldIsOwn, [Next]_vars
    PROVE  OldIsOwn'
<1> USE DEF OldIsOwn, OwnOld
<1>1. CASE UNCHANGED proc
  BY <1>1
<1>2. ASSUME NEW p \in Procs, NEW a \in Apps, NEW forced \in BOOLEAN,
             CheckSync(p, a, forced)
      PROVE  OldIsOwn'
  <2>1. Begins(p, "sync", a)
    BY <1>2, CheckSyncDoes
  <2> QED  BY <2>1 DEF Begins
<1>3. ASSUME NEW p \in Procs, NEW a \in Apps, CallClear(p, a)
      PROVE  OldIsOwn'
  <2>1. Begins(p, "clear", a)
    BY <1>3, CallClearDoes
  <2> QED  BY <2>1 DEF Begins
<1>4. ASSUME NEW p \in Procs, CallFails(p)
      PROVE  OldIsOwn'
  BY <1>4, ReturnDoes DEF CallFails, Becomes, IdleProc
<1>5. CASE Crash
  BY <1>5 DEF Crash, IdleProc
<1>6. ASSUME NEW p \in Procs, GetDeployResourceList(p)
      PROVE  OldIsOwn'
  <2>1. GetDeployResourceListEffect(p)
    BY <1>6, GetDeployResourceListDoes
  <2>2. \A r \in proc'[p].old : r \in Apps \X Objs /\ LabelOf[r[1]] = LabelOf[proc[p].app]
    BY <2>1 DEF GetDeployResourceListEffect, TypeInv, TypeOK
  <2>3. proc'[p].app = proc[p].app /\ proc[p].app \in Apps
    BY <1>6, <2>1 DEF GetDeployResourceList, At, GetDeployResourceListEffect, GoesOn,
                      KeepsOwner, TypeInv, CallsKnow
  <2>4. OwnOld(p)'
    BY <2>2, <2>3 DEF LabelsDiffer
  <2> QED  BY <2>1, <2>4 DEF GetDeployResourceListEffect, GoesOn
<1>7. ASSUME NEW p \in Procs, CallStep(p), ~GetDeployResourceList(p)
      PROVE  OldIsOwn'
  <2>1. proc'[p].old \subseteq proc[p].old
    BY <1>7, OldShrinks
  <2>2. CASE SetTargetClient(p)
    <3>1. SetTargetClientEffect(p)
      BY <2>2, SetTargetClientDoes
    <3> QED  BY <2>1, <3>1 DEF SetTargetClientEffect, GoesOn, KeepsOwner
  <2>3. CASE ~SetTargetClient(p)
    BY <1>7, <2>1, <2>3, CallKeepsClient DEF Becomes, IdleProc, KeepsOwner
  <2> QED  BY <2>2, <2>3
<1> QED  BY <1>1, <1>2, <1>3, <1>4, <1>5, <1>6, <1>7
         DEF Next, vars, GitPush, Drift, CacheRecord

\* Only clearApplicationResources removes DeployResources.
LEMMA OnlyDeleteRecordForgets ==
    ASSUME TypeInv, [Next]_vars, NEW r \in records, r \notin records'
    PROVE  \E p \in Procs : r \in proc[p].old /\ DeleteRecord(p, r)
<1> USE DEF clusterVars, Rejected
<1>1. ASSUME NEW p \in Procs, NEW s \in proc[p].old, DeleteRecord(p, s)
      PROVE  s = r
  BY <1>1 DEF DeleteRecord
<1>2. ASSUME NEW p \in Procs, CreateDeployResource(p)
      PROVE  FALSE
  BY <1>2 DEF CreateDeployResource
<1>3. ASSUME NEW p \in Procs, CallStep(p), ~CreateDeployResource(p),
             \A s \in proc[p].old : ~DeleteRecord(p, s)
      PROVE  UNCHANGED records
  BY <1>3 DEF CallStep, SetTargetClient, GetManifestInfos, GetDeployResourceList,
              ObjectFromManifest, UpdateDeployResource, CompareDeployWithManifest,
              ApplyManifest, EndOfManifests, GetDeprecated, DeleteDeprecated, Finish,
              recordVars
<1> QED  BY <1>1, <1>2, <1>3
         DEF Next, vars, GitPush, Drift, CacheRecord, recordVars, CheckSync, CallClear,
             CallFails, Crash

LEMMA OldIsOwnInit == Init => OldIsOwn
BY DEF Init, OldIsOwn, OwnOld, IdleProc

\* Sync and Clear delete only their own Application's DeployResources, however
\* many of them run, as long as no two Applications have the same label.
THEOREM PruningIsOwn ==
    ASSUME LabelsDiffer
    PROVE  Spec => PrunesOwnOnly
<1> DEFINE Inv == TypeInv /\ OldIsOwn
<1>1. Init => Inv
  BY TypeInit, OldIsOwnInit
<1>2. Inv /\ [Next]_vars => Inv'
  BY TypeStep, OldIsOwnStep
<1>3. ASSUME Inv, [Next]_vars, NEW r \in records \ records'
      PROVE  \E p \in Procs : At(p, "prune") /\ proc[p].app = r[1]
  BY <1>3, OnlyDeleteRecordForgets DEF DeleteRecord, OldIsOwn, OwnOld
<1>4. Inv /\ [Next]_vars
        => [\A r \in records \ records' :
              \E p \in Procs : At(p, "prune") /\ proc[p].app = r[1]]_vars
  BY <1>3
<1> QED  BY <1>1, <1>2, <1>4, PTL DEF Spec, PrunesOwnOnly

(***************************************************************************)
(* What a call knows of the repository.                                    *)
(***************************************************************************)
\* Only a Sync looks at manifests; it compares and applies what the repository
\* holds, and applies only by policy or force.
KnowsManifest(p) ==
    /\ proc[p].pc \in {"infos", "next", "record", "create", "compare", "apply"}
         => proc[p].op = "sync"
    /\ proc[p].pc \in {"record", "create", "compare", "apply"}
         => proc[p].want = manifest[proc[p].cur] /\ proc[p].want # None
    /\ proc[p].pc = "apply" => Applies(p)

\* A Sync that lists DeployResources knows every manifest of its Application.
KnowsTodo(p) ==
    proc[p].pc = "list" /\ proc[p].op = "sync"
      => \A o \in ObjsOf(proc[p].app) : manifest[o] # None => o \in proc[p].todo

\* A listed DeployResource has no manifest, or that is still to come, or done.
KnowsOld(p) ==
    /\ proc[p].pc \in {"next", "record", "create", "compare", "apply"}
         => \A r \in proc[p].old :
              \/ manifest[r[2]] = None \/ r[2] \in proc[p].todo \/ r \in proc[p].updated
              \/ proc[p].pc \in {"record", "create"} /\ proc[p].cur = r[2]
    /\ proc[p].pc \in {"prune", "get", "delete"} /\ proc[p].op = "sync"
         => \A r \in proc[p].old : manifest[r[2]] = None
    /\ proc[p].pc \in {"get", "delete"} /\ proc[p].op = "sync"
         => manifest[proc[p].cur] = None

KnownManifests == \A p \in Procs : KnowsManifest(p) /\ KnowsTodo(p) /\ KnowsOld(p)

LEMMA KnownKept ==
    ASSUME KnownManifests, NEW p \in Procs, \A q \in Procs \ {p} : proc'[q] = proc[q],
           UNCHANGED manifest, KnowsManifest(p)', KnowsTodo(p)', KnowsOld(p)'
    PROVE  KnownManifests'
<1>1. \A q \in Procs \ {p} : KnowsManifest(q)' /\ KnowsTodo(q)' /\ KnowsOld(q)'
  BY DEF KnownManifests, KnowsManifest, KnowsTodo, KnowsOld, Applies, ObjsOf
<1> QED  BY <1>1 DEF KnownManifests

LEMMA KnownManifestsStep ==
    ASSUME OneRepository, LabelsDiffer, Undisturbed, TypeInv, OwnObjects, OldIsOwn,
           KnownManifests, [Next]_vars
    PROVE  KnownManifests'
<1> USE DEF At, Rejected, envVars, Becomes, GoesOn, KeepsOwner, KeepsLists, KeepsCurrent
<1>1. ASSUME NEW p \in Procs, \A q \in Procs \ {p} : proc'[q] = proc[q],
             UNCHANGED manifest, proc'[p].pc \in {"idle", "target"}
      PROVE  KnownManifests'
  BY <1>1, KnownKept DEF KnowsManifest, KnowsTodo, KnowsOld
<1>2. CASE UNCHANGED <<proc, manifest>>
  BY <1>2 DEF KnownManifests, KnowsManifest, KnowsTodo, KnowsOld, Applies, ObjsOf
<1>3. ASSUME NEW o \in Objs, NEW x \in Contents \cup {None}, GitPush(o, x)
      PROVE  KnownManifests'
  BY <1>3 DEF GitPush, Undisturbed, Quiet, KnownManifests, KnowsManifest, KnowsTodo,
              KnowsOld
<1>4. ASSUME NEW p \in Procs, NEW a \in Apps, NEW forced \in BOOLEAN,
             CheckSync(p, a, forced)
      PROVE  KnownManifests'
  <2>1. Begins(p, "sync", a)
    BY <1>4, CheckSyncDoes
  <2> QED  BY <1>1, <1>4, <2>1 DEF CheckSync, Begins
<1>5. ASSUME NEW p \in Procs, NEW a \in Apps, CallClear(p, a)
      PROVE  KnownManifests'
  <2>1. Begins(p, "clear", a)
    BY <1>5, CallClearDoes
  <2> QED  BY <1>1, <1>5, <2>1 DEF CallClear, Begins
<1>6. ASSUME NEW p \in Procs, UNCHANGED manifest, Becomes(p, IdleProc)
      PROVE  KnownManifests'
  BY <1>1, <1>6 DEF IdleProc
<1>7. CASE Crash
  BY <1>7 DEF Crash, IdleProc, KnownManifests, KnowsManifest, KnowsTodo, KnowsOld
<1>8. ASSUME NEW p \in Procs, CallStep(p)
      PROVE  KnownManifests'
  <2>1. /\ proc[p].pc # "idle" => proc[p].app \in Apps
        /\ OwnCall(p) /\ OwnOld(p) /\ proc[p].old \subseteq Apps \X Objs
        /\ KnowsManifest(p) /\ KnowsTodo(p) /\ KnowsOld(p)
    BY DEF TypeInv, TypeOK, CallsKnow, Proc, OwnObjects, OldIsOwn, KnownManifests
  <2>2. UNCHANGED manifest
    BY <1>8 DEF CallStep, SetTargetClient, GetManifestInfos, GetDeployResourceList,
                ObjectFromManifest, UpdateDeployResource, CreateDeployResource,
                CompareDeployWithManifest, ApplyManifest, EndOfManifests, DeleteRecord, GetDeprecated,
                DeleteDeprecated, Finish
  <2>3. CASE SetTargetClient(p)
    <3>1. SetTargetClientEffect(p)
      BY <2>3, SetTargetClientDoes
    <3>2. KnowsManifest(p)' /\ KnowsTodo(p)' /\ KnowsOld(p)'
      BY <3>1 DEF SetTargetClientEffect, KnowsManifest, KnowsTodo, KnowsOld
    <3> QED  BY <2>2, <3>1, <3>2, KnownKept DEF SetTargetClientEffect
  <2>4. CASE GetManifestInfos(p)
    <3>1. GetManifestInfosEffect(p)
      BY <2>4, GetManifestInfosDoes
    <3>2. gitCli = RepoOf[proc[p].app] /\ proc'[p].app = proc[p].app
      BY <2>1, <2>4, <3>1 DEF GetManifestInfos, GetManifestInfosEffect, OwnObjects, OwnCall
    <3>3. KnowsTodo(p)'
      BY <2>2, <3>1, <3>2 DEF GetManifestInfosEffect, KnowsTodo, ObjsOf, SourceOf
    <3>4. KnowsManifest(p)' /\ KnowsOld(p)'
      BY <3>1 DEF GetManifestInfosEffect, KnowsManifest, KnowsOld
    <3> QED  BY <2>2, <3>1, <3>3, <3>4, KnownKept DEF GetManifestInfosEffect
  <2>5. CASE GetDeployResourceList(p)
    <3>1. GetDeployResourceListEffect(p)
      BY <2>5, GetDeployResourceListDoes
    <3>2. proc'[p].pc = IF proc[p].op = "sync" THEN "next" ELSE "prune"
      BY <3>1 DEF GetDeployResourceListEffect
    <3>3. KnowsManifest(p)' /\ KnowsTodo(p)'
      BY <3>1, <3>2 DEF GetDeployResourceListEffect, KnowsManifest, KnowsTodo
    <3>4. CASE proc[p].op = "sync"
      <4>1. \A r \in proc'[p].old :
                r[2] \in ObjsOf(r[1]) /\ r[1] = proc[p].app
        <5>1. proc'[p].old \subseteq cached /\ cached \subseteq Apps \X Objs
          BY <3>1 DEF GetDeployResourceListEffect, TypeInv, TypeOK
        <5>2. \A r \in proc'[p].old : LabelOf[r[1]] = LabelOf[proc[p].app]
          BY <3>1 DEF GetDeployResourceListEffect
        <5>3. proc[p].app \in Apps
          BY <2>1, <2>5 DEF GetDeployResourceList
        <5> QED  BY <5>1, <5>2, <5>3 DEF OwnObjects, LabelsDiffer
      <4>2. \A r \in proc'[p].old : manifest[r[2]] = None \/ r[2] \in proc[p].todo
        BY <2>1, <2>5, <3>4, <4>1 DEF GetDeployResourceList, KnowsTodo
      <4>3. proc'[p].pc = "next" /\ proc'[p].todo = proc[p].todo
        BY <3>1, <3>2, <3>4 DEF GetDeployResourceListEffect
      <4>4. KnowsOld(p)'
        BY <2>2, <4>2, <4>3 DEF KnowsOld
      <4> QED  BY <2>2, <3>1, <3>3, <4>4, KnownKept DEF GetDeployResourceListEffect
    <3>5. CASE proc[p].op # "sync"
      <4>1. KnowsOld(p)'
        BY <3>1, <3>2, <3>5 DEF GetDeployResourceListEffect, KnowsOld
      <4> QED  BY <2>2, <3>1, <3>3, <4>1, KnownKept DEF GetDeployResourceListEffect
    <3> QED  BY <3>4, <3>5
  <2>6. ASSUME NEW o \in Objs, ObjectFromManifest(p, o), ~Becomes(p, IdleProc)
        PROVE  KnownManifests'
    <3>1. ObjectFromManifestEffect(p, o)
      BY <2>6, ObjectFromManifestDoes
    <3>2. KnowsManifest(p)' /\ KnowsTodo(p)'
      BY <2>1, <2>2, <2>6, <3>1
         DEF ObjectFromManifest, ObjectFromManifestEffect, KnowsManifest, KnowsTodo
    <3>3. KnowsOld(p)'
      BY <2>1, <2>2, <2>6, <3>1
         DEF ObjectFromManifest, ObjectFromManifestEffect, KnowsOld
    <3> QED  BY <2>2, <2>6, <3>1, <3>2, <3>3, KnownKept DEF ObjectFromManifestEffect
  <2>7. ASSUME GoesOn(p, "compare"), proc[p].pc \in {"record", "create"},
               proc'[p].todo = proc[p].todo, proc'[p].old = proc[p].old, KeepsCurrent(p),
               proc'[p].updated = proc[p].updated \cup {OwnRecord(p)}
        PROVE  KnownManifests'
    <3>1. KnowsManifest(p)' /\ KnowsTodo(p)'
      BY <2>1, <2>2, <2>7 DEF KnowsManifest, KnowsTodo
    <3>2. ASSUME NEW r \in proc'[p].old
          PROVE  \/ manifest[r[2]] = None \/ r[2] \in proc'[p].todo
                 \/ r \in proc'[p].updated
      <4>1. r \in proc[p].old
        BY <2>7, <3>2
      <4>2. r = <<r[1], r[2]>> /\ r[1] = proc[p].app
        BY <2>1, <4>1 DEF OwnOld
      <4>3. \/ manifest[r[2]] = None \/ r[2] \in proc[p].todo \/ r \in proc[p].updated
            \/ proc[p].cur = r[2]
        BY <2>1, <2>7, <4>1 DEF KnowsOld
      <4>4. CASE proc[p].cur = r[2]
        <5>1. r = OwnRecord(p)
          BY <4>2, <4>4 DEF OwnRecord
        <5> QED  BY <2>7, <5>1
      <4> QED  BY <2>7, <4>3, <4>4
    <3>3. KnowsOld(p)'
      BY <2>2, <2>7, <3>2 DEF KnowsOld
    <3> QED  BY <2>2, <2>7, <3>1, <3>3, KnownKept
  <2>15. CASE UpdateDeployResource(p)
    <3>1. UpdateDeployResourceEffect(p) /\ proc[p].pc = "record"
      BY <2>15, UpdateDeployResourceDoes DEF UpdateDeployResource
    <3>2. CASE GoesOn(p, "create") /\ proc'[p].updated = proc[p].updated
      <4>1. KnowsManifest(p)' /\ KnowsTodo(p)' /\ KnowsOld(p)'
        BY <2>1, <2>2, <3>1, <3>2
           DEF UpdateDeployResourceEffect, KnowsManifest, KnowsTodo, KnowsOld
      <4> QED  BY <2>2, <3>2, <4>1, KnownKept
    <3> QED  BY <2>7, <3>1, <3>2 DEF UpdateDeployResourceEffect
  <2>16. CASE CreateDeployResource(p) /\ ~Becomes(p, IdleProc)
    <3>1. CreateDeployResourceEffect(p) /\ proc[p].pc = "create"
      BY <2>16, CreateDeployResourceDoes DEF CreateDeployResource
    <3> QED  BY <2>7, <2>16, <3>1 DEF CreateDeployResourceEffect
  <2>8. CASE CompareDeployWithManifest(p)
    <3>1. CompareEffect(p)
      BY <2>8, CompareDoes
    <3>2. KnowsManifest(p)' /\ KnowsTodo(p)' /\ KnowsOld(p)'
      BY <2>1, <2>2, <2>8, <3>1
         DEF CompareDeployWithManifest, CompareEffect, KnowsManifest, KnowsTodo,
             KnowsOld, Applies
    <3> QED  BY <2>2, <3>1, <3>2, KnownKept DEF CompareEffect
  <2>9. CASE ApplyManifest(p) /\ ~Becomes(p, IdleProc)
    <3>1. ApplyManifestEffect(p)
      BY <2>9, ApplyManifestDoes
    <3>2. KnowsManifest(p)' /\ KnowsTodo(p)' /\ KnowsOld(p)'
      BY <2>1, <2>2, <2>9, <3>1
         DEF ApplyManifest, ApplyManifestEffect, KnowsManifest, KnowsTodo, KnowsOld
    <3> QED  BY <2>2, <2>9, <3>1, <3>2, KnownKept DEF ApplyManifestEffect
  <2>10. CASE EndOfManifests(p)
    <3>1. EndOfManifestsEffect(p)
      BY <2>10, EndOfManifestsDoes
    <3>2. KnowsManifest(p)' /\ KnowsTodo(p)'
      BY <3>1 DEF EndOfManifestsEffect, KnowsManifest, KnowsTodo
    <3>3. \A r \in proc'[p].old : manifest[r[2]] = None
      BY <2>1, <2>10, <3>1 DEF EndOfManifests, EndOfManifestsEffect, KnowsOld
    <3>4. KnowsOld(p)'
      BY <2>2, <3>1, <3>3 DEF EndOfManifestsEffect, KnowsOld
    <3> QED  BY <2>2, <3>1, <3>2, <3>4, KnownKept DEF EndOfManifestsEffect
  <2>11. ASSUME NEW r \in proc[p].old, DeleteRecord(p, r), ~Becomes(p, IdleProc)
         PROVE  KnownManifests'
    <3>1. DeleteRecordEffect(p, r)
      BY <2>11, DeleteRecordDoes
    <3>2. KnowsManifest(p)' /\ KnowsTodo(p)'
      BY <2>11, <3>1 DEF DeleteRecordEffect, KnowsManifest, KnowsTodo
    <3>3. KnowsOld(p)'
      BY <2>1, <2>2, <2>11, <3>1 DEF DeleteRecord, DeleteRecordEffect, KnowsOld
    <3> QED  BY <2>2, <2>11, <3>1, <3>2, <3>3, KnownKept DEF DeleteRecordEffect
  <2>12. CASE GetDeprecated(p)
    <3>1. GetDeprecatedEffect(p)
      BY <2>12, GetDeprecatedDoes
    <3>2. KnowsManifest(p)' /\ KnowsTodo(p)' /\ KnowsOld(p)'
      BY <2>1, <2>2, <2>12, <3>1
         DEF GetDeprecated, GetDeprecatedEffect, KnowsManifest, KnowsTodo, KnowsOld
    <3> QED  BY <2>2, <3>1, <3>2, KnownKept DEF GetDeprecatedEffect
  <2>13. CASE DeleteDeprecated(p) /\ ~Becomes(p, IdleProc)
    <3>1. DeleteDeprecatedEffect(p)
      BY <2>13, DeleteDeprecatedDoes
    <3>2. KnowsManifest(p)' /\ KnowsTodo(p)' /\ KnowsOld(p)'
      BY <2>1, <2>2, <2>13, <3>1
         DEF DeleteDeprecated, DeleteDeprecatedEffect, KnowsManifest, KnowsTodo, KnowsOld
    <3> QED  BY <2>2, <2>13, <3>1, <3>2, KnownKept DEF DeleteDeprecatedEffect
  <2>14. CASE Finish(p)
    BY <1>6, <2>2, <2>14, ReturnDoes DEF Finish
  <2> QED  BY <1>6, <1>8, <2>2, <2>3, <2>4, <2>5, <2>6, <2>7, <2>8, <2>9, <2>10, <2>11,
              <2>12, <2>13, <2>14, <2>15, <2>16 DEF CallStep
<1> QED  BY <1>2, <1>3, <1>4, <1>5, <1>6, <1>7, <1>8, ReturnDoes
         DEF Next, vars, Drift, CacheRecord, CallFails

LEMMA KnownManifestsInit == Init => KnownManifests
BY DEF Init, KnownManifests, KnowsManifest, KnowsTodo, KnowsOld, IdleProc

\* Nothing of this process but deleteDeprecated takes an object out of a cluster.
LEMMA OnlyDeleteRemoves ==
    ASSUME TypeInv, KnownManifests, [Next]_vars, NEW cl \in Clusters, NEW o \in Objs,
           live[cl][o] # None, live'[cl][o] = None, UNCHANGED drifts
    PROVE  \E p \in Procs : /\ DeleteDeprecated(p)
                            /\ cl = targetCli /\ o = proc[p].cur
<1> USE DEF clusterVars, Rejected
<1>1. ASSUME NEW d \in Clusters, NEW b \in Objs, NEW x \in Contents \cup {None},
             Drift(d, b, x)
      PROVE  FALSE
  BY <1>1 DEF Drift, TypeInv, TypeOK
<1>2. ASSUME NEW p \in Procs, ApplyManifest(p)
      PROVE  FALSE
  <2>1. ApplyManifestEffect(p)
    BY <1>2, ApplyManifestDoes
  <2>2. proc[p].want # None
    BY <1>2 DEF ApplyManifest, At, KnownManifests, KnowsManifest
  <2> QED  BY <2>1, <2>2 DEF ApplyManifestEffect, TypeInv, TypeOK
<1>3. ASSUME NEW p \in Procs, DeleteDeprecated(p)
      PROVE  cl = targetCli /\ o = proc[p].cur
  BY <1>3, DeleteDeprecatedDoes DEF DeleteDeprecatedEffect, TypeInv, TypeOK
<1>4. ASSUME NEW p \in Procs, CallStep(p), ~ApplyManifest(p), ~DeleteDeprecated(p)
      PROVE  UNCHANGED live
  BY <1>4 DEF CallStep, SetTargetClient, GetManifestInfos, GetDeployResourceList,
              ObjectFromManifest, UpdateDeployResource, CreateDeployResource,
              CompareDeployWithManifest, EndOfManifests, DeleteRecord, GetDeprecated,
              Finish
<1> QED  BY <1>1, <1>2, <1>3, <1>4
         DEF Next, vars, GitPush, CacheRecord, CheckSync, CallClear, CallFails, Crash

\* A Sync deletes only what the repository no longer holds, however many calls run,
\* fail or die, as long as nobody pushes on the way.
THEOREM PruningIsOfTheRemoved ==
    ASSUME OneRepository, LabelsDiffer, Undisturbed
    PROVE  Spec => PrunesOnlyRemoved
<1> DEFINE Inv == TypeInv /\ OwnObjects /\ OldIsOwn /\ KnownManifests
<1>1. Init => Inv
  BY TypeInit, OwnObjectsInit, OldIsOwnInit, KnownManifestsInit
<1>2. Inv /\ [Next]_vars => Inv'
  BY TypeStep, OwnObjectsStep, OldIsOwnStep, KnownManifestsStep
<1>3. ASSUME Inv, [Next]_vars, NEW cl \in Clusters, NEW o \in Objs,
             live[cl][o] # None, live'[cl][o] = None, drifts' = drifts
      PROVE  \/ manifest[o] = None
             \/ \E p \in Procs : At(p, "delete") /\ proc[p].op = "clear"
  <2>1. PICK p \in Procs : DeleteDeprecated(p) /\ o = proc[p].cur
    BY <1>3, OnlyDeleteRemoves
  <2>2. At(p, "delete") /\ proc[p].op \in {"sync", "clear"}
    BY <1>3, <2>1 DEF DeleteDeprecated, TypeInv, TypeOK, Proc
  <2> QED  BY <1>3, <2>1, <2>2 DEF At, KnownManifests, KnowsOld
<1>4. Inv /\ [Next]_vars
        => [\A cl \in Clusters, o \in Objs :
              live[cl][o] # None /\ live'[cl][o] = None /\ drifts' = drifts
                => \/ manifest[o] = None
                   \/ \E p \in Procs : At(p, "delete") /\ proc[p].op = "clear"]_vars
  BY <1>3
<1> QED  BY <1>1, <1>2, <1>4, PTL DEF Spec, PrunesOnlyRemoved

(***************************************************************************)
(* That deployed objects are tracked.                                      *)
(***************************************************************************)
\* The Application's call has just deleted the DeployResource of the object.
Deleting(a, o) ==
    \E p \in Procs : /\ proc[p].pc \in {"get", "delete"}
                     /\ proc[p].cur = o /\ proc[p].app = a

\* What has a DeployResource, or should have had one.
Traced == records \cup skipped

\* What tracks an object in a cluster: a DeployResource of an Application that
\* deploys it there, or the call that is about to delete it.
TrackedBy(a, cl, o) ==
    /\ DestOf[a] = cl /\ o \in ObjsOf(a)
    /\ <<a, o>> \in Traced \/ Deleting(a, o)

\* updateDeployResource comes before applyManifest.
RecordedFirst ==
    \A p \in Procs : proc[p].pc \in {"compare", "apply"}
                       => OwnRecord(p) \in Traced

TrackedByOwner ==
    /\ \A cl \in Clusters, o \in Objs :
         live[cl][o] # None => \E a \in Apps : TrackedBy(a, cl, o)
    /\ RecordedFirst

LEMMA TrackedKept ==
    ASSUME TrackedByOwner, NEW p \in Procs, \A q \in Procs \ {p} : proc'[q] = proc[q],
           proc[p].pc \notin {"get", "delete"}, Traced \subseteq Traced',
           \A cl \in Clusters, o \in Objs : live'[cl][o] # None => live[cl][o] # None,
           proc'[p].pc \in {"compare", "apply"} => OwnRecord(p)' \in Traced'
    PROVE  TrackedByOwner'
<1>1. \A a \in Apps, o \in Objs : Deleting(a, o) => Deleting(a, o)'
  BY DEF Deleting
<1>2. \A cl \in Clusters, o \in Objs :
        live'[cl][o] # None => \E a \in Apps : TrackedBy(a, cl, o)'
  BY <1>1 DEF TrackedByOwner, TrackedBy, ObjsOf
<1>3. RecordedFirst'
  BY DEF TrackedByOwner, RecordedFirst, OwnRecord
<1> QED  BY <1>2, <1>3 DEF TrackedByOwner

LEMMA TrackedStep ==
    ASSUME OneCaller, LabelsDiffer, Reliable, TypeInv, OwnObjects, Directed, OldIsOwn,
           TrackedByOwner, [Next]_vars
    PROVE  TrackedByOwner'
<1> USE DEF At, Rejected, envVars, clusterVars, Becomes, GoesOn, KeepsOwner, KeepsLists,
            KeepsCurrent, IdleProc, Traced, OwnRecord
<1>1. CASE UNCHANGED <<live, records, skipped, proc>>
  BY <1>1 DEF TrackedByOwner, TrackedBy, RecordedFirst, Deleting, ObjsOf
<1>2. ASSUME NEW cl \in Clusters, NEW o \in Objs, NEW x \in Contents \cup {None},
             Drift(cl, o, x)
      PROVE  TrackedByOwner'
  <2>1. \A d \in Clusters, b \in Objs : live'[d][b] # None => live[d][b] # None
    BY <1>2 DEF Drift, TypeInv, TypeOK
  <2>2. UNCHANGED <<records, skipped, proc>>
    BY <1>2 DEF Drift, recordVars
  <2>3. \A a \in Apps, d \in Clusters, b \in Objs :
          TrackedBy(a, d, b) => TrackedBy(a, d, b)'
    BY <2>2 DEF TrackedBy, Deleting, ObjsOf
  <2>4. RecordedFirst'
    BY <2>2 DEF TrackedByOwner, RecordedFirst
  <2> QED  BY <2>1, <2>3, <2>4 DEF TrackedByOwner
<1>3. ASSUME NEW p \in Procs, NEW a \in Apps, NEW forced \in BOOLEAN,
             CheckSync(p, a, forced)
      PROVE  TrackedByOwner'
  <2>1. Begins(p, "sync", a)
    BY <1>3, CheckSyncDoes
  <2> QED  BY <1>3, <2>1, TrackedKept DEF CheckSync, Begins
<1>4. ASSUME NEW p \in Procs, NEW a \in Apps, CallClear(p, a)
      PROVE  TrackedByOwner'
  <2>1. Begins(p, "clear", a)
    BY <1>4, CallClearDoes
  <2> QED  BY <1>4, <2>1, TrackedKept DEF CallClear, Begins
<1>5. ~Crash /\ \A p \in Procs : ~CallFails(p)
  BY BoundAssumption DEF CallFails, Crash, Reliable, TypeInv, TypeOK
<1>6. ASSUME NEW p \in Procs, CallStep(p)
      PROVE  TrackedByOwner'
  <2> DEFINE Kept ==
        /\ \A q \in Procs \ {p} : proc'[q] = proc[q]
        /\ proc[p].pc \notin {"get", "delete"} /\ Traced \subseteq Traced'
        /\ \A cl \in Clusters, o \in Objs : live'[cl][o] # None => live[cl][o] # None
        /\ proc'[p].pc \in {"compare", "apply"} => OwnRecord(p)' \in Traced'
  <2>1. Kept => TrackedByOwner'
    BY TrackedKept
  <2>2. SetTargetClient(p) => Kept
    BY SetTargetClientDoes DEF SetTargetClient, SetTargetClientEffect
  <2>3. GetManifestInfos(p) => Kept
    BY GetManifestInfosDoes DEF GetManifestInfos, GetManifestInfosEffect
  <2>4. GetDeployResourceList(p) => Kept
    BY GetDeployResourceListDoes DEF GetDeployResourceList, GetDeployResourceListEffect
  <2>5. ASSUME NEW o \in Objs, ObjectFromManifest(p, o)
        PROVE  Kept
    <3>1. ObjectFromManifestEffect(p, o)
      BY <2>5, ObjectFromManifestDoes
    <3> QED  BY <2>5, <3>1 DEF ObjectFromManifest, ObjectFromManifestEffect
  <2>6. ASSUME UpdateDeployResource(p)
        PROVE  Kept
    <3>1. UpdateDeployResourceEffect(p)
      BY <2>6, UpdateDeployResourceDoes
    <3> QED  BY <2>6, <3>1 DEF UpdateDeployResource, UpdateDeployResourceEffect
  <2>15. ASSUME CreateDeployResource(p)
         PROVE  Kept
    <3>1. CreateDeployResourceEffect(p)
      BY <2>15, CreateDeployResourceDoes
    <3> QED  BY <2>15, <3>1 DEF CreateDeployResource, CreateDeployResourceEffect
  <2>7. ASSUME CompareDeployWithManifest(p)
        PROVE  Kept
    <3>1. CompareEffect(p)
      BY <2>7, CompareDoes
    <3>2. OwnRecord(p) \in Traced
      BY <2>7 DEF CompareDeployWithManifest, TrackedByOwner, RecordedFirst
    <3> QED  BY <2>7, <3>1, <3>2 DEF CompareDeployWithManifest, CompareEffect
  <2>8. CASE ApplyManifest(p)
    <3>1. ApplyManifestEffect(p)
      BY <2>8, ApplyManifestDoes
    <3>2. CASE Becomes(p, IdleProc)
      <4>1. Kept
        BY <2>8, <3>1, <3>2 DEF ApplyManifest, ApplyManifestEffect, recordVars
      <4> QED  BY <2>1, <4>1
    <3>3. CASE ~Becomes(p, IdleProc)
      <4>1. /\ live' = [live EXCEPT ![targetCli][proc[p].cur] = proc[p].want]
            /\ GoesOn(p, "next") /\ UNCHANGED <<records, skipped>>
        BY <3>1, <3>3 DEF ApplyManifestEffect, recordVars
      <4>2. /\ proc[p].app \in Apps
            /\ TrackedBy(proc[p].app, targetCli, proc[p].cur)
        BY <2>8 DEF ApplyManifest, TrackedBy, TrackedByOwner, RecordedFirst, Directed,
                    DirectedCall, OwnObjects, OwnCall, TypeInv, CallsKnow
      <4>3. \A a \in Apps, cl \in Clusters, o \in Objs :
              TrackedBy(a, cl, o) => TrackedBy(a, cl, o)'
        BY <2>8, <4>1 DEF ApplyManifest, TrackedBy, Deleting, ObjsOf
      <4>4. ASSUME NEW cl \in Clusters, NEW o \in Objs, live'[cl][o] # None
            PROVE  \E a \in Apps : TrackedBy(a, cl, o)
        BY <4>1, <4>2, <4>4 DEF TrackedByOwner, TypeInv, TypeOK
      <4>5. RecordedFirst'
        BY <4>1 DEF TrackedByOwner, RecordedFirst
      <4> QED  BY <4>3, <4>4, <4>5 DEF TrackedByOwner
    <3> QED  BY <3>2, <3>3
  <2>9. EndOfManifests(p) => Kept
    BY EndOfManifestsDoes DEF EndOfManifests, EndOfManifestsEffect
  <2>10. ASSUME NEW r \in proc[p].old, DeleteRecord(p, r)
         PROVE  TrackedByOwner'
    <3>1. DeleteRecordEffect(p, r)
      BY <2>10, DeleteRecordDoes
    <3>2. CASE Becomes(p, IdleProc)
      <4>1. Kept
        BY <2>10, <3>1, <3>2 DEF DeleteRecord, DeleteRecordEffect
      <4> QED  BY <2>1, <4>1
    <3>3. CASE ~Becomes(p, IdleProc)
      <4>1. /\ records' = records \ {r} /\ UNCHANGED <<live, skipped>>
            /\ GoesOn(p, "get") /\ proc'[p].cur = r[2]
        BY <3>1, <3>3 DEF DeleteRecordEffect
      <4>2. r = <<r[1], r[2]>> /\ r[1] = proc[p].app
        BY DEF OldIsOwn, OwnOld, TypeInv, TypeOK, Proc
      <4>3. ASSUME NEW a \in Apps, NEW cl \in Clusters, NEW o \in Objs,
                   TrackedBy(a, cl, o)
            PROVE  TrackedBy(a, cl, o)'
        <5>1. CASE Deleting(a, o)
          <6>1. Deleting(a, o)'
            BY <2>10, <4>1, <5>1 DEF DeleteRecord, Deleting
          <6> QED  BY <4>3, <6>1 DEF TrackedBy, ObjsOf
        <5>2. CASE <<a, o>> = r
          <6>1. a = proc[p].app /\ o = r[2]
            BY <4>2, <5>2
          <6>2. Deleting(a, o)'
            BY <4>1, <6>1 DEF Deleting
          <6> QED  BY <4>3, <6>2 DEF TrackedBy, ObjsOf
        <5>3. CASE <<a, o>> # r /\ <<a, o>> \in Traced
          BY <4>1, <4>3, <5>3 DEF TrackedBy, ObjsOf
        <5> QED  BY <4>3, <5>1, <5>2, <5>3 DEF TrackedBy
      <4>4. RecordedFirst'
        BY <4>1 DEF OneCaller, RecordedFirst
      <4> QED  BY <4>1, <4>3, <4>4 DEF TrackedByOwner
    <3> QED  BY <3>2, <3>3
  <2>11. ASSUME proc[p].pc \in {"get", "delete"}, live'[targetCli][proc[p].cur] = None,
                UNCHANGED <<records, skipped>>, proc'[p].pc \in {"idle", "prune"},
                \A cl \in Clusters, o \in Objs : live'[cl][o] # None => live[cl][o] # None
         PROVE  TrackedByOwner'
    <3>1. ASSUME NEW a \in Apps, NEW cl \in Clusters, NEW o \in Objs,
                 TrackedBy(a, cl, o), live'[cl][o] # None
          PROVE  TrackedBy(a, cl, o)'
      <4>1. ~Deleting(a, o)
        BY <2>11, <3>1 DEF Deleting, OneCaller, Directed, DirectedCall, TrackedBy
      <4> QED  BY <2>11, <3>1, <4>1 DEF TrackedBy, ObjsOf
    <3>2. RecordedFirst'
      BY <2>11 DEF OneCaller, RecordedFirst
    <3> QED  BY <2>11, <3>1, <3>2 DEF TrackedByOwner
  <2>12. CASE GetDeprecated(p)
    <3>1. GetDeprecatedEffect(p)
      BY <2>12, GetDeprecatedDoes
    <3>2. UNCHANGED <<live, records, skipped>> /\ proc[p].pc = "get"
      BY <2>12 DEF GetDeprecated
    <3>3. CASE GoesOn(p, "prune") /\ live[targetCli][proc[p].cur] = None
      BY <2>11, <3>2, <3>3
    <3>4. CASE GoesOn(p, "delete")
      <4>1. \A a \in Apps, o \in Objs : Deleting(a, o) => Deleting(a, o)'
        BY <3>1, <3>4 DEF GetDeprecatedEffect, Deleting
      <4>2. RecordedFirst'
        BY <3>2, <3>4 DEF TrackedByOwner, RecordedFirst
      <4> QED  BY <3>2, <4>1, <4>2 DEF TrackedByOwner, TrackedBy, ObjsOf
    <3> QED  BY <3>1, <3>3, <3>4 DEF GetDeprecatedEffect
  <2>14. CASE DeleteDeprecated(p)
    <3>1. DeleteDeprecatedEffect(p)
      BY <2>14, DeleteDeprecatedDoes
    <3>2. /\ proc[p].pc = "delete" /\ proc'[p].pc \in {"idle", "prune"}
          /\ UNCHANGED <<records, skipped>>
      BY <2>14, <3>1 DEF DeleteDeprecated, DeleteDeprecatedEffect, recordVars
    <3>3. live'[targetCli][proc[p].cur] = None
      BY <3>1, <3>2 DEF DeleteDeprecatedEffect, TypeInv, TypeOK, CallsKnow, UsesCur
    <3>4. \A cl \in Clusters, o \in Objs : live'[cl][o] # None => live[cl][o] # None
      BY <3>1 DEF DeleteDeprecatedEffect, TypeInv, TypeOK
    <3> QED  BY <2>11, <3>2, <3>3, <3>4
  <2>13. Finish(p) => Kept
    BY ReturnDoes DEF Finish
  <2> QED  BY <1>6, <2>1, <2>2, <2>3, <2>4, <2>5, <2>6, <2>7, <2>8, <2>9, <2>10, <2>12,
              <2>13, <2>14, <2>15 DEF CallStep
<1> QED  BY <1>1, <1>2, <1>3, <1>4, <1>5, <1>6 DEF Next, vars, GitPush, CacheRecord

LEMMA TrackedInit == Init => TrackedByOwner
BY DEF Init, TrackedByOwner, RecordedFirst, IdleProc

\* The invariants that one caller at a time keeps when nothing fails.
SerialInv == /\ TypeInv /\ OwnObjects /\ Directed /\ OldIsOwn
             /\ TrackedByOwner

LEMMA SerialStep ==
    ASSUME OneCaller, OneRepository, LabelsDiffer, Reliable, SerialInv, [Next]_vars
    PROVE  SerialInv'
BY TypeStep, OwnObjectsStep, DirectedStep, OldIsOwnStep, TrackedStep DEF SerialInv

LEMMA SerialInit == Init => SerialInv
BY TypeInit, OwnObjectsInit, DirectedInit, OldIsOwnInit, TrackedInit DEF SerialInv

\* A deployed object has a DeployResource until just before it is deleted itself,
\* unless the informer still showed a deleted one when it was to be made, however far
\* that lags; as long as one call runs after the other and none fails.
THEOREM DeployedAreTracked ==
    ASSUME OneCaller, OneRepository, LabelsDiffer, Reliable
    PROVE  Spec => []Tracked
<1>1. SerialInv => Tracked
  BY DEF SerialInv, TrackedByOwner, TrackedBy, Traced, Deleting, Tracked
<1> QED  BY <1>1, SerialInit, SerialStep, PTL DEF Spec

(***************************************************************************)
(* That Clear removes everything.                                          *)
(***************************************************************************)
\* A Clear has all the DeployResources of its Application left to delete that the
\* informer showed.
ClearsAll ==
    \A p \in Procs :
        /\ proc[p].pc \in {"infos", "next", "record", "create", "compare", "apply"}
             => proc[p].op = "sync"
        /\ proc[p].pc \in {"prune", "get", "delete"} /\ proc[p].op = "clear"
             => \A o \in Objs : <<proc[p].app, o>> \in records
                                  => <<proc[p].app, o>> \in proc[p].old \cup proc[p].hidden

LEMMA ClearsAllStep ==
    ASSUME OneCaller, TypeInv, ClearsAll, [Next]_vars
    PROVE  ClearsAll'
<1> USE DEF At, Rejected, clusterVars, Becomes, GoesOn, KeepsOwner, KeepsLists,
            KeepsCurrent, IdleProc
<1>1. CASE UNCHANGED <<proc, records>>
  BY <1>1 DEF ClearsAll
<1>2. ASSUME NEW p \in Procs, proc'[p].pc \in {"idle", "target"}
      PROVE  ClearsAll'
  BY <1>2 DEF OneCaller, ClearsAll
<1>3. ASSUME NEW p \in Procs, NEW a \in Apps, NEW forced \in BOOLEAN,
             CheckSync(p, a, forced)
      PROVE  ClearsAll'
  <2>1. Begins(p, "sync", a)
    BY <1>3, CheckSyncDoes
  <2> QED  BY <1>2, <2>1 DEF Begins
<1>4. ASSUME NEW p \in Procs, NEW a \in Apps, CallClear(p, a)
      PROVE  ClearsAll'
  <2>1. Begins(p, "clear", a)
    BY <1>4, CallClearDoes
  <2> QED  BY <1>2, <2>1 DEF Begins
<1>5. ASSUME NEW p \in Procs, CallFails(p)
      PROVE  ClearsAll'
  BY <1>2, <1>5, ReturnDoes DEF CallFails
<1>6. CASE Crash
  BY <1>6 DEF Crash, ClearsAll
<1>7. ASSUME NEW p \in Procs, CallStep(p)
      PROVE  ClearsAll'
  <2> USE DEF OneCaller, ClearsAll
  <2>0. proc[p].op \in {"sync", "clear"} /\ \A q \in Procs : q = p
    BY DEF TypeInv, TypeOK, Proc
  <2>1. CASE SetTargetClient(p)
    <3>1. SetTargetClientEffect(p)
      BY <2>1, SetTargetClientDoes
    <3> QED  BY <2>0, <2>1, <3>1 DEF SetTargetClientEffect
  <2>2. CASE GetManifestInfos(p)
    <3>1. GetManifestInfosEffect(p)
      BY <2>2, GetManifestInfosDoes
    <3> QED  BY <2>0, <2>2, <3>1 DEF GetManifestInfosEffect
  <2>3. CASE GetDeployResourceList(p)
    <3>1. GetDeployResourceListEffect(p)
      BY <2>3, GetDeployResourceListDoes
    <3>2. /\ proc'[p].pc = IF proc[p].op = "sync" THEN "next" ELSE "prune"
          /\ proc'[p].op = proc[p].op /\ proc'[p].app = proc[p].app
      BY <3>1 DEF GetDeployResourceListEffect
    <3>3. \A o \in Objs : <<proc[p].app, o>> \in records
                            => <<proc[p].app, o>> \in proc'[p].old \cup proc'[p].hidden
      BY <3>1 DEF GetDeployResourceListEffect
    <3>4. UNCHANGED records
      BY <2>3 DEF GetDeployResourceList
    <3> QED  BY <2>0, <3>2, <3>3, <3>4
  <2>4. ASSUME NEW o \in Objs, ObjectFromManifest(p, o)
        PROVE  ClearsAll'
    <3>1. ObjectFromManifestEffect(p, o)
      BY <2>4, ObjectFromManifestDoes
    <3> QED  BY <2>0, <2>4, <3>1 DEF ObjectFromManifest, ObjectFromManifestEffect
  <2>5. CASE UpdateDeployResource(p)
    <3>1. UpdateDeployResourceEffect(p)
      BY <2>5, UpdateDeployResourceDoes
    <3> QED  BY <2>0, <2>5, <3>1 DEF UpdateDeployResource, UpdateDeployResourceEffect
  <2>13. CASE CreateDeployResource(p)
    <3>1. CreateDeployResourceEffect(p)
      BY <2>13, CreateDeployResourceDoes
    <3> QED  BY <2>0, <2>13, <3>1 DEF CreateDeployResource, CreateDeployResourceEffect
  <2>6. CASE CompareDeployWithManifest(p)
    <3>1. CompareEffect(p)
      BY <2>6, CompareDoes
    <3> QED  BY <2>0, <2>6, <3>1 DEF CompareDeployWithManifest, CompareEffect
  <2>7. CASE ApplyManifest(p)
    <3>1. ApplyManifestEffect(p)
      BY <2>7, ApplyManifestDoes
    <3> QED  BY <2>0, <2>7, <3>1 DEF ApplyManifest, ApplyManifestEffect, recordVars
  <2>8. CASE EndOfManifests(p)
    <3>1. EndOfManifestsEffect(p)
      BY <2>8, EndOfManifestsDoes
    <3> QED  BY <2>0, <2>8, <3>1 DEF EndOfManifests, EndOfManifestsEffect
  <2>9. ASSUME NEW r \in proc[p].old, DeleteRecord(p, r)
        PROVE  ClearsAll'
    <3>1. DeleteRecordEffect(p, r)
      BY <2>9, DeleteRecordDoes
    <3> QED  BY <2>0, <2>9, <3>1 DEF DeleteRecord, DeleteRecordEffect
  <2>10. CASE GetDeprecated(p)
    <3>1. GetDeprecatedEffect(p)
      BY <2>10, GetDeprecatedDoes
    <3> QED  BY <2>0, <2>10, <3>1 DEF GetDeprecated, GetDeprecatedEffect
  <2>11. CASE DeleteDeprecated(p)
    <3>1. DeleteDeprecatedEffect(p)
      BY <2>11, DeleteDeprecatedDoes
    <3> QED  BY <2>0, <2>11, <3>1 DEF DeleteDeprecated, DeleteDeprecatedEffect, recordVars
  <2>12. CASE Finish(p)
    BY <1>2, <2>12, ReturnDoes DEF Finish
  <2> QED  BY <1>7, <2>1, <2>2, <2>3, <2>4, <2>5, <2>6, <2>7, <2>8, <2>9, <2>10,
              <2>11, <2>12, <2>13 DEF CallStep
<1> QED  BY <1>1, <1>3, <1>4, <1>5, <1>6, <1>7
         DEF Next, vars, GitPush, Drift, CacheRecord, recordVars

\* What no DeployResource of the Application tracks is not in its cluster.
LEMMA UntrackedIsGone ==
    ASSUME OneCaller, TargetsDiffer, TrackedByOwner, TypeInv, NEW p \in Procs,
           At(p, "prune"), NEW o \in ObjsOf(proc[p].app), <<proc[p].app, o>> \notin Traced
    PROVE  live[DestOf[proc[p].app]][o] = None
<1>1. proc[p].app \in Apps /\ DestOf[proc[p].app] \in Clusters /\ o \in Objs
  BY MapAssumption DEF At, TypeInv, CallsKnow, ObjsOf
<1>2. ASSUME NEW a \in Apps, TrackedBy(a, DestOf[proc[p].app], o)
      PROVE  FALSE
  <2>1. a = proc[p].app
    BY <1>1, <1>2 DEF TargetsDiffer, TrackedBy, ObjsOf
  <2>2. ~Deleting(a, o)
    BY DEF OneCaller, Deleting, At
  <2> QED  BY <1>2, <2>1, <2>2 DEF TrackedBy
<1> QED  BY <1>1, <1>2 DEF TrackedByOwner

\* When Clear succeeds nothing of the Application is left in its cluster but what the
\* informer did not show, however far that lags; as long as one call runs after the
\* other and none fails.
THEOREM ClearingIsComplete ==
    ASSUME OneCaller, OneRepository, LabelsDiffer, TargetsDiffer, Reliable
    PROVE  Spec => ClearIsComplete
<1> DEFINE Inv == SerialInv /\ ClearsAll
<1>1. Init => Inv
  BY SerialInit DEF Init, ClearsAll, IdleProc
<1>2. Inv /\ [Next]_vars => Inv'
  BY SerialStep, ClearsAllStep DEF SerialInv
<1>3. ASSUME Inv, NEW p \in Procs, At(p, "prune"), proc[p].op = "clear", proc[p].old = {},
             NEW o \in ObjsOf(proc[p].app), <<proc[p].app, o>> \notin Unseen(p)
      PROVE  live[DestOf[proc[p].app]][o] = None
  <2>1. <<proc[p].app, o>> \notin Traced
    BY <1>3 DEF ClearsAll, At, ObjsOf, Unseen, Traced
  <2> QED  BY <1>3, <2>1, UntrackedIsGone DEF SerialInv
<1>4. Inv /\ [Next]_vars
        => [\A p \in Procs :
              /\ At(p, "prune") /\ proc[p].op = "clear" /\ proc'[p].pc = "idle"
              /\ proc[p].old = {}
              => \A o \in ObjsOf(proc[p].app) :
                   \/ live[DestOf[proc[p].app]][o] = None
                   \/ <<proc[p].app, o>> \in Unseen(p)]_vars
  BY <1>3
<1> QED  BY <1>1, <1>2, <1>4, PTL DEF Spec, ClearIsComplete

(***************************************************************************)
(* That Synced is true.                                                    *)
(***************************************************************************)
LoopPc  == {"next", "record", "create", "compare", "apply"}
PrunePc == {"prune", "get", "delete"}

\* What was updated has a manifest, so that it is rightly exempt from pruning.
UpdatedOk(p) ==
    /\ proc[p].pc \in {"idle", "target", "infos", "list"} => proc[p].updated = {}
    /\ \A r \in proc[p].updated : manifest[r[2]] # None

\* A DeployResource without a manifest is among those the Sync will delete, if the
\* informer showed it.
PruneOk(p) ==
    proc[p].pc \in LoopPc \cup PrunePc /\ proc[p].op = "sync"
      => \A o \in Objs : <<proc[p].app, o>> \in records /\ manifest[o] = None
                           => <<proc[p].app, o>> \in proc[p].old \cup proc[p].hidden

\* What the Sync has looked at, and found no difference in, is deployed.
Agreed(p, o) ==
    manifest[o] = None \/ live[DestOf[proc[p].app]][o] = manifest[o]

StatusOk(p) ==
    /\ proc[p].status # "Synced"
    /\ proc[p].pc = "apply" => proc[p].status # "Unknown"
    /\ proc[p].status = "Unknown" /\ proc[p].pc \in LoopPc
         => \A o \in ObjsOf(proc[p].app) :
              \/ Agreed(p, o) \/ o \in proc[p].todo
              \/ proc[p].pc \in {"record", "create", "compare"} /\ o = proc[p].cur
    /\ proc[p].status = "Unknown" /\ proc[p].pc \in PrunePc /\ proc[p].op = "sync"
         => \A o \in ObjsOf(proc[p].app) : Agreed(p, o)

SyncSeesAll == \A p \in Procs : UpdatedOk(p) /\ PruneOk(p) /\ StatusOk(p)

LEMMA SyncSeesAllStep ==
    ASSUME OneCaller, Undisturbed, SerialInv, KnownManifests, SyncSeesAll, [Next]_vars
    PROVE  SyncSeesAll'
<1> USE DEF At, Rejected, envVars, clusterVars, Becomes, GoesOn, KeepsOwner, KeepsLists,
            KeepsCurrent, IdleProc, LoopPc, PrunePc, recordVars
<1>1. CASE UNCHANGED <<proc, records, manifest, live>>
  BY <1>1 DEF SyncSeesAll, UpdatedOk, PruneOk, StatusOk, Agreed, ObjsOf
<1>2. ASSUME \A p \in Procs : /\ proc'[p].pc \in {"idle", "target"}
                               /\ proc'[p].status # "Synced" /\ proc'[p].updated = {}
      PROVE  SyncSeesAll'
  BY <1>2 DEF SyncSeesAll, UpdatedOk, PruneOk, StatusOk
<1>3. ASSUME Quiet, UNCHANGED proc
      PROVE  SyncSeesAll'
  BY <1>2, <1>3 DEF Quiet, SyncSeesAll, UpdatedOk, StatusOk
<1>4. ASSUME NEW p \in Procs, NEW a \in Apps, NEW forced \in BOOLEAN,
             CheckSync(p, a, forced)
      PROVE  SyncSeesAll'
  <2>1. Begins(p, "sync", a)
    BY <1>4, CheckSyncDoes DEF SerialInv
  <2> QED  BY <1>2, <2>1 DEF Begins, OneCaller
<1>5. ASSUME NEW p \in Procs, NEW a \in Apps, CallClear(p, a)
      PROVE  SyncSeesAll'
  <2>1. Begins(p, "clear", a)
    BY <1>5, CallClearDoes DEF SerialInv
  <2> QED  BY <1>2, <2>1 DEF Begins, OneCaller
<1>6. ASSUME NEW p \in Procs, Becomes(p, IdleProc)
      PROVE  SyncSeesAll'
  BY <1>2, <1>6 DEF OneCaller
<1>7. CASE Crash
  BY <1>2, <1>7 DEF Crash
<1>8. ASSUME NEW p \in Procs, CallStep(p)
      PROVE  SyncSeesAll'
  <2>1. /\ \A q \in Procs : q = p
        /\ UpdatedOk(p) /\ PruneOk(p) /\ StatusOk(p)
        /\ KnowsManifest(p) /\ KnowsTodo(p) /\ KnowsOld(p)
    BY DEF OneCaller, SyncSeesAll, KnownManifests
  <2>2. /\ DirectedCall(p) /\ OwnCall(p) /\ proc[p].op \in {"sync", "clear"}
        /\ proc[p].pc # "idle" => /\ proc[p].app \in Apps
                                  /\ DestOf[proc[p].app] \in Clusters
    BY MapAssumption
       DEF SerialInv, Directed, OwnObjects, TypeInv, TypeOK, Proc, CallsKnow
  <2>3. UNCHANGED manifest
    BY <1>8 DEF CallStep, SetTargetClient, GetManifestInfos, GetDeployResourceList,
                ObjectFromManifest, UpdateDeployResource, CreateDeployResource,
                CompareDeployWithManifest, ApplyManifest, EndOfManifests, DeleteRecord, GetDeprecated,
                DeleteDeprecated, Finish
  <2>4. ASSUME UpdatedOk(p)', PruneOk(p)', StatusOk(p)'
        PROVE  SyncSeesAll'
    BY <2>1, <2>4 DEF SyncSeesAll
  <2>5. CASE SetTargetClient(p)
    <3>1. SetTargetClientEffect(p)
      BY <2>5, SetTargetClientDoes DEF SerialInv
    <3>2. UpdatedOk(p)' /\ PruneOk(p)' /\ StatusOk(p)'
      BY <2>1, <2>3, <2>5, <3>1
         DEF SetTargetClient, SetTargetClientEffect, UpdatedOk, PruneOk, StatusOk
    <3> QED  BY <2>4, <3>2
  <2>6. CASE GetManifestInfos(p)
    <3>1. GetManifestInfosEffect(p)
      BY <2>6, GetManifestInfosDoes DEF SerialInv
    <3>2. UpdatedOk(p)' /\ PruneOk(p)' /\ StatusOk(p)'
      BY <2>1, <2>3, <2>6, <3>1
         DEF GetManifestInfos, GetManifestInfosEffect, UpdatedOk, PruneOk, StatusOk
    <3> QED  BY <2>4, <3>2
  <2>7. CASE GetDeployResourceList(p)
    <3>1. GetDeployResourceListEffect(p)
      BY <2>7, GetDeployResourceListDoes DEF SerialInv
    <3>2. /\ proc'[p].pc = IF proc[p].op = "sync" THEN "next" ELSE "prune"
          /\ UNCHANGED <<live, records>>
      BY <2>7, <3>1 DEF GetDeployResourceList, GetDeployResourceListEffect
    <3>3. UpdatedOk(p)'
      BY <2>1, <2>3, <2>7, <3>1
         DEF GetDeployResourceList, GetDeployResourceListEffect, UpdatedOk
    <3>4. PruneOk(p)'
      BY <3>1, <3>2 DEF GetDeployResourceListEffect, PruneOk
    <3>5. /\ proc'[p].status = proc[p].status /\ proc'[p].todo = proc[p].todo
          /\ proc'[p].app = proc[p].app /\ proc'[p].op = proc[p].op
          /\ proc'[p].pc \notin UsesCur
          /\ proc'[p].pc = "next" => proc[p].op = "sync"
          /\ proc'[p].pc = "prune" => proc[p].op # "sync"
      BY <3>1, <3>2 DEF GetDeployResourceListEffect, UsesCur
    <3>6. \A o \in ObjsOf(proc[p].app) : proc[p].op = "sync"
            => manifest[o] = None \/ o \in proc[p].todo
      BY <2>1, <2>7 DEF GetDeployResourceList, KnowsTodo
    <3>7. StatusOk(p)'
      BY <2>1, <2>3, <3>5, <3>6 DEF StatusOk, Agreed, ObjsOf, UsesCur
    <3> QED  BY <2>4, <3>3, <3>4, <3>7
  <2>8. ASSUME NEW o \in Objs, ObjectFromManifest(p, o), ~Becomes(p, IdleProc)
        PROVE  SyncSeesAll'
    <3>1. ObjectFromManifestEffect(p, o) /\ UNCHANGED <<live, records>> /\ proc[p].pc = "next"
      BY <2>8, ObjectFromManifestDoes DEF SerialInv, ObjectFromManifest
    <3>2. UpdatedOk(p)'
      BY <2>1, <2>3, <2>8, <3>1 DEF ObjectFromManifestEffect, UpdatedOk
    <3>3. PruneOk(p)'
      BY <2>1, <2>3, <2>8, <3>1 DEF ObjectFromManifestEffect, PruneOk
    <3>4. StatusOk(p)'
      BY <2>1, <2>3, <2>8, <3>1 DEF ObjectFromManifestEffect, StatusOk, Agreed, ObjsOf
    <3> QED  BY <2>4, <3>2, <3>3, <3>4
  <2>9. CASE UpdateDeployResource(p)
    <3>1. /\ UpdateDeployResourceEffect(p) /\ UNCHANGED <<live, records>>
          /\ proc[p].pc = "record"
      BY <2>9, UpdateDeployResourceDoes DEF SerialInv, UpdateDeployResource
    <3>2. manifest[proc[p].cur] # None
      BY <2>1, <3>1 DEF KnowsManifest
    <3>3. UpdatedOk(p)'
      <4>1. \A r \in proc'[p].updated : manifest[r[2]] # None
        BY <2>1, <3>1, <3>2 DEF UpdateDeployResourceEffect, UpdatedOk, OwnRecord
      <4> QED  BY <2>3, <3>1, <4>1 DEF UpdateDeployResourceEffect, UpdatedOk
    <3>4. PruneOk(p)'
      BY <2>1, <2>3, <3>1 DEF UpdateDeployResourceEffect, PruneOk
    <3>5. StatusOk(p)'
      BY <2>1, <2>3, <3>1 DEF UpdateDeployResourceEffect, StatusOk, Agreed, ObjsOf
    <3> QED  BY <2>4, <3>3, <3>4, <3>5
  <2>17. CASE CreateDeployResource(p) /\ ~Becomes(p, IdleProc)
    <3>1. /\ CreateDeployResourceEffect(p) /\ UNCHANGED live
          /\ proc[p].pc = "create" /\ records' = records \cup {OwnRecord(p)}
      BY <2>17, CreateDeployResourceDoes
         DEF SerialInv, CreateDeployResource, CreateDeployResourceEffect
    <3>2. manifest[proc[p].cur] # None
      BY <2>1, <3>1 DEF KnowsManifest
    <3>3. UpdatedOk(p)'
      <4>1. \A r \in proc'[p].updated : manifest[r[2]] # None
        BY <2>1, <2>17, <3>1, <3>2 DEF CreateDeployResourceEffect, UpdatedOk, OwnRecord
      <4> QED  BY <2>3, <2>17, <3>1, <4>1 DEF CreateDeployResourceEffect, UpdatedOk
    <3>4. PruneOk(p)'
      BY <2>1, <2>3, <2>17, <3>1, <3>2 DEF CreateDeployResourceEffect, PruneOk, OwnRecord
    <3>5. StatusOk(p)'
      BY <2>1, <2>3, <2>17, <3>1
         DEF CreateDeployResourceEffect, StatusOk, Agreed, ObjsOf
    <3> QED  BY <2>4, <3>3, <3>4, <3>5
  <2>10. CASE CompareDeployWithManifest(p)
    <3>1. CompareEffect(p) /\ UNCHANGED <<live, records>> /\ proc[p].pc = "compare"
      BY <2>10, CompareDoes DEF SerialInv, CompareDeployWithManifest
    <3>2. UpdatedOk(p)' /\ PruneOk(p)'
      BY <2>1, <2>3, <3>1 DEF CompareEffect, UpdatedOk, PruneOk
    <3>3. ASSUME live[targetCli][proc[p].cur] = proc[p].want,
                 GoesOn(p, "next"), proc'[p].status = proc[p].status
          PROVE  StatusOk(p)'
      <4>1. Agreed(p, proc[p].cur)
        BY <2>1, <2>2, <3>1, <3>3 DEF KnowsManifest, DirectedCall, Agreed
      <4>2. \A o \in Objs : Agreed(p, o) => Agreed(p, o)'
        BY <2>3, <3>1, <3>3 DEF Agreed
      <4>3. proc'[p].todo = proc[p].todo
        BY <3>1 DEF CompareEffect
      <4> QED  BY <2>1, <3>1, <3>3, <4>1, <4>2, <4>3 DEF StatusOk, ObjsOf
    <3>4. StatusOk(p)'
      BY <3>1, <3>3 DEF CompareEffect, StatusOk
    <3> QED  BY <2>4, <3>2, <3>4
  <2>11. CASE ApplyManifest(p) /\ ~Becomes(p, IdleProc)
    <3>1. ApplyManifestEffect(p) /\ proc[p].pc = "apply"
      BY <2>11, ApplyManifestDoes DEF SerialInv, ApplyManifest
    <3>2. UpdatedOk(p)' /\ PruneOk(p)' /\ StatusOk(p)'
      BY <2>1, <2>3, <2>11, <3>1 DEF ApplyManifestEffect, UpdatedOk, PruneOk, StatusOk
    <3> QED  BY <2>4, <3>2
  <2>12. CASE EndOfManifests(p)
    <3>1. /\ EndOfManifestsEffect(p) /\ UNCHANGED <<live, records>>
          /\ proc[p].pc = "next" /\ proc[p].todo = {}
      BY <2>12, EndOfManifestsDoes DEF SerialInv, EndOfManifests
    <3>2. UpdatedOk(p)'
      BY <2>1, <2>3, <3>1 DEF EndOfManifestsEffect, UpdatedOk
    <3>3. PruneOk(p)'
      <4>1. \A o \in Objs : manifest[o] = None => <<proc[p].app, o>> \notin proc[p].updated
        BY <2>1 DEF UpdatedOk
      <4> QED  BY <2>1, <2>3, <3>1, <4>1 DEF EndOfManifestsEffect, PruneOk
    <3>4. StatusOk(p)'
      BY <2>1, <2>3, <3>1 DEF EndOfManifestsEffect, StatusOk, Agreed, ObjsOf
    <3> QED  BY <2>4, <3>2, <3>3, <3>4
  <2>13. ASSUME NEW r \in proc[p].old, DeleteRecord(p, r), ~Becomes(p, IdleProc)
         PROVE  SyncSeesAll'
    <3>1. DeleteRecordEffect(p, r) /\ proc[p].pc = "prune"
      BY <2>13, DeleteRecordDoes DEF SerialInv, DeleteRecord
    <3>2. UpdatedOk(p)' /\ PruneOk(p)'
      BY <2>1, <2>3, <2>13, <3>1 DEF DeleteRecordEffect, UpdatedOk, PruneOk
    <3>3. StatusOk(p)'
      BY <2>1, <2>3, <2>13, <3>1 DEF DeleteRecordEffect, StatusOk, Agreed, ObjsOf
    <3> QED  BY <2>4, <3>2, <3>3
  <2>14. CASE GetDeprecated(p)
    <3>1. GetDeprecatedEffect(p) /\ proc[p].pc = "get" /\ UNCHANGED <<live, records>>
      BY <2>14, GetDeprecatedDoes DEF SerialInv, GetDeprecated
    <3>2. UpdatedOk(p)' /\ PruneOk(p)' /\ StatusOk(p)'
      BY <2>1, <2>3, <3>1
         DEF GetDeprecatedEffect, UpdatedOk, PruneOk, StatusOk, Agreed, ObjsOf
    <3> QED  BY <2>4, <3>2
  <2>15. CASE DeleteDeprecated(p) /\ ~Becomes(p, IdleProc)
    <3>1. DeleteDeprecatedEffect(p) /\ proc[p].pc = "delete"
      BY <2>15, DeleteDeprecatedDoes DEF SerialInv, DeleteDeprecated
    <3>2. UpdatedOk(p)' /\ PruneOk(p)'
      BY <2>1, <2>3, <2>15, <3>1 DEF DeleteDeprecatedEffect, UpdatedOk, PruneOk
    <3>3. proc[p].op = "sync" => manifest[proc[p].cur] = None
      BY <2>1, <3>1 DEF KnowsOld
    <3>4. \A o \in Objs : Agreed(p, o) /\ proc[p].op = "sync" => Agreed(p, o)'
      BY <2>2, <2>3, <2>15, <3>1, <3>3
         DEF DeleteDeprecatedEffect, Agreed, SerialInv, TypeInv, TypeOK
    <3>5. StatusOk(p)'
      BY <2>1, <2>15, <3>1, <3>4 DEF DeleteDeprecatedEffect, StatusOk, ObjsOf
    <3> QED  BY <2>4, <3>2, <3>5
  <2>16. CASE Finish(p)
    BY <1>6, <2>16, ReturnDoes DEF Finish, SerialInv
  <2> QED  BY <1>6, <1>8, <2>5, <2>6, <2>7, <2>8, <2>9, <2>10, <2>11, <2>12, <2>13,
              <2>14, <2>15, <2>16, <2>17 DEF CallStep
<1> QED  BY <1>1, <1>3, <1>4, <1>5, <1>6, <1>7, <1>8, ReturnDoes
         DEF Next, vars, GitPush, Drift, CacheRecord, CallFails, SerialInv, Undisturbed

\* Synced is reported only when cluster and repository agree, but for what the
\* repository has dropped and the informer did not show; as long as one call runs
\* after the other, none fails, and commits and drift come between them.
THEOREM SyncedMeansAgreed ==
    ASSUME OneCaller, OneRepository, LabelsDiffer, TargetsDiffer, Reliable, Undisturbed
    PROVE  Spec => SyncedIsTrue
<1> DEFINE Inv == SerialInv /\ KnownManifests /\ SyncSeesAll
<1>1. Init => Inv
  BY SerialInit, KnownManifestsInit
     DEF Init, SyncSeesAll, UpdatedOk, PruneOk, StatusOk, IdleProc, LoopPc, PrunePc
<1>2. Inv /\ [Next]_vars => Inv'
  BY SerialStep, KnownManifestsStep, SyncSeesAllStep DEF SerialInv
<1>3. ASSUME Inv, [Next]_vars, NEW a \in Apps, reported'[a] = "Synced",
             reported[a] # "Synced"
      PROVE  \E p \in Procs : At(p, "prune") /\ proc[p].app = a /\ SeenInSync(p, a)
  <2>1. PICK p \in Procs : Finish(p)
    <3>1. ASSUME NEW p \in Procs, NEW b \in Apps, NEW forced \in BOOLEAN,
                 CheckSync(p, b, forced)
          PROVE  FALSE
      BY <1>3, <3>1 DEF CheckSync, SerialInv, TypeInv, TypeOK
    <3>2. ASSUME NEW p \in Procs, CallStep(p), ~Finish(p)
          PROVE  UNCHANGED reported
      BY <3>2 DEF CallStep, SetTargetClient, GetManifestInfos, GetDeployResourceList,
                  ObjectFromManifest, UpdateDeployResource, CreateDeployResource,
                  CompareDeployWithManifest, ApplyManifest, EndOfManifests, DeleteRecord, GetDeprecated,
                  DeleteDeprecated, Rejected
    <3> QED  BY <1>3, <3>1, <3>2
             DEF Next, vars, GitPush, Drift, CacheRecord, CallClear, CallFails, Crash
  <2>2. /\ At(p, "prune") /\ proc[p].old = {} /\ proc[p].app = a
        /\ proc[p].op = "sync" /\ proc[p].status = "Unknown"
    <3>1. proc[p].op \in {"sync", "clear"} /\ proc[p].status # "Synced"
      BY <1>3 DEF SerialInv, TypeInv, TypeOK, Proc, SyncSeesAll, StatusOk
    <3> QED  BY <1>3, <2>1, <3>1 DEF Finish, SerialInv, TypeInv, TypeOK
  <2>3. ASSUME NEW o \in ObjsOf(a), manifest[o] = None => <<a, o>> \notin Unseen(p)
        PROVE  live[DestOf[a]][o] = manifest[o]
    <3>1. CASE manifest[o] # None
      BY <1>3, <2>2, <3>1 DEF At, SyncSeesAll, StatusOk, Agreed, PrunePc
    <3>2. CASE manifest[o] = None
      <4>1. <<a, o>> \notin Traced
        BY <1>3, <2>2, <2>3, <3>2
           DEF At, SyncSeesAll, PruneOk, PrunePc, ObjsOf, Unseen, Traced
      <4> QED  BY <1>3, <2>2, <3>2, <4>1, UntrackedIsGone DEF SerialInv
    <3> QED  BY <3>1, <3>2
  <2> QED  BY <2>2, <2>3 DEF SeenInSync
<1>4. Inv /\ [Next]_vars
        => [\A a \in Apps : reported'[a] = "Synced" /\ reported[a] # "Synced"
              => \E p \in Procs :
                   At(p, "prune") /\ proc[p].app = a /\ SeenInSync(p, a)]_vars
  BY <1>3
<1> QED  BY <1>1, <1>2, <1>4, PTL DEF Spec, SyncedIsTrue

(***************************************************************************)
(* The refinement of ManifestManager.                                      *)
(***************************************************************************)
\* What a call is about to delete is its own Application's.
DeletesOwn ==
    \A p \in Procs :
        proc[p].pc \in {"get", "delete"} => proc[p].cur \in ObjsOf(proc[p].app)

LEMMA DeletesOwnStep ==
    ASSUME TypeInv, OwnObjects, OldIsOwn, DeletesOwn, [Next]_vars
    PROVE  DeletesOwn'
<1> USE DEF At, DeletesOwn, ObjsOf
<1>1. CASE UNCHANGED proc
  BY <1>1
<1>2. ASSUME NEW p \in Procs, \A q \in Procs \ {p} : proc'[q] = proc[q],
             proc'[p].pc \notin {"get", "delete"}
      PROVE  DeletesOwn'
  BY <1>2
<1>3. ASSUME NEW p \in Procs, NEW a \in Apps, NEW forced \in BOOLEAN,
             CheckSync(p, a, forced)
      PROVE  DeletesOwn'
  <2>1. Begins(p, "sync", a)
    BY <1>3, CheckSyncDoes
  <2> QED  BY <1>2, <2>1 DEF Begins
<1>4. ASSUME NEW p \in Procs, NEW a \in Apps, CallClear(p, a)
      PROVE  DeletesOwn'
  <2>1. Begins(p, "clear", a)
    BY <1>4, CallClearDoes
  <2> QED  BY <1>2, <2>1 DEF Begins
<1>5. ASSUME NEW p \in Procs, Becomes(p, IdleProc)
      PROVE  DeletesOwn'
  BY <1>2, <1>5 DEF Becomes, IdleProc
<1>6. CASE Crash
  BY <1>6 DEF Crash, IdleProc
<1>7. ASSUME NEW p \in Procs, NEW r \in proc[p].old, DeleteRecord(p, r),
             ~Becomes(p, IdleProc)
      PROVE  DeletesOwn'
  <2>1. DeleteRecordEffect(p, r)
    BY <1>7, DeleteRecordDoes
  <2>2. r[2] \in ObjsOf(r[1]) /\ r[1] = proc[p].app
    BY DEF OwnObjects, OwnCall, OldIsOwn, OwnOld
  <2> QED  BY <1>7, <2>1, <2>2 DEF DeleteRecordEffect, GoesOn, KeepsOwner
<1>8. ASSUME NEW p \in Procs, GetDeprecated(p)
      PROVE  DeletesOwn'
  <2>1. GetDeprecatedEffect(p)
    BY <1>8, GetDeprecatedDoes
  <2> QED  BY <1>8, <2>1
           DEF GetDeprecated, GetDeprecatedEffect, GoesOn, KeepsOwner, KeepsCurrent
<1>9. ASSUME NEW p \in Procs, CallStep(p), ~GetDeprecated(p), ~Becomes(p, IdleProc),
             \A r \in proc[p].old : ~DeleteRecord(p, r)
      PROVE  DeletesOwn'
  <2> USE DEF GoesOn
  <2>1. CASE SetTargetClient(p)
    <3>1. SetTargetClientEffect(p)
      BY <2>1, SetTargetClientDoes
    <3> QED  BY <1>2, <3>1 DEF SetTargetClientEffect
  <2>2. CASE GetManifestInfos(p)
    BY <1>2, <2>2, GetManifestInfosDoes DEF GetManifestInfosEffect
  <2>3. CASE GetDeployResourceList(p)
    <3>1. GetDeployResourceListEffect(p)
      BY <2>3, GetDeployResourceListDoes
    <3> QED  BY <1>2, <3>1 DEF GetDeployResourceListEffect
  <2>4. ASSUME NEW o \in Objs, ObjectFromManifest(p, o)
        PROVE  DeletesOwn'
    <3>1. ObjectFromManifestEffect(p, o)
      BY <2>4, ObjectFromManifestDoes
    <3> QED  BY <1>2, <1>9, <3>1 DEF ObjectFromManifestEffect
  <2>5. CASE UpdateDeployResource(p)
    BY <1>2, <2>5, UpdateDeployResourceDoes DEF UpdateDeployResourceEffect
  <2>11. CASE CreateDeployResource(p)
    BY <1>2, <1>9, <2>11, CreateDeployResourceDoes DEF CreateDeployResourceEffect
  <2>6. CASE CompareDeployWithManifest(p)
    BY <1>2, <2>6, CompareDoes DEF CompareEffect
  <2>7. CASE ApplyManifest(p)
    BY <1>2, <1>9, <2>7, ApplyManifestDoes DEF ApplyManifestEffect
  <2>8. CASE EndOfManifests(p)
    BY <1>2, <2>8, EndOfManifestsDoes DEF EndOfManifestsEffect
  <2>9. CASE DeleteDeprecated(p)
    BY <1>2, <1>9, <2>9, DeleteDeprecatedDoes DEF DeleteDeprecatedEffect
  <2>10. CASE Finish(p)
    BY <1>9, <2>10, ReturnDoes DEF Finish
  <2> QED  BY <1>9, <2>1, <2>2, <2>3, <2>4, <2>5, <2>6, <2>7, <2>8, <2>9, <2>10, <2>11
           DEF CallStep
<1> QED  BY <1>1, <1>3, <1>4, <1>5, <1>6, <1>7, <1>8, <1>9, ReturnDoes
         DEF Next, vars, GitPush, Drift, CacheRecord, CallFails

\* The parts of the state that the interface speaks of, as the refinement maps them.
Held == [a \in Apps |-> OwnPart(a, live[DestOf[a]])]
Wanted == [a \in Apps |-> OwnPart(a, manifest)]
ForcedNow == {a \in Apps : \E p \in Calling(a, "sync") : proc[p].forced}
ClearingNow == {a \in Apps : Calling(a, "clear") # {}}

LEMMA ViewsType ==
    ASSUME TypeInv'
    PROVE  Held' \in Manager!Deployment /\ Wanted' \in Manager!Deployment
<1>1. \A a \in Apps : /\ OwnPart(a, live'[DestOf[a]]) \in [Objs -> Contents \cup {None}]
                      /\ OwnPart(a, manifest') \in [Objs -> Contents \cup {None}]
  BY MapAssumption DEF TypeInv, TypeOK, OwnPart
<1> QED  BY <1>1 DEF Held, Wanted, Manager!Deployment, OwnPart, ObjsOf

\* One object of one Application changes in its cluster: no other one sees it.
Puts(a, o, x) ==
    /\ live' = [live EXCEPT ![DestOf[a]][o] = x] /\ UNCHANGED manifest
    /\ \A p \in Procs : KeepsOwner(p)

LEMMA OneClusterChanges ==
    ASSUME TargetsDiffer, TypeInv, TypeInv', NEW a \in Apps, NEW o \in ObjsOf(a), NEW x,
           Puts(a, o, x)
    PROVE  /\ Manager!InCluster(a) /\ Manager!Changed(a) \subseteq {o}
           /\ x # live[DestOf[a]][o] => Manager!Changed(a) = {o}
           /\ Held'[a][o] = x /\ Held[a][o] = live[DestOf[a]][o]
           /\ Wanted[a][o] = manifest[o]
<1>1. o \in Objs /\ DestOf[a] \in Clusters /\ \A b \in Apps : DestOf[b] \in Clusters
  BY MapAssumption DEF ObjsOf
<1>2. \A b \in Apps, y \in Objs :
        /\ Held[b][y]  = IF y \in ObjsOf(b) THEN live[DestOf[b]][y] ELSE None
        /\ Held'[b][y] = IF y \in ObjsOf(b) THEN live'[DestOf[b]][y] ELSE None
  BY DEF Held, OwnPart, ObjsOf
<1>3. live'[DestOf[a]][o] = x
  BY <1>1 DEF TypeInv, TypeOK, Puts
<1>4. \A b \in Apps, y \in Objs : DestOf[b] # DestOf[a] \/ y # o
                                    => live'[DestOf[b]][y] = live[DestOf[b]][y]
  BY <1>1 DEF TypeInv, TypeOK, Puts
<1>5. \A b \in Apps \ {a} : DestOf[b] # DestOf[a] \/ o \notin ObjsOf(b)
  BY DEF TargetsDiffer, ObjsOf
<1>6. \A b \in Apps \ {a}, y \in Objs : Held'[b][y] = Held[b][y]
  BY <1>2, <1>4, <1>5
<1>7. \A y \in Objs \ {o} : Held'[a][y] = Held[a][y]
  BY <1>2, <1>4
<1>8. Held'[a][o] = x /\ Held[a][o] = live[DestOf[a]][o]
  BY <1>1, <1>2, <1>3
<1>9. UNCHANGED <<Wanted, ForcedNow, ClearingNow>>
  BY DEF Puts, Wanted, OwnPart, ObjsOf, ForcedNow, ClearingNow, Calling, KeepsOwner
<1>10. Manager!InCluster(a)
  BY <1>6, <1>9, ViewsType
     DEF Manager!InCluster, Manager!Changed, Held, Wanted, ForcedNow, ClearingNow
<1>11. /\ Manager!Changed(a) \subseteq {o}
       /\ x # live[DestOf[a]][o] => Manager!Changed(a) = {o}
  BY <1>1, <1>7, <1>8 DEF Manager!Changed, Held
<1>12. Wanted[a][o] = manifest[o]
  BY <1>1 DEF Wanted, OwnPart
<1> QED  BY <1>8, <1>10, <1>11, <1>12

LEMMA ManagerStep ==
    ASSUME TargetsDiffer, TypeInv, TypeInv', OwnObjects, Directed, DeletesOwn,
           KnownManifests, DeployedInDestination, [Next]_vars
    PROVE  [Manager!Next]_(Manager!vars)
<1> USE DEF At, Rejected, clusterVars, envVars
<1>1. CASE UNCHANGED vars
  BY <1>1 DEF vars, Manager!vars, OwnPart, ObjsOf, Calling
<1>2. ASSUME NEW o \in Objs, NEW x \in Contents \cup {None}, GitPush(o, x)
      PROVE  Manager!Commit
  <2>1. Wanted' \in Manager!Deployment
    BY ViewsType
  <2> QED  BY <1>2, <2>1 DEF GitPush, clusterVars, Manager!Commit, Wanted, OwnPart, ObjsOf,
                             Calling
<1>3. ASSUME NEW cl \in Clusters, NEW o \in Objs, NEW x \in Contents \cup {None},
             Drift(cl, o, x)
      PROVE  \E a \in Apps : Manager!Drift(a)
  <2>1. PICK a \in Apps : DestOf[a] = cl /\ o \in ObjsOf(a)
    BY <1>3 DEF Drift, DeployedInDestination
  <2>2. /\ Puts(a, o, x) /\ drifts' = drifts + 1
        /\ live[DestOf[a]][o] # None /\ x # live[DestOf[a]][o]
    BY <1>3, <2>1 DEF Drift, Puts, KeepsOwner
  <2>3. /\ Manager!InCluster(a) /\ Manager!Changed(a) = {o} /\ Held[a][o] # None
    BY <2>1, <2>2, OneClusterChanges
  <2>4. o \in Objs
    BY <2>1 DEF ObjsOf
  <2> QED  BY <2>2, <2>3, <2>4 DEF Manager!Drift, Held
<1>4. ASSUME UNCHANGED <<live, manifest, drifts>>
      PROVE  Manager!Call
  BY <1>4 DEF Manager!Call, OwnPart, ObjsOf, Calling
<1>5. ASSUME NEW p \in Procs, ApplyManifest(p), ~(UNCHANGED live)
      PROVE  \E a \in Apps : Manager!Deploy(a)
  <2> DEFINE a == proc[p].app
             o == proc[p].cur
  <2>1. /\ a \in Apps /\ o \in ObjsOf(a) /\ targetCli = DestOf[a]
    BY <1>5 DEF ApplyManifest, TypeInv, CallsKnow, OwnObjects, OwnCall, Directed,
                DirectedCall
  <2>2. /\ proc[p].op = "sync" /\ (a \in AutoSync \/ proc[p].forced)
        /\ proc[p].want = manifest[o]
    BY <1>5 DEF ApplyManifest, KnownManifests, KnowsManifest, Applies
  <2>3. Puts(a, o, manifest[o]) /\ UNCHANGED drifts
    <3>1. ApplyManifestEffect(p)
      BY <1>5, ApplyManifestDoes
    <3> QED  BY <1>5, <2>1, <2>2, <3>1
             DEF ApplyManifest, ApplyManifestEffect, Puts, GoesOn, KeepsOwner
  <2> HIDE DEF a, o
  <2>4. /\ Manager!InCluster(a) /\ Manager!Changed(a) \subseteq {o}
        /\ Held'[a][o] = manifest[o] /\ Wanted[a][o] = manifest[o]
    BY <2>1, <2>3, OneClusterChanges
  <2>5. a \in AutoSync \cup ForcedNow
    BY <2>1, <2>2 DEF a, ForcedNow, Calling
  <2>6. \A y \in Manager!Changed(a) : Held'[a][y] = Wanted[a][y]
    BY <2>4
  <2> QED  BY <2>1, <2>3, <2>4, <2>5, <2>6
           DEF Manager!Deploy, Held, Wanted, ForcedNow
<1>6. ASSUME NEW p \in Procs, DeleteDeprecated(p), ~(UNCHANGED live)
      PROVE  \E a \in Apps : Manager!Prune(a) \/ Manager!Clear(a)
  <2> DEFINE a == proc[p].app
             o == proc[p].cur
  <2>1. /\ a \in Apps /\ o \in ObjsOf(a) /\ targetCli = DestOf[a]
    BY <1>6 DEF DeleteDeprecated, TypeInv, CallsKnow, DeletesOwn, Directed, DirectedCall
  <2>2. proc[p].op = "clear" \/ manifest[o] = None
    BY <1>6 DEF DeleteDeprecated, KnownManifests, KnowsOld, TypeInv, TypeOK, Proc
  <2>3. Puts(a, o, None) /\ UNCHANGED drifts
    <3>1. DeleteDeprecatedEffect(p)
      BY <1>6, DeleteDeprecatedDoes
    <3> QED  BY <1>6, <2>1, <3>1
             DEF DeleteDeprecated, DeleteDeprecatedEffect, Puts, GoesOn, KeepsOwner
  <2> HIDE DEF a, o
  <2>4. /\ Manager!InCluster(a) /\ Manager!Changed(a) \subseteq {o}
        /\ Held'[a][o] = None /\ Wanted[a][o] = manifest[o]
    BY <2>1, <2>3, OneClusterChanges
  <2>5. CASE proc[p].op = "clear"
    <3>1. a \in ClearingNow
      BY <2>1, <2>5 DEF a, ClearingNow, Calling
    <3>2. \A y \in Manager!Changed(a) : Held'[a][y] = None
      BY <2>4
    <3> QED  BY <2>1, <2>3, <2>4, <3>1, <3>2 DEF Manager!Clear, Held, ClearingNow
  <2>6. CASE manifest[o] = None
    <3>1. \A y \in Manager!Changed(a) : Held'[a][y] = None /\ Wanted[a][y] = None
      BY <2>4, <2>6
    <3> QED  BY <2>1, <2>3, <2>4, <3>1 DEF Manager!Prune, Held, Wanted
  <2> QED  BY <2>2, <2>5, <2>6
<1>7. ASSUME NEW p \in Procs, CallStep(p)
      PROVE  /\ UNCHANGED <<manifest, drifts>>
             /\ UNCHANGED live \/ ApplyManifest(p) \/ DeleteDeprecated(p)
  BY <1>7 DEF CallStep, SetTargetClient, GetManifestInfos, GetDeployResourceList,
              ObjectFromManifest, UpdateDeployResource, CreateDeployResource,
              CompareDeployWithManifest, ApplyManifest, EndOfManifests, DeleteRecord, GetDeprecated,
              DeleteDeprecated, Finish
<1>8. ASSUME NEW p \in Procs,
             \/ \E a \in Apps : \/ \E forced \in BOOLEAN : CheckSync(p, a, forced)
                                \/ CallClear(p, a)
             \/ CallFails(p)
      PROVE  UNCHANGED <<live, manifest, drifts>>
  BY <1>8 DEF CheckSync, CallClear, CallFails
<1>9. ASSUME Crash \/ \E r \in Apps \X Objs : CacheRecord(r)
      PROVE  UNCHANGED <<live, manifest, drifts>>
  BY <1>9 DEF Crash, CacheRecord
<1> QED  BY <1>1, <1>2, <1>3, <1>4, <1>5, <1>6, <1>7, <1>8, <1>9 DEF Next, Manager!Next

\* To repository and cluster, all the calls are steps of the interface: whatever
\* fails or dies on the way, nothing is deployed but the repository's content, by
\* policy or force, and nothing deleted but what it has dropped or a Clear removes.
THEOREM ManagerImplemented ==
    ASSUME OneCaller \/ OneCluster, OneRepository, LabelsDiffer, TargetsDiffer,
           Undisturbed
    PROVE  Spec => ImplementsManager
<1> DEFINE Inv == /\ TypeInv /\ OwnObjects /\ Directed /\ OldIsOwn /\ DeletesOwn
                  /\ KnownManifests /\ DeployedInDestination
<1>1. Init => Inv
  BY TypeInit, OwnObjectsInit, DirectedInit, OldIsOwnInit, KnownManifestsInit
     DEF Init, DeletesOwn, DeployedInDestination, IdleProc
<1>2. Inv /\ [Next]_vars => Inv'
  BY TypeStep, OwnObjectsStep, DirectedStep, OldIsOwnStep, DeletesOwnStep,
     KnownManifestsStep, DestinationStep
<1>3. Init => Manager!Init
  BY MapAssumption, NoneAssumption
     DEF Init, Manager!Init, OwnPart, Calling, IdleProc
<1>4. Inv /\ Inv' /\ [Next]_vars => [Manager!Next]_(Manager!vars)
  BY ManagerStep
<1> QED  BY <1>1, <1>2, <1>3, <1>4, PTL DEF Spec, ImplementsManager, Manager!Spec
=============================================================================
