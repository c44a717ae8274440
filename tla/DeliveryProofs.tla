--------------------------- MODULE DeliveryProofs ---------------------------
(***************************************************************************)
(* Proofs about Delivery, for any number of sessions, telemetry parts,     *)
(* threads, race ids, attempts and crashes: type correctness, the inductive*)
(* invariant DeliveryInv and the invariants it contains, and that Delivery *)
(* implements DeliveryLedger.                                              *)
(*                                                                         *)
(* DeliveryInv says what the copies that a thread carries without a lock   *)
(* still mean.  Each of its parts has a lemma "...Step" with one step per  *)
(* action of Next; a part uses only the parts named in its lemma.  Most    *)
(* actions that end a flush do so through LeaveFlush, which has a lemma of *)
(* its own for every part.                                                 *)
(***************************************************************************)
EXTENDS Delivery, TLAPS

\* The local variables of an idle thread have their types ...
LEMMA IdleJob == Idle \in Job
  BY ConstantsAssumption DEF Idle, Job, Roles, RidOrNone

\* ... and name nothing that an invariant speaks about.
LEMMA IdleFields ==
  /\ Idle \in Job
  /\ Idle.own = FALSE /\ Idle.uid = NoSession /\ Idle.rid = NoRace /\ Idle.n = 0 /\ Idle.teles = {}
  BY IdleJob DEF Idle

\* A thread that leaves flush_pending has nothing in hand but the rest of its list.
LEMMA LeaveFlushEffect ==
  ASSUME TypeOK, NEW t \in Threads, LeaveFlush(t)
  PROVE  \E label \in {"idle", "teles"}, j \in Job :
           /\ pc' = [pc EXCEPT ![t] = label]
           /\ job' = [job EXCEPT ![t] = j]
           /\ label = "teles" => j.role = job[t].role /\ j.role # "upload"
           /\ j.own = FALSE /\ j.uid = NoSession /\ j.rid = NoRace
           /\ j.teles \subseteq job[t].teles
<1> DEFINE j == IF job[t].role = "upload" THEN Idle
                ELSE [Idle EXCEPT !.role = job[t].role, !.teles = job[t].teles]
           label == IF job[t].role = "upload" THEN "idle" ELSE "teles"
<1>1. job \in [Threads -> Job] /\ job[t] \in Job
  BY DEF TypeOK
<1>2. pc' = [pc EXCEPT ![t] = label] /\ job' = [job EXCEPT ![t] = j]
  BY DEF LeaveFlush, Goto
<1>3. CASE job[t].role = "upload"
  <2>1. j \in Job /\ j.own = FALSE /\ j.uid = NoSession /\ j.rid = NoRace /\ j.teles \subseteq job[t].teles
    BY <1>3, IdleJob DEF Idle
  <2> QED
    BY <1>2, <1>3, <2>1
<1>4. CASE job[t].role # "upload"
  <2>1. j = [Idle EXCEPT !.role = job[t].role, !.teles = job[t].teles]
    BY <1>4
  <2>2. j \in Job /\ j.role = job[t].role /\ j.own = FALSE /\ j.uid = NoSession /\ j.rid = NoRace
        /\ j.teles = job[t].teles
    BY <1>1, <2>1, IdleJob DEF Idle, Job
  <2> HIDE DEF j
  <2> QED
    BY <1>2, <1>4, <2>2
<1> QED
  BY <1>3, <1>4

\* Leaving flush_pending keeps the types of the threads' variables.
LEMMA LeaveFlushType ==
  ASSUME TypeOK, NEW t \in Threads, LeaveFlush(t)
  PROVE  pc' \in [Threads -> Labels] /\ job' \in [Threads -> Job]
  BY LeaveFlushEffect DEF TypeOK, Labels

\* Every step keeps the types; the attempt counters stay in range because a
\* thread tries again only below MaxAttempts (InHand).
LEMMA TypeStep == TypeOK /\ InHand /\ [Next]_vars => TypeOK'
<1> SUFFICES ASSUME TypeOK, InHand, [Next]_vars PROVE TypeOK'
  OBVIOUS
<1> USE ConstantsAssumption
<1>1. ASSUME NEW s \in Sessions, NEW parts \in SUBSET Parts, NEW listed \in BOOLEAN, FinishSession(s, parts, listed) PROVE TypeOK'
  <2>1. teleParts' \in [Sessions -> SUBSET Parts] /\ teleRid' \in [Sessions -> RidOrNone]
    BY <1>1 DEF FinishSession, RemoveTelemetry, TypeOK, RidOrNone
  <2>2. captured' \in [Sessions -> SUBSET Parts]
    BY <1>1 DEF FinishSession, TypeOK
  <2>3. pc' \in [Threads -> Labels] /\ job' \in [Threads -> Job] /\ uploading' \subseteq Sessions
    <3>1. CASE listed
      <4>1. PICK t \in Threads :
              /\ pc' = [pc EXCEPT ![t] = "save"]
              /\ job' = [job EXCEPT ![t] = [Idle EXCEPT !.role = "upload", !.own = TRUE, !.uid = s]]
              /\ uploading' = uploading \cup {s}
        BY <1>1, <3>1 DEF FinishSession, Goto
      <4>2. [Idle EXCEPT !.role = "upload", !.own = TRUE, !.uid = s] \in Job
        BY IdleFields DEF Job, Roles, Idle
      <4> QED
        BY <4>1, <4>2 DEF TypeOK, Labels
    <3>2. CASE ~listed
      BY <1>1, <3>2 DEF FinishSession, TypeOK, threads
    <3> QED
      BY <3>1, <3>2
  <2> QED
    BY <1>1, <2>1, <2>2, <2>3 DEF FinishSession, TypeOK, backend
<1>2. ASSUME NEW t \in Threads, StartRuntime(t) PROVE TypeOK'
  <2> DEFINE j == [Idle EXCEPT !.role = "startup", !.races = cachedRaces]
  <2>1. j \in Job
    BY IdleFields DEF Job, Roles, TypeOK
  <2>2. job' = [job EXCEPT ![t] = j]
    BY <1>2 DEF StartRuntime
  <2> HIDE DEF j
  <2> QED
    BY <1>2, <2>1, <2>2 DEF StartRuntime, Goto, TypeOK, Labels, disk, backend, history
<1>3. ASSUME StopRuntime PROVE TypeOK'
  BY <1>3 DEF StopRuntime, TypeOK, disk, backend, threads, history
<1>4. ASSUME Crash PROVE TypeOK'
  <2>1. pc' \in [Threads -> Labels] /\ job' \in [Threads -> Job]
    BY <1>4, IdleJob DEF Crash, Labels
  <2>2. crashes' \in 0..MaxCrashes
    BY <1>4 DEF Crash, TypeOK
  <2> QED
    BY <1>4, <2>1, <2>2 DEF Crash, TypeOK, disk, backend, history
<1>5. ASSUME NEW t \in Threads, RetryNow(t) PROVE TypeOK'
  BY <1>5, IdleJob DEF RetryNow, Goto, TypeOK, Labels, disk, backend, agent, history
<1>6. ASSUME NEW t \in Threads, BootRetry(t) PROVE TypeOK'
  <2> DEFINE j == [job[t] EXCEPT !.races = cachedRaces]
  <2>1. job[t] \in Job /\ cachedRaces \in SUBSET Sessions
    BY <1>6 DEF BootRetry, TypeOK
  <2>2. j \in Job
    BY <2>1 DEF Job
  <2>3. job' = [job EXCEPT ![t] = j]
    BY <1>6 DEF BootRetry
  <2> HIDE DEF j
  <2> QED
    BY <1>6, <2>1, <2>2, <2>3 DEF BootRetry, Goto, TypeOK, Labels, disk, backend, history
<1>7. ASSUME NEW t \in Threads, NEW s \in Sessions, NextRace(t, s) PROVE TypeOK'
  <2> DEFINE k == [job[t] EXCEPT !.races = @ \ {s}, !.uid = s]
             j == [k EXCEPT !.n = 0, !.rid = NoRace]
  <2>1. job[t] \in Job /\ job[t].races \ {s} \in SUBSET Sessions /\ s \in Sessions \cup {NoSession}
    BY DEF TypeOK, Job
  <2>2. 0 \in 0..MaxAttempts /\ NoRace \in RidOrNone
    BY DEF RidOrNone
  <2>3. job' = [job EXCEPT ![t] = j] /\ pc' = [pc EXCEPT ![t] = "save"]
    BY <1>7 DEF NextRace, Goto
  <2>4. k \in Job
    BY <2>1 DEF Job
  <2>5. j \in Job
    <3> HIDE DEF k
    <3> QED
      BY <2>2, <2>4 DEF Job
  <2>6. pc' \in [Threads -> Labels] /\ job' \in [Threads -> Job]
    <3> HIDE DEF j
    <3> QED
      BY <2>3, <2>5 DEF TypeOK, Labels
  <2> HIDE DEF j, k
  <2> QED
    BY <1>7, <2>6 DEF NextRace, TypeOK, disk, backend, agent, history
<1>8. ASSUME NEW t \in Threads, LoadTelemetry(t) PROVE TypeOK'
  <2> DEFINE j == [job[t] EXCEPT !.teles = {<<s, teleRid[s]>> : s \in {u \in Sessions : HasTelemetry(u)}}]
  <2>1. job[t] \in Job /\ {<<s, teleRid[s]>> : s \in {u \in Sessions : HasTelemetry(u)}} \in SUBSET Entries
    BY <1>8 DEF LoadTelemetry, TypeOK, Entries
  <2>2. j \in Job
    BY <2>1 DEF Job
  <2>3. job' = [job EXCEPT ![t] = j]
    BY <1>8 DEF LoadTelemetry
  <2> HIDE DEF j
  <2> QED
    BY <1>8, <2>1, <2>2, <2>3 DEF LoadTelemetry, Goto, TypeOK, Labels, disk, backend, agent, history
<1>9. ASSUME NEW t \in Threads, NEW e \in Entries, NextTelemetry(t, e) PROVE TypeOK'
  <2> DEFINE k == [job[t] EXCEPT !.teles = @ \ {e}, !.uid = e[1]]
             j == [k EXCEPT !.n = 0, !.rid = e[2]]
  <2>1. job[t] \in Job /\ job[t].teles \ {e} \in SUBSET Entries /\ 0 \in 0..MaxAttempts
    BY DEF TypeOK, Job
  <2>2. e[1] \in Sessions \cup {NoSession} /\ e[2] \in RidOrNone
    BY DEF Entries
  <2>3. job' = [job EXCEPT ![t] = j] /\ pc' = [pc EXCEPT ![t] = "flush"]
    BY <1>9 DEF NextTelemetry, Goto
  <2>4. k \in Job
    BY <2>1, <2>2 DEF Job
  <2>5. j \in Job
    <3> HIDE DEF k
    <3> QED
      BY <2>1, <2>2, <2>4 DEF Job
  <2>6. pc' \in [Threads -> Labels] /\ job' \in [Threads -> Job]
    <3> HIDE DEF j
    <3> QED
      BY <2>3, <2>5 DEF TypeOK, Labels
  <2> HIDE DEF j, k
  <2> QED
    BY <1>9, <2>6 DEF NextTelemetry, TypeOK, disk, backend, agent, history
<1>10. ASSUME NEW t \in Threads, EndRetry(t) PROVE TypeOK'
  <2>1. ASSUME NEW j \in Job PROVE [j EXCEPT !.own = FALSE] \in Job
    BY DEF Job
  <2>2. job' \in [Threads -> Job]
    BY <1>10, <2>1, IdleJob DEF EndRetry, TypeOK
  <2> QED
    BY <1>10, <2>2 DEF EndRetry, Goto, TypeOK, Labels, disk, backend, history
<1>11. ASSUME NEW t \in Threads, SaveRace(t) PROVE TypeOK'
  BY <1>11 DEF SaveRace, TypeOK, Goto, Labels, InHand, Delivering, backend, agent, history
<1>12. ASSUME NEW t \in Threads, SubmitRace(t) PROVE TypeOK'
  <2> DEFINE j == [job[t] EXCEPT !.n = @ + 1]
  <2>1. job[t] \in Job /\ job[t].n + 1 \in 0..MaxAttempts /\ job[t].uid \in Sessions
    BY <1>12 DEF SubmitRace, TypeOK, Job, InHand, Delivering
  <2>2. j \in Job
    BY <2>1 DEF Job
  <2>3. job' = [job EXCEPT ![t] = j]
    BY <1>12 DEF SubmitRace
  <2> HIDE DEF j
  <2> QED
    BY <1>12, <2>1, <2>2, <2>3 DEF SubmitRace, Goto, TypeOK, Labels, disk, backend, agent, history
<1>13. ASSUME NEW t \in Threads, SubmitAnswered(t) PROVE TypeOK'
  <2> DEFINE j == [job[t] EXCEPT !.rid = races'[job[t].uid]]
  <2>1. job[t] \in Job /\ job[t].uid \in Sessions /\ races' \in [Sessions -> RidOrNone]
    BY <1>13 DEF SubmitAnswered, RecordRace, TypeOK, RidOrNone
  <2>2. j \in Job
    BY <2>1 DEF Job
  <2>3. job' = [job EXCEPT ![t] = j]
    BY <1>13 DEF SubmitAnswered
  <2> HIDE DEF j
  <2> QED
    BY <1>13, <2>1, <2>2, <2>3 DEF SubmitAnswered, Goto, TypeOK, Labels, disk, agent, history
<1>14. ASSUME NEW m \in Threads \X Sessions, SubmitUnanswered(m) PROVE TypeOK'
  BY <1>14 DEF SubmitUnanswered, TypeOK, RecordRace, RidOrNone, disk, threads, agent, history
<1>15. ASSUME NEW m \in Threads \X Sessions, SubmitLost(m) PROVE TypeOK'
  BY <1>15 DEF SubmitLost, TypeOK, disk, backend, threads, agent, history
<1>16. ASSUME NEW t \in Threads, SubmitFailed(t) PROVE TypeOK'
  BY <1>16 DEF SubmitFailed, TypeOK, Goto, AfterUpload, Labels, disk, backend, agent, history
<1>17. ASSUME NEW t \in Threads, SubmitUnauthorized(t) PROVE TypeOK'
  BY <1>17 DEF SubmitUnauthorized, TypeOK, Goto, AfterUpload, Labels, disk, backend, agent, history
<1>18. ASSUME NEW t \in Threads, BindRaceId(t) PROVE TypeOK'
  BY <1>18 DEF BindRaceId, TypeOK, Goto, AttachRaceId, Labels, Job, backend, agent, history
<1>19. ASSUME NEW t \in Threads, UncacheRace(t) PROVE TypeOK'
  BY <1>19 DEF UncacheRace, TypeOK, Goto, AfterUpload, Labels, backend, agent, history
<1>20. ASSUME NEW t \in Threads, SettleUpload(t) PROVE TypeOK'
  <2> DEFINE j == IF job[t].rid # NoRace THEN [job[t] EXCEPT !.n = 0] ELSE Idle
  <2>1. job[t] \in Job /\ 0 \in 0..MaxAttempts /\ job[t].uid \in Sessions
    BY <1>20 DEF SettleUpload, TypeOK, InHand, Delivering
  <2>2. [job[t] EXCEPT !.n = 0] \in Job
    BY <2>1 DEF Job
  <2>3. j \in Job
    BY <2>2, IdleJob
  <2>4. job' = [job EXCEPT ![t] = j]
    BY <1>20 DEF SettleUpload
  <2> HIDE DEF j
  <2> QED
    BY <1>20, <2>1, <2>3, <2>4 DEF SettleUpload, Goto, TypeOK, Labels, disk, backend, history
<1>21. ASSUME NEW t \in Threads, ReadSnapshot(t) PROVE TypeOK'
  <2> DEFINE id == IF job[t].rid # NoRace THEN job[t].rid ELSE teleRid[job[t].uid]
             j == [job[t] EXCEPT !.copy = teleParts[job[t].uid], !.rid = id]
  <2>1. job[t].uid \in Sessions /\ job[t] \in Job /\ job[t].rid \in RidOrNone
    BY <1>21 DEF ReadSnapshot, InHand, Delivering, TypeOK, Job
  <2>2. id \in RidOrNone /\ teleParts[job[t].uid] \in SUBSET Parts
    BY <2>1 DEF TypeOK
  <2>3. teleRid' \in [Sessions -> RidOrNone]
    BY <1>21, <2>1 DEF ReadSnapshot, AttachRaceId, TypeOK
  <2>4. pc' \in [Threads -> Labels] /\ job' \in [Threads -> Job]
    <3>1. CASE HasTelemetry(job[t].uid)
      <4>1. job' = [job EXCEPT ![t] = j]
        BY <1>21, <3>1 DEF ReadSnapshot, TypeOK
      <4>2. pc' = [pc EXCEPT ![t] = IF id = NoRace THEN "lookup" ELSE "tattempt"]
        BY <1>21, <3>1 DEF ReadSnapshot, Goto
      <4>3. j \in Job
        <5> HIDE DEF id
        <5> QED
          BY <2>1, <2>2 DEF Job
      <4> HIDE DEF j, id
      <4> QED
        BY <4>1, <4>2, <4>3 DEF TypeOK, Labels
    <3>2. CASE ~HasTelemetry(job[t].uid)
      BY <1>21, <3>2, LeaveFlushType DEF ReadSnapshot
    <3> QED
      BY <3>1, <3>2
  <2> HIDE DEF id, j
  <2> QED
    BY <1>21, <2>3, <2>4 DEF ReadSnapshot, TypeOK, backend, agent, history
<1>22. ASSUME NEW t \in Threads, LookupRace(t) PROVE TypeOK'
  <2> DEFINE j == [job[t] EXCEPT !.rid = races[job[t].uid]]
  <2>1. job[t] \in Job /\ job[t].uid \in Sessions /\ races[job[t].uid] \in RidOrNone
    BY <1>22 DEF LookupRace, TypeOK, InHand, Delivering
  <2>2. j \in Job
    BY <2>1 DEF Job
  <2>3. job' = [job EXCEPT ![t] = j]
    BY <1>22 DEF LookupRace
  <2> HIDE DEF j
  <2> QED
    BY <1>22, <2>1, <2>2, <2>3 DEF LookupRace, AttachRaceId, Goto, TypeOK, Labels, backend, agent, history
<1>23. ASSUME NEW t \in Threads, LookupFailed(t) PROVE TypeOK'
  <2>1. pc' \in [Threads -> Labels] /\ job' \in [Threads -> Job]
    BY <1>23, LeaveFlushType DEF LookupFailed, FailFlush
  <2>2. job[t].uid \in Sessions
    BY <1>23 DEF LookupFailed, InHand, Delivering
  <2> QED
    BY <1>23, <2>1, <2>2 DEF LookupFailed, FailFlush, TypeOK, disk, backend, agent
<1>24. ASSUME NEW t \in Threads, AttemptFlush(t) PROVE TypeOK'
  <2>1. pc' \in [Threads -> Labels] /\ job' \in [Threads -> Job]
    <3>1. CASE HasTelemetry(job[t].uid)
      <4>1. job[t] \in Job /\ job[t].n + 1 \in 0..MaxAttempts /\ {} \in SUBSET Parts
        BY <1>24 DEF AttemptFlush, InHand, TypeOK, Job
      <4>2. [job[t] EXCEPT !.n = job[t].n + 1, !.sent = {}] \in Job
        BY <4>1 DEF Job
      <4> QED
        BY <1>24, <3>1, <4>2 DEF AttemptFlush, Goto, TypeOK, Labels
    <3>2. CASE ~HasTelemetry(job[t].uid)
      BY <1>24, <3>2, LeaveFlushType DEF AttemptFlush
    <3> QED
      BY <3>1, <3>2
  <2> QED
    BY <1>24, <2>1 DEF AttemptFlush, TypeOK, disk, backend, agent, history
<1>25. ASSUME NEW t \in Threads, NEW p \in Parts, PostPart(t, p) PROVE TypeOK'
  <2> DEFINE j == [job[t] EXCEPT !.sent = @ \cup {p}]
  <2>1. job[t] \in Job /\ job[t].sent \cup {p} \in SUBSET Parts
    BY DEF TypeOK, Job
  <2>2. j \in Job
    BY <2>1 DEF Job
  <2>3. job' = [job EXCEPT ![t] = j]
    BY <1>25 DEF PostPart
  <2>4. job[t].uid \in Sessions /\ job[t].rid \in RaceIds
    BY <1>25 DEF PostPart, InHand, Delivering, TypeOK, Job, RidOrNone
  <2>5. stored' \subseteq RaceIds \X Sessions \X Parts
    BY <1>25, <2>4 DEF PostPart, StorePart, TypeOK
  <2> HIDE DEF j
  <2> QED
    BY <1>25, <2>2, <2>3, <2>5 DEF PostPart, Goto, TypeOK, Labels, disk, agent, history
<1>26. ASSUME NEW t \in Threads, NEW p \in Parts, PostFailed(t, p) PROVE TypeOK'
  <2>1. /\ job[t].uid \in Sessions
        /\ job[t].rid \in RaceIds
    BY <1>26 DEF PostFailed, InHand, Delivering, TypeOK, Job, RidOrNone
  <2>2. stored' \subseteq RaceIds \X Sessions \X Parts
    BY <1>26, <2>1 DEF PostFailed, StorePart, TypeOK
  <2>3. /\ pc' \in [Threads -> Labels] /\ job' \in [Threads -> Job]
        /\ failedFlush' \subseteq Sessions
    <3>1. CASE HasTelemetry(job[t].uid) /\ job[t].n < MaxAttempts
      BY <1>26, <3>1 DEF PostFailed, Goto, TypeOK, Labels
    <3>2. CASE ~(HasTelemetry(job[t].uid) /\ job[t].n < MaxAttempts)
      BY <1>26, <2>1, <3>2, LeaveFlushType DEF PostFailed, FailFlush, TypeOK
    <3> QED
      BY <3>1, <3>2
  <2> QED
    BY <1>26, <2>2, <2>3 DEF PostFailed, TypeOK, disk, agent
<1>27. ASSUME NEW t \in Threads, PostUnauthorized(t) PROVE TypeOK'
  <2>1. pc' \in [Threads -> Labels] /\ job' \in [Threads -> Job]
    BY <1>27, LeaveFlushType DEF PostUnauthorized, FailFlush
  <2>2. job[t].uid \in Sessions
    BY <1>27 DEF PostUnauthorized, InHand, Delivering
  <2> QED
    BY <1>27, <2>1, <2>2 DEF PostUnauthorized, FailFlush, TypeOK, disk, backend, agent
<1>28. ASSUME NEW t \in Threads, ForgetTelemetry(t) PROVE TypeOK'
  <2>1. pc' \in [Threads -> Labels] /\ job' \in [Threads -> Job]
    BY <1>28, LeaveFlushType DEF ForgetTelemetry
  <2>2. job[t].uid \in Sessions
    BY <1>28 DEF ForgetTelemetry, InHand, Delivering
  <2> QED
    BY <1>28, <2>1, <2>2 DEF ForgetTelemetry, RemoveTelemetry, RidOrNone, TypeOK, backend, agent, history
<1>29. CASE UNCHANGED vars
  BY <1>29 DEF TypeOK, vars, disk, backend, threads, agent, history
<1> QED
  BY <1>1, <1>2, <1>3, <1>4, <1>5, <1>6, <1>7, <1>8, <1>9, <1>10, <1>11, <1>12, <1>13, <1>14, <1>15,
     <1>16, <1>17, <1>18, <1>19, <1>20, <1>21, <1>22, <1>23, <1>24, <1>25, <1>26, <1>27, <1>28, <1>29
  DEF Next, Upload, Flush, Retry

\* A thread that leaves flush_pending has nothing in hand it should not have.
LEMMA LeaveFlushInHand ==
  ASSUME TypeOK, InHand, NEW t \in Threads, LeaveFlush(t)
  PROVE  InHand'
<1>1. PICK label \in {"idle", "teles"}, j \in Job :
           /\ pc' = [pc EXCEPT ![t] = label]
           /\ job' = [job EXCEPT ![t] = j]
           /\ label = "teles" => j.role = job[t].role /\ j.role # "upload"
           /\ j.own = FALSE /\ j.uid = NoSession /\ j.rid = NoRace
           /\ j.teles \subseteq job[t].teles
  BY LeaveFlushEffect
<1> QED
  BY <1>1 DEF InHand, TypeOK, Delivering

\* Every step keeps what a thread's place in the code says about its variables.
LEMMA InHandStep == TypeOK /\ InHand /\ [Next]_vars => InHand'
<1> SUFFICES ASSUME TypeOK, InHand, [Next]_vars PROVE InHand'
  OBVIOUS
<1> USE ConstantsAssumption
<1>1. ASSUME NEW s \in Sessions, NEW parts \in SUBSET Parts, NEW listed \in BOOLEAN, FinishSession(s, parts, listed) PROVE InHand'
  <2>1. CASE listed
    <3>1. PICK t \in Threads :
            /\ pc' = [pc EXCEPT ![t] = "save"]
            /\ job' = [job EXCEPT ![t] = [Idle EXCEPT !.role = "upload", !.own = TRUE, !.uid = s]]
            /\ uploading' = uploading \cup {s}
            /\ pc[t] = "idle"
      BY <1>1, <2>1 DEF FinishSession, Goto
    <3> QED
      BY <1>1, <3>1, IdleFields DEF FinishSession, TypeOK, InHand
  <2>2. CASE ~listed
    BY <1>1, <2>2 DEF FinishSession, threads, InHand
  <2> QED
    BY <2>1, <2>2
<1>2. ASSUME NEW t \in Threads, StartRuntime(t) PROVE InHand'
  BY <1>2 DEF StartRuntime, Goto, InHand, Delivering, TypeOK
<1>3. ASSUME StopRuntime PROVE InHand'
  BY <1>3 DEF StopRuntime, InHand, threads
<1>4. ASSUME Crash PROVE InHand'
  BY <1>4 DEF Crash, InHand, Delivering
<1>5. ASSUME NEW t \in Threads, RetryNow(t) PROVE InHand'
  BY <1>5 DEF RetryNow, Goto, Idle, InHand, Delivering, TypeOK
<1>6. ASSUME NEW t \in Threads, BootRetry(t) PROVE InHand'
  BY <1>6 DEF BootRetry, Goto, InHand, Delivering
<1>7. ASSUME NEW t \in Threads, NEW s \in Sessions, NextRace(t, s) PROVE InHand'
  BY <1>7 DEF NextRace, Goto, InHand, TypeOK
<1>8. ASSUME NEW t \in Threads, LoadTelemetry(t) PROVE InHand'
  BY <1>8 DEF LoadTelemetry, Goto, InHand, Delivering
<1>9. ASSUME NEW t \in Threads, NEW e \in Entries, NextTelemetry(t, e) PROVE InHand'
  BY <1>9 DEF NextTelemetry, Goto, InHand, TypeOK, Entries
<1>10. ASSUME NEW t \in Threads, EndRetry(t) PROVE InHand'
  BY <1>10 DEF EndRetry, Goto, Idle, InHand, Delivering, TypeOK, Job, Entries, threads
<1>11. ASSUME NEW t \in Threads, SaveRace(t) PROVE InHand'
  BY <1>11 DEF SaveRace, Goto, InHand, Delivering
<1>12. ASSUME NEW t \in Threads, SubmitRace(t) PROVE InHand'
  BY <1>12 DEF SubmitRace, Goto, InHand, Delivering, TypeOK
<1>13. ASSUME NEW t \in Threads, SubmitAnswered(t) PROVE InHand'
  BY <1>13 DEF SubmitAnswered, Goto, RecordRace, InHand, TypeOK
<1>14. ASSUME NEW m \in Threads \X Sessions, SubmitUnanswered(m) PROVE InHand'
  BY <1>14 DEF SubmitUnanswered, InHand, threads
<1>15. ASSUME NEW m \in Threads \X Sessions, SubmitLost(m) PROVE InHand'
  BY <1>15 DEF SubmitLost, InHand, threads
<1>16. ASSUME NEW t \in Threads, SubmitFailed(t) PROVE InHand'
  BY <1>16 DEF SubmitFailed, Goto, AfterUpload, InHand, Delivering
<1>17. ASSUME NEW t \in Threads, SubmitUnauthorized(t) PROVE InHand'
  BY <1>17 DEF SubmitUnauthorized, Goto, AfterUpload, InHand, TypeOK
<1>18. ASSUME NEW t \in Threads, BindRaceId(t) PROVE InHand'
  BY <1>18 DEF BindRaceId, Goto, InHand, Delivering
<1>19. ASSUME NEW t \in Threads, UncacheRace(t) PROVE InHand'
  BY <1>19 DEF UncacheRace, Goto, AfterUpload, InHand, Delivering
<1>20. ASSUME NEW t \in Threads, SettleUpload(t) PROVE InHand'
  BY <1>20 DEF SettleUpload, Goto, InHand, Delivering, TypeOK
<1>21. ASSUME NEW t \in Threads, ReadSnapshot(t) PROVE InHand'
  <2>1. CASE HasTelemetry(job[t].uid)
    BY <1>21, <2>1 DEF ReadSnapshot, Goto, TypeOK, Job, InHand, Delivering
  <2>2. CASE ~(HasTelemetry(job[t].uid))
    BY <1>21, <2>2, LeaveFlushInHand DEF ReadSnapshot
  <2> QED
    BY <2>1, <2>2
<1>22. ASSUME NEW t \in Threads, LookupRace(t) PROVE InHand'
  BY <1>22 DEF LookupRace, Goto, InHand, Delivering, TypeOK
<1>23. ASSUME NEW t \in Threads, LookupFailed(t) PROVE InHand'
  BY <1>23, LeaveFlushInHand DEF LookupFailed, FailFlush
<1>24. ASSUME NEW t \in Threads, AttemptFlush(t) PROVE InHand'
  <2>1. CASE HasTelemetry(job[t].uid)
    BY <1>24, <2>1 DEF AttemptFlush, Goto, TypeOK, Job, InHand, Delivering
  <2>2. CASE ~(HasTelemetry(job[t].uid))
    BY <1>24, <2>2, LeaveFlushInHand DEF AttemptFlush
  <2> QED
    BY <2>1, <2>2
<1>25. ASSUME NEW t \in Threads, NEW p \in Parts, PostPart(t, p) PROVE InHand'
  BY <1>25 DEF PostPart, Goto, InHand, Delivering
<1>26. ASSUME NEW t \in Threads, NEW p \in Parts, PostFailed(t, p) PROVE InHand'
  <2>1. CASE HasTelemetry(job[t].uid) /\ job[t].n < MaxAttempts
    BY <1>26, <2>1 DEF PostFailed, Goto, TypeOK, InHand, Delivering
  <2>2. CASE ~(HasTelemetry(job[t].uid) /\ job[t].n < MaxAttempts)
    BY <1>26, <2>2, LeaveFlushInHand DEF PostFailed, FailFlush
  <2> QED
    BY <2>1, <2>2
<1>27. ASSUME NEW t \in Threads, PostUnauthorized(t) PROVE InHand'
  BY <1>27, LeaveFlushInHand DEF PostUnauthorized, FailFlush
<1>28. ASSUME NEW t \in Threads, ForgetTelemetry(t) PROVE InHand'
  BY <1>28, LeaveFlushInHand DEF ForgetTelemetry
<1>29. CASE UNCHANGED vars
  BY <1>29 DEF InHand, vars, threads
<1> QED
  BY <1>1, <1>2, <1>3, <1>4, <1>5, <1>6, <1>7, <1>8, <1>9, <1>10, <1>11, <1>12, <1>13, <1>14, <1>15,
     <1>16, <1>17, <1>18, <1>19, <1>20, <1>21, <1>22, <1>23, <1>24, <1>25, <1>26, <1>27, <1>28, <1>29
  DEF Next, Upload, Flush, Retry

\* Once a submit is handled its session has a race, and no race changes.
LEMMA RecordRaceEffect ==
  ASSUME TypeOK, NEW s \in Sessions, RecordRace(s)
  PROVE  /\ races' \in [Sessions -> RidOrNone]
         /\ races'[s] # NoRace
         /\ \A u \in Sessions : races[u] # NoRace => races'[u] = races[u]
  BY ConstantsAssumption DEF RecordRace, TypeOK, RidOrNone

\* Leaving flush_pending forgets a race id, it never makes one up.
LEMMA LeaveFlushIdsTrue ==
  ASSUME TypeOK, IdsTrue, NEW t \in Threads, LeaveFlush(t), UNCHANGED <<teleRid, races>>
  PROVE  IdsTrue'
<1>1. PICK label \in {"idle", "teles"}, j \in Job :
           /\ pc' = [pc EXCEPT ![t] = label]
           /\ job' = [job EXCEPT ![t] = j]
           /\ label = "teles" => j.role = job[t].role /\ j.role # "upload"
           /\ j.own = FALSE /\ j.uid = NoSession /\ j.rid = NoRace
           /\ j.teles \subseteq job[t].teles
  BY LeaveFlushEffect
<1> QED
  BY <1>1 DEF IdsTrue

\* Every race id in a cache entry, a list or a local variable stays the one of
\* its session: ids are copied together with the session they were read for.
LEMMA IdsTrueStep == TypeOK /\ InHand /\ IdsTrue /\ [Next]_vars => IdsTrue'
<1> SUFFICES ASSUME TypeOK, InHand, IdsTrue, [Next]_vars PROVE IdsTrue'
  OBVIOUS
<1> USE ConstantsAssumption
<1>1. ASSUME NEW s \in Sessions, NEW parts \in SUBSET Parts, NEW listed \in BOOLEAN, FinishSession(s, parts, listed) PROVE IdsTrue'
  <2>1. races' = races /\ \A u \in Sessions : teleRid'[u] \in {NoRace, races[u]}
    BY <1>1 DEF FinishSession, RemoveTelemetry, IdsTrue, TypeOK, backend
  <2>2. CASE listed
    <3>1. PICK t \in Threads :
            job' = [job EXCEPT ![t] = [Idle EXCEPT !.role = "upload", !.own = TRUE, !.uid = s]]
      BY <1>1, <2>2 DEF FinishSession
    <3> QED
      BY <2>1, <3>1, IdleFields DEF TypeOK, IdsTrue
  <2>3. CASE ~listed
    BY <1>1, <2>1, <2>3 DEF FinishSession, threads, IdsTrue
  <2> QED
    BY <2>2, <2>3
<1>2. ASSUME NEW t \in Threads, StartRuntime(t) PROVE IdsTrue'
  BY <1>2 DEF StartRuntime, Idle, IdsTrue, disk, backend
<1>3. ASSUME StopRuntime PROVE IdsTrue'
  BY <1>3 DEF StopRuntime, IdsTrue, disk, backend, threads
<1>4. ASSUME Crash PROVE IdsTrue'
  BY <1>4 DEF Crash, Idle, IdsTrue, disk, backend
<1>5. ASSUME NEW t \in Threads, RetryNow(t) PROVE IdsTrue'
  BY <1>5 DEF RetryNow, Idle, IdsTrue, disk, backend
<1>6. ASSUME NEW t \in Threads, BootRetry(t) PROVE IdsTrue'
  BY <1>6 DEF BootRetry, IdsTrue, disk, backend
<1>7. ASSUME NEW t \in Threads, NEW s \in Sessions, NextRace(t, s) PROVE IdsTrue'
  BY <1>7 DEF NextRace, IdsTrue, TypeOK, disk, backend
<1>8. ASSUME NEW t \in Threads, LoadTelemetry(t) PROVE IdsTrue'
  BY <1>8 DEF LoadTelemetry, IdsTrue, disk, backend
<1>9. ASSUME NEW t \in Threads, NEW e \in Entries, NextTelemetry(t, e) PROVE IdsTrue'
  BY <1>9 DEF NextTelemetry, IdsTrue, TypeOK, Entries, disk, backend
<1>10. ASSUME NEW t \in Threads, EndRetry(t) PROVE IdsTrue'
  <2>1. \A u \in Threads : \/ job'[u] = Idle
                            \/ /\ job'[u].uid = job[u].uid
                               /\ job'[u].rid = job[u].rid
                               /\ job'[u].teles = job[u].teles
    BY <1>10 DEF EndRetry, TypeOK, Job
  <2> QED
    BY <1>10, <2>1, IdleFields DEF EndRetry, IdsTrue, disk, backend
<1>11. ASSUME NEW t \in Threads, SaveRace(t) PROVE IdsTrue'
  BY <1>11 DEF SaveRace, IdsTrue, backend
<1>12. ASSUME NEW t \in Threads, SubmitRace(t) PROVE IdsTrue'
  BY <1>12 DEF SubmitRace, IdsTrue, disk, backend
<1>13. ASSUME NEW t \in Threads, SubmitAnswered(t) PROVE IdsTrue'
  BY <1>13, RecordRaceEffect DEF SubmitAnswered, IdsTrue, TypeOK, Job, Entries, disk
<1>14. ASSUME NEW m \in Threads \X Sessions, SubmitUnanswered(m) PROVE IdsTrue'
  BY <1>14, RecordRaceEffect DEF SubmitUnanswered, IdsTrue, TypeOK, Job, Entries, disk, threads
<1>15. ASSUME NEW m \in Threads \X Sessions, SubmitLost(m) PROVE IdsTrue'
  BY <1>15 DEF SubmitLost, IdsTrue, disk, backend, threads
<1>16. ASSUME NEW t \in Threads, SubmitFailed(t) PROVE IdsTrue'
  BY <1>16 DEF SubmitFailed, IdsTrue, disk, backend
<1>17. ASSUME NEW t \in Threads, SubmitUnauthorized(t) PROVE IdsTrue'
  BY <1>17 DEF SubmitUnauthorized, IdsTrue, disk, backend
<1>18. ASSUME NEW t \in Threads, BindRaceId(t) PROVE IdsTrue'
  BY <1>18 DEF BindRaceId, AttachRaceId, IdsTrue, backend
<1>19. ASSUME NEW t \in Threads, UncacheRace(t) PROVE IdsTrue'
  BY <1>19 DEF UncacheRace, IdsTrue, backend
<1>20. ASSUME NEW t \in Threads, SettleUpload(t) PROVE IdsTrue'
  BY <1>20 DEF SettleUpload, Idle, IdsTrue, disk, backend
<1>21. ASSUME NEW t \in Threads, ReadSnapshot(t) PROVE IdsTrue'
  <2>1. job[t].uid \in Sessions /\ races' = races
    BY <1>21 DEF ReadSnapshot, InHand, Delivering, backend
  <2>2. CASE HasTelemetry(job[t].uid)
    <3> DEFINE id == IF job[t].rid # NoRace THEN job[t].rid ELSE teleRid[job[t].uid]
    <3>1. id \in {NoRace, races[job[t].uid]}
      BY <2>1 DEF IdsTrue
    <3>2. \A u \in Sessions : teleRid'[u] \in {NoRace, races[u]}
      BY <1>21, <2>1, <2>2 DEF ReadSnapshot, AttachRaceId, IdsTrue, TypeOK
    <3>3. job' = [job EXCEPT ![t].copy = teleParts[job[t].uid], ![t].rid = id]
      BY <1>21, <2>2 DEF ReadSnapshot
    <3>4. \A u \in Threads : job'[u].teles = job[u].teles /\ job'[u].uid = job[u].uid
                            /\ job'[u].rid = IF u = t THEN id ELSE job[u].rid
      BY <3>3 DEF TypeOK
    <3> HIDE DEF id
    <3> QED
      BY <2>1, <3>1, <3>2, <3>4 DEF IdsTrue
  <2>3. CASE ~HasTelemetry(job[t].uid)
    BY <1>21, <2>3, LeaveFlushIdsTrue DEF ReadSnapshot, backend
  <2> QED
    BY <2>2, <2>3
<1>22. ASSUME NEW t \in Threads, LookupRace(t) PROVE IdsTrue'
  BY <1>22 DEF LookupRace, AttachRaceId, IdsTrue, InHand, Delivering, backend
<1>23. ASSUME NEW t \in Threads, LookupFailed(t) PROVE IdsTrue'
  BY <1>23, LeaveFlushIdsTrue DEF LookupFailed, FailFlush, disk, backend
<1>24. ASSUME NEW t \in Threads, AttemptFlush(t) PROVE IdsTrue'
  <2>1. CASE HasTelemetry(job[t].uid)
    BY <1>24, <2>1 DEF AttemptFlush, TypeOK, Job, IdsTrue, disk, backend
  <2>2. CASE ~(HasTelemetry(job[t].uid))
    BY <1>24, <2>2, LeaveFlushIdsTrue DEF AttemptFlush, disk, backend
  <2> QED
    BY <2>1, <2>2
<1>25. ASSUME NEW t \in Threads, NEW p \in Parts, PostPart(t, p) PROVE IdsTrue'
  BY <1>25 DEF PostPart, IdsTrue, disk
<1>26. ASSUME NEW t \in Threads, NEW p \in Parts, PostFailed(t, p) PROVE IdsTrue'
  <2>1. CASE HasTelemetry(job[t].uid) /\ job[t].n < MaxAttempts
    BY <1>26, <2>1 DEF PostFailed, IdsTrue, disk
  <2>2. CASE ~(HasTelemetry(job[t].uid) /\ job[t].n < MaxAttempts)
    BY <1>26, <2>2, LeaveFlushIdsTrue DEF PostFailed, FailFlush, disk
  <2> QED
    BY <2>1, <2>2
<1>27. ASSUME NEW t \in Threads, PostUnauthorized(t) PROVE IdsTrue'
  BY <1>27, LeaveFlushIdsTrue DEF PostUnauthorized, FailFlush, disk, backend
<1>28. ASSUME NEW t \in Threads, ForgetTelemetry(t) PROVE IdsTrue'
  <2>1. races' = races /\ \A u \in Sessions : teleRid'[u] \in {NoRace, races[u]}
    BY <1>28 DEF ForgetTelemetry, RemoveTelemetry, IdsTrue, backend
  <2>2. PICK j \in Job :
           /\ job' = [job EXCEPT ![t] = j]
           /\ j.rid = NoRace
           /\ j.teles \subseteq job[t].teles
    BY <1>28, LeaveFlushEffect DEF ForgetTelemetry
  <2> QED
    BY <2>1, <2>2 DEF IdsTrue
<1>29. CASE UNCHANGED vars
  BY <1>29 DEF IdsTrue, vars, disk, backend, threads
<1> QED
  BY <1>1, <1>2, <1>3, <1>4, <1>5, <1>6, <1>7, <1>8, <1>9, <1>10, <1>11, <1>12, <1>13, <1>14, <1>15,
     <1>16, <1>17, <1>18, <1>19, <1>20, <1>21, <1>22, <1>23, <1>24, <1>25, <1>26, <1>27, <1>28, <1>29
  DEF Next, Upload, Flush, Retry

\* Rows are stored under the race id a thread has in hand, and that is true.
LEMMA TelemetryBelongsStep == TypeOK /\ InHand /\ IdsTrue /\ TelemetryBelongs /\ [Next]_vars => TelemetryBelongs'
<1> SUFFICES ASSUME TypeOK, InHand, IdsTrue, TelemetryBelongs, [Next]_vars PROVE TelemetryBelongs'
  OBVIOUS
<1> USE ConstantsAssumption
<1>1. ASSUME NEW s \in Sessions, NEW parts \in SUBSET Parts, NEW listed \in BOOLEAN, FinishSession(s, parts, listed) PROVE TelemetryBelongs'
  BY <1>1 DEF FinishSession, TelemetryBelongs, backend
<1>2. ASSUME NEW t \in Threads, StartRuntime(t) PROVE TelemetryBelongs'
  BY <1>2 DEF StartRuntime, TelemetryBelongs, backend
<1>3. ASSUME StopRuntime PROVE TelemetryBelongs'
  BY <1>3 DEF StopRuntime, TelemetryBelongs, backend
<1>4. ASSUME Crash PROVE TelemetryBelongs'
  BY <1>4 DEF Crash, TelemetryBelongs, backend
<1>5. ASSUME NEW t \in Threads, RetryNow(t) PROVE TelemetryBelongs'
  BY <1>5 DEF RetryNow, TelemetryBelongs, backend
<1>6. ASSUME NEW t \in Threads, BootRetry(t) PROVE TelemetryBelongs'
  BY <1>6 DEF BootRetry, TelemetryBelongs, backend
<1>7. ASSUME NEW t \in Threads, NEW s \in Sessions, NextRace(t, s) PROVE TelemetryBelongs'
  BY <1>7 DEF NextRace, TelemetryBelongs, backend
<1>8. ASSUME NEW t \in Threads, LoadTelemetry(t) PROVE TelemetryBelongs'
  BY <1>8 DEF LoadTelemetry, TelemetryBelongs, backend
<1>9. ASSUME NEW t \in Threads, NEW e \in Entries, NextTelemetry(t, e) PROVE TelemetryBelongs'
  BY <1>9 DEF NextTelemetry, TelemetryBelongs, backend
<1>10. ASSUME NEW t \in Threads, EndRetry(t) PROVE TelemetryBelongs'
  BY <1>10 DEF EndRetry, TelemetryBelongs, backend
<1>11. ASSUME NEW t \in Threads, SaveRace(t) PROVE TelemetryBelongs'
  BY <1>11 DEF SaveRace, TelemetryBelongs, backend
<1>12. ASSUME NEW t \in Threads, SubmitRace(t) PROVE TelemetryBelongs'
  BY <1>12 DEF SubmitRace, TelemetryBelongs, backend
<1>13. ASSUME NEW t \in Threads, SubmitAnswered(t) PROVE TelemetryBelongs'
  BY <1>13, RecordRaceEffect DEF SubmitAnswered, TelemetryBelongs, TypeOK
<1>14. ASSUME NEW m \in Threads \X Sessions, SubmitUnanswered(m) PROVE TelemetryBelongs'
  BY <1>14, RecordRaceEffect DEF SubmitUnanswered, TelemetryBelongs, TypeOK
<1>15. ASSUME NEW m \in Threads \X Sessions, SubmitLost(m) PROVE TelemetryBelongs'
  BY <1>15 DEF SubmitLost, TelemetryBelongs, backend
<1>16. ASSUME NEW t \in Threads, SubmitFailed(t) PROVE TelemetryBelongs'
  BY <1>16 DEF SubmitFailed, TelemetryBelongs, backend
<1>17. ASSUME NEW t \in Threads, SubmitUnauthorized(t) PROVE TelemetryBelongs'
  BY <1>17 DEF SubmitUnauthorized, TelemetryBelongs, backend
<1>18. ASSUME NEW t \in Threads, BindRaceId(t) PROVE TelemetryBelongs'
  BY <1>18 DEF BindRaceId, TelemetryBelongs, backend
<1>19. ASSUME NEW t \in Threads, UncacheRace(t) PROVE TelemetryBelongs'
  BY <1>19 DEF UncacheRace, TelemetryBelongs, backend
<1>20. ASSUME NEW t \in Threads, SettleUpload(t) PROVE TelemetryBelongs'
  BY <1>20 DEF SettleUpload, TelemetryBelongs, backend
<1>21. ASSUME NEW t \in Threads, ReadSnapshot(t) PROVE TelemetryBelongs'
  BY <1>21 DEF ReadSnapshot, TelemetryBelongs, backend
<1>22. ASSUME NEW t \in Threads, LookupRace(t) PROVE TelemetryBelongs'
  BY <1>22 DEF LookupRace, TelemetryBelongs, backend
<1>23. ASSUME NEW t \in Threads, LookupFailed(t) PROVE TelemetryBelongs'
  BY <1>23 DEF LookupFailed, TelemetryBelongs, backend
<1>24. ASSUME NEW t \in Threads, AttemptFlush(t) PROVE TelemetryBelongs'
  BY <1>24 DEF AttemptFlush, TelemetryBelongs, backend
<1>25. ASSUME NEW t \in Threads, NEW p \in Parts, PostPart(t, p) PROVE TelemetryBelongs'
  BY <1>25 DEF PostPart, StorePart, InHand, IdsTrue, TelemetryBelongs
<1>26. ASSUME NEW t \in Threads, NEW p \in Parts, PostFailed(t, p) PROVE TelemetryBelongs'
  BY <1>26 DEF PostFailed, StorePart, InHand, IdsTrue, TelemetryBelongs
<1>27. ASSUME NEW t \in Threads, PostUnauthorized(t) PROVE TelemetryBelongs'
  BY <1>27 DEF PostUnauthorized, TelemetryBelongs, backend
<1>28. ASSUME NEW t \in Threads, ForgetTelemetry(t) PROVE TelemetryBelongs'
  BY <1>28 DEF ForgetTelemetry, TelemetryBelongs, backend
<1>29. CASE UNCHANGED vars
  BY <1>29 DEF TelemetryBelongs, vars, backend
<1> QED
  BY <1>1, <1>2, <1>3, <1>4, <1>5, <1>6, <1>7, <1>8, <1>9, <1>10, <1>11, <1>12, <1>13, <1>14, <1>15,
     <1>16, <1>17, <1>18, <1>19, <1>20, <1>21, <1>22, <1>23, <1>24, <1>25, <1>26, <1>27, <1>28, <1>29
  DEF Next, Upload, Flush, Retry

\* Leaving flush_pending drops the record of what was acknowledged.
LEMMA LeaveFlushSentStored ==
  ASSUME TypeOK, SentStored, NEW t \in Threads, LeaveFlush(t), stored \subseteq stored'
  PROVE  SentStored'
<1>1. PICK label \in {"idle", "teles"}, j \in Job :
           /\ pc' = [pc EXCEPT ![t] = label]
           /\ job' = [job EXCEPT ![t] = j]
           /\ label = "teles" => j.role = job[t].role /\ j.role # "upload"
           /\ j.own = FALSE /\ j.uid = NoSession /\ j.rid = NoRace
           /\ j.teles \subseteq job[t].teles
  BY LeaveFlushEffect
<1> QED
  BY <1>1 DEF SentStored, TypeOK

\* A part is acknowledged after it is stored, and stored rows stay.
LEMMA SentStoredStep == TypeOK /\ SentStored /\ [Next]_vars => SentStored'
<1> SUFFICES ASSUME TypeOK, SentStored, [Next]_vars PROVE SentStored'
  OBVIOUS
<1> USE ConstantsAssumption
<1>1. ASSUME NEW s \in Sessions, NEW parts \in SUBSET Parts, NEW listed \in BOOLEAN, FinishSession(s, parts, listed) PROVE SentStored'
  <2>1. CASE listed
    <3>1. PICK t \in Threads :
            /\ pc' = [pc EXCEPT ![t] = "save"]
            /\ job' = [job EXCEPT ![t] = [Idle EXCEPT !.role = "upload", !.own = TRUE, !.uid = s]]
            /\ uploading' = uploading \cup {s}
            /\ pc[t] = "idle"
      BY <1>1, <2>1 DEF FinishSession, Goto
    <3> QED
      BY <1>1, <3>1, IdleFields DEF FinishSession, SentStored, backend
  <2>2. CASE ~listed
    BY <1>1, <2>2 DEF FinishSession, threads, SentStored, backend
  <2> QED
    BY <2>1, <2>2
<1>2. ASSUME NEW t \in Threads, StartRuntime(t) PROVE SentStored'
  BY <1>2 DEF StartRuntime, Goto, SentStored, backend
<1>3. ASSUME StopRuntime PROVE SentStored'
  BY <1>3 DEF StopRuntime, SentStored, backend, threads
<1>4. ASSUME Crash PROVE SentStored'
  BY <1>4 DEF Crash, SentStored
<1>5. ASSUME NEW t \in Threads, RetryNow(t) PROVE SentStored'
  BY <1>5 DEF RetryNow, Goto, SentStored, backend
<1>6. ASSUME NEW t \in Threads, BootRetry(t) PROVE SentStored'
  BY <1>6 DEF BootRetry, Goto, SentStored, backend
<1>7. ASSUME NEW t \in Threads, NEW s \in Sessions, NextRace(t, s) PROVE SentStored'
  BY <1>7 DEF NextRace, Goto, SentStored, TypeOK, backend
<1>8. ASSUME NEW t \in Threads, LoadTelemetry(t) PROVE SentStored'
  BY <1>8 DEF LoadTelemetry, Goto, SentStored, backend
<1>9. ASSUME NEW t \in Threads, NEW e \in Entries, NextTelemetry(t, e) PROVE SentStored'
  BY <1>9 DEF NextTelemetry, Goto, SentStored, TypeOK, backend
<1>10. ASSUME NEW t \in Threads, EndRetry(t) PROVE SentStored'
  BY <1>10 DEF EndRetry, Goto, Idle, SentStored, TypeOK, Job, Entries, RidOrNone, backend, threads
<1>11. ASSUME NEW t \in Threads, SaveRace(t) PROVE SentStored'
  BY <1>11 DEF SaveRace, Goto, SentStored, backend
<1>12. ASSUME NEW t \in Threads, SubmitRace(t) PROVE SentStored'
  BY <1>12 DEF SubmitRace, Goto, SentStored, backend
<1>13. ASSUME NEW t \in Threads, SubmitAnswered(t) PROVE SentStored'
  BY <1>13 DEF SubmitAnswered, Goto, SentStored
<1>14. ASSUME NEW m \in Threads \X Sessions, SubmitUnanswered(m) PROVE SentStored'
  BY <1>14 DEF SubmitUnanswered, SentStored, threads
<1>15. ASSUME NEW m \in Threads \X Sessions, SubmitLost(m) PROVE SentStored'
  BY <1>15 DEF SubmitLost, SentStored, backend, threads
<1>16. ASSUME NEW t \in Threads, SubmitFailed(t) PROVE SentStored'
  BY <1>16 DEF SubmitFailed, Goto, AfterUpload, SentStored, backend
<1>17. ASSUME NEW t \in Threads, SubmitUnauthorized(t) PROVE SentStored'
  BY <1>17 DEF SubmitUnauthorized, Goto, AfterUpload, SentStored, backend
<1>18. ASSUME NEW t \in Threads, BindRaceId(t) PROVE SentStored'
  BY <1>18 DEF BindRaceId, Goto, SentStored, backend
<1>19. ASSUME NEW t \in Threads, UncacheRace(t) PROVE SentStored'
  BY <1>19 DEF UncacheRace, Goto, AfterUpload, SentStored, backend
<1>20. ASSUME NEW t \in Threads, SettleUpload(t) PROVE SentStored'
  BY <1>20 DEF SettleUpload, Goto, SentStored, backend
<1>21. ASSUME NEW t \in Threads, ReadSnapshot(t) PROVE SentStored'
  <2>1. CASE HasTelemetry(job[t].uid)
    BY <1>21, <2>1 DEF ReadSnapshot, Goto, TypeOK, SentStored, backend
  <2>2. CASE ~(HasTelemetry(job[t].uid))
    BY <1>21, <2>2, LeaveFlushSentStored DEF ReadSnapshot, backend
  <2> QED
    BY <2>1, <2>2
<1>22. ASSUME NEW t \in Threads, LookupRace(t) PROVE SentStored'
  BY <1>22 DEF LookupRace, Goto, SentStored, backend
<1>23. ASSUME NEW t \in Threads, LookupFailed(t) PROVE SentStored'
  BY <1>23, LeaveFlushSentStored DEF LookupFailed, FailFlush, backend
<1>24. ASSUME NEW t \in Threads, AttemptFlush(t) PROVE SentStored'
  <2>1. CASE HasTelemetry(job[t].uid)
    BY <1>24, <2>1 DEF AttemptFlush, Goto, TypeOK, Job, SentStored, backend
  <2>2. CASE ~(HasTelemetry(job[t].uid))
    BY <1>24, <2>2, LeaveFlushSentStored DEF AttemptFlush, backend
  <2> QED
    BY <2>1, <2>2
<1>25. ASSUME NEW t \in Threads, NEW p \in Parts, PostPart(t, p) PROVE SentStored'
  BY <1>25 DEF PostPart, Goto, StorePart, SentStored, TypeOK
<1>26. ASSUME NEW t \in Threads, NEW p \in Parts, PostFailed(t, p) PROVE SentStored'
  <2>1. CASE HasTelemetry(job[t].uid) /\ job[t].n < MaxAttempts
    BY <1>26, <2>1 DEF PostFailed, StorePart, Goto, SentStored, TypeOK
  <2>2. CASE ~(HasTelemetry(job[t].uid) /\ job[t].n < MaxAttempts)
    BY <1>26, <2>2, LeaveFlushSentStored DEF PostFailed, FailFlush, StorePart
  <2> QED
    BY <2>1, <2>2
<1>27. ASSUME NEW t \in Threads, PostUnauthorized(t) PROVE SentStored'
  BY <1>27, LeaveFlushSentStored DEF PostUnauthorized, FailFlush, backend
<1>28. ASSUME NEW t \in Threads, ForgetTelemetry(t) PROVE SentStored'
  BY <1>28, LeaveFlushSentStored DEF ForgetTelemetry, backend
<1>29. CASE UNCHANGED vars
  BY <1>29 DEF SentStored, vars, backend, threads
<1> QED
  BY <1>1, <1>2, <1>3, <1>4, <1>5, <1>6, <1>7, <1>8, <1>9, <1>10, <1>11, <1>12, <1>13, <1>14, <1>15,
     <1>16, <1>17, <1>18, <1>19, <1>20, <1>21, <1>22, <1>23, <1>24, <1>25, <1>26, <1>27, <1>28, <1>29
  DEF Next, Upload, Flush, Retry

\* Leaving flush_pending leaves no submit under way.
LEMMA LeaveFlushSubmittedDurable ==
  ASSUME TypeOK, SubmittedDurable, NEW t \in Threads, LeaveFlush(t), UNCHANGED <<cachedRaces, races, wire>>
  PROVE  SubmittedDurable'
<1>1. PICK label \in {"idle", "teles"}, j \in Job :
           /\ pc' = [pc EXCEPT ![t] = label]
           /\ job' = [job EXCEPT ![t] = j]
           /\ label = "teles" => j.role = job[t].role /\ j.role # "upload"
           /\ j.own = FALSE /\ j.uid = NoSession /\ j.rid = NoRace
           /\ j.teles \subseteq job[t].teles
  BY LeaveFlushEffect
<1> QED
  BY <1>1 DEF SubmittedDurable, Durable, TypeOK

\* A result is saved before it is submitted, and leaves the cache only once its
\* race is recorded, so what is submitted stays durable.
LEMMA SubmittedDurableStep == TypeOK /\ InHand /\ IdsTrue /\ SubmittedDurable /\ [Next]_vars => SubmittedDurable'
<1> SUFFICES ASSUME TypeOK, InHand, IdsTrue, SubmittedDurable, [Next]_vars PROVE SubmittedDurable'
  OBVIOUS
<1> USE ConstantsAssumption
<1>1. ASSUME NEW s \in Sessions, NEW parts \in SUBSET Parts, NEW listed \in BOOLEAN, FinishSession(s, parts, listed) PROVE SubmittedDurable'
  <2>1. CASE listed
    <3>1. PICK t \in Threads :
            /\ pc' = [pc EXCEPT ![t] = "save"]
            /\ job' = [job EXCEPT ![t] = [Idle EXCEPT !.role = "upload", !.own = TRUE, !.uid = s]]
            /\ uploading' = uploading \cup {s}
            /\ pc[t] = "idle"
      BY <1>1, <2>1 DEF FinishSession, Goto
    <3> QED
      BY <1>1, <3>1, IdleFields DEF FinishSession, SubmittedDurable, Durable, backend
  <2>2. CASE ~listed
    BY <1>1, <2>2 DEF FinishSession, threads, SubmittedDurable, Durable, backend
  <2> QED
    BY <2>1, <2>2
<1>2. ASSUME NEW t \in Threads, StartRuntime(t) PROVE SubmittedDurable'
  BY <1>2 DEF StartRuntime, Goto, SubmittedDurable, Durable, disk, backend
<1>3. ASSUME StopRuntime PROVE SubmittedDurable'
  BY <1>3 DEF StopRuntime, SubmittedDurable, Durable, disk, backend, threads
<1>4. ASSUME Crash PROVE SubmittedDurable'
  BY <1>4 DEF Crash, SubmittedDurable, Durable, disk, backend
<1>5. ASSUME NEW t \in Threads, RetryNow(t) PROVE SubmittedDurable'
  BY <1>5 DEF RetryNow, Goto, SubmittedDurable, Durable, disk, backend
<1>6. ASSUME NEW t \in Threads, BootRetry(t) PROVE SubmittedDurable'
  BY <1>6 DEF BootRetry, Goto, SubmittedDurable, Durable, disk, backend
<1>7. ASSUME NEW t \in Threads, NEW s \in Sessions, NextRace(t, s) PROVE SubmittedDurable'
  BY <1>7 DEF NextRace, Goto, SubmittedDurable, Durable, TypeOK, disk, backend
<1>8. ASSUME NEW t \in Threads, LoadTelemetry(t) PROVE SubmittedDurable'
  BY <1>8 DEF LoadTelemetry, Goto, SubmittedDurable, Durable, disk, backend
<1>9. ASSUME NEW t \in Threads, NEW e \in Entries, NextTelemetry(t, e) PROVE SubmittedDurable'
  BY <1>9 DEF NextTelemetry, Goto, SubmittedDurable, Durable, TypeOK, disk, backend
<1>10. ASSUME NEW t \in Threads, EndRetry(t) PROVE SubmittedDurable'
  BY <1>10 DEF EndRetry, Goto, SubmittedDurable, Durable, InHand, TypeOK, Job, disk, backend
<1>11. ASSUME NEW t \in Threads, SaveRace(t) PROVE SubmittedDurable'
  BY <1>11 DEF SaveRace, Goto, SubmittedDurable, Durable, backend
<1>12. ASSUME NEW t \in Threads, SubmitRace(t) PROVE SubmittedDurable'
  BY <1>12 DEF SubmitRace, Goto, SubmittedDurable, Durable, disk, backend
<1>13. ASSUME NEW t \in Threads, SubmitAnswered(t) PROVE SubmittedDurable'
  BY <1>13, RecordRaceEffect DEF SubmitAnswered, Goto, SubmittedDurable, Durable, TypeOK, disk
<1>14. ASSUME NEW m \in Threads \X Sessions, SubmitUnanswered(m) PROVE SubmittedDurable'
  BY <1>14, RecordRaceEffect DEF SubmitUnanswered, SubmittedDurable, Durable, disk, threads
<1>15. ASSUME NEW m \in Threads \X Sessions, SubmitLost(m) PROVE SubmittedDurable'
  BY <1>15 DEF SubmitLost, SubmittedDurable, Durable, disk, backend, threads
<1>16. ASSUME NEW t \in Threads, SubmitFailed(t) PROVE SubmittedDurable'
  BY <1>16 DEF SubmitFailed, Goto, SubmittedDurable, Durable, disk, backend
<1>17. ASSUME NEW t \in Threads, SubmitUnauthorized(t) PROVE SubmittedDurable'
  BY <1>17 DEF SubmitUnauthorized, Goto, SubmittedDurable, Durable, disk, backend
<1>18. ASSUME NEW t \in Threads, BindRaceId(t) PROVE SubmittedDurable'
  BY <1>18 DEF BindRaceId, Goto, SubmittedDurable, Durable, backend
<1>19. ASSUME NEW t \in Threads, UncacheRace(t) PROVE SubmittedDurable'
  BY <1>19 DEF UncacheRace, Goto, SubmittedDurable, Durable, InHand, backend, IdsTrue
<1>20. ASSUME NEW t \in Threads, SettleUpload(t) PROVE SubmittedDurable'
  BY <1>20 DEF SettleUpload, Goto, SubmittedDurable, Durable, disk, backend
<1>21. ASSUME NEW t \in Threads, ReadSnapshot(t) PROVE SubmittedDurable'
  <2>1. CASE HasTelemetry(job[t].uid)
    BY <1>21, <2>1 DEF ReadSnapshot, Goto, TypeOK, SubmittedDurable, Durable, backend
  <2>2. CASE ~(HasTelemetry(job[t].uid))
    BY <1>21, <2>2, LeaveFlushSubmittedDurable DEF ReadSnapshot, backend
  <2> QED
    BY <2>1, <2>2
<1>22. ASSUME NEW t \in Threads, LookupRace(t) PROVE SubmittedDurable'
  BY <1>22 DEF LookupRace, Goto, SubmittedDurable, Durable, backend
<1>23. ASSUME NEW t \in Threads, LookupFailed(t) PROVE SubmittedDurable'
  BY <1>23, LeaveFlushSubmittedDurable DEF LookupFailed, FailFlush, disk, backend
<1>24. ASSUME NEW t \in Threads, AttemptFlush(t) PROVE SubmittedDurable'
  <2>1. CASE HasTelemetry(job[t].uid)
    BY <1>24, <2>1 DEF AttemptFlush, Goto, TypeOK, SubmittedDurable, Durable, disk, backend
  <2>2. CASE ~(HasTelemetry(job[t].uid))
    BY <1>24, <2>2, LeaveFlushSubmittedDurable DEF AttemptFlush, disk, backend
  <2> QED
    BY <2>1, <2>2
<1>25. ASSUME NEW t \in Threads, NEW p \in Parts, PostPart(t, p) PROVE SubmittedDurable'
  BY <1>25 DEF PostPart, Goto, SubmittedDurable, Durable, disk
<1>26. ASSUME NEW t \in Threads, NEW p \in Parts, PostFailed(t, p) PROVE SubmittedDurable'
  <2>1. CASE HasTelemetry(job[t].uid) /\ job[t].n < MaxAttempts
    BY <1>26, <2>1 DEF PostFailed, Goto, SubmittedDurable, Durable, TypeOK, disk
  <2>2. CASE ~(HasTelemetry(job[t].uid) /\ job[t].n < MaxAttempts)
    BY <1>26, <2>2, LeaveFlushSubmittedDurable DEF PostFailed, FailFlush, disk
  <2> QED
    BY <2>1, <2>2
<1>27. ASSUME NEW t \in Threads, PostUnauthorized(t) PROVE SubmittedDurable'
  BY <1>27, LeaveFlushSubmittedDurable DEF PostUnauthorized, FailFlush, disk, backend
<1>28. ASSUME NEW t \in Threads, ForgetTelemetry(t) PROVE SubmittedDurable'
  BY <1>28, LeaveFlushSubmittedDurable DEF ForgetTelemetry, backend
<1>29. CASE UNCHANGED vars
  BY <1>29 DEF SubmittedDurable, Durable, vars, disk, backend, threads
<1> QED
  BY <1>1, <1>2, <1>3, <1>4, <1>5, <1>6, <1>7, <1>8, <1>9, <1>10, <1>11, <1>12, <1>13, <1>14, <1>15,
     <1>16, <1>17, <1>18, <1>19, <1>20, <1>21, <1>22, <1>23, <1>24, <1>25, <1>26, <1>27, <1>28, <1>29
  DEF Next, Upload, Flush, Retry

\* Steps outside upload_race that leave the guard's sets alone keep it exact.
LEMMA GuardFrame ==
  ASSUME GuardExact, UNCHANGED <<races, uploading, uploaded>>,
         Uploaders' = Uploaders, \A u \in Uploaders : job'[u].uid = job[u].uid
  PROVE  GuardExact'
  BY DEF GuardExact

\* Threads in flush_pending have already left the guard.
LEMMA LeaveFlushGuardExact ==
  ASSUME TypeOK, GuardExact, NEW t \in Threads, LeaveFlush(t),
         pc[t] \in {"flush", "lookup", "tattempt", "post", "forget"},
         UNCHANGED <<races, uploading, uploaded>>
  PROVE  GuardExact'
<1>1. PICK label \in {"idle", "teles"}, j \in Job :
           /\ pc' = [pc EXCEPT ![t] = label]
           /\ job' = [job EXCEPT ![t] = j]
           /\ label = "teles" => j.role = job[t].role /\ j.role # "upload"
           /\ j.own = FALSE /\ j.uid = NoSession /\ j.rid = NoRace
           /\ j.teles \subseteq job[t].teles
  BY LeaveFlushEffect
<1> QED
  BY <1>1 DEF GuardExact, Uploaders

\* The guard's sets change together with the threads they stand for.
LEMMA GuardExactStep == TypeOK /\ InHand /\ IdsTrue /\ GuardExact /\ [Next]_vars => GuardExact'
<1> SUFFICES ASSUME TypeOK, InHand, IdsTrue, GuardExact, [Next]_vars PROVE GuardExact'
  OBVIOUS
<1> USE ConstantsAssumption
<1>1. ASSUME NEW s \in Sessions, NEW parts \in SUBSET Parts, NEW listed \in BOOLEAN, FinishSession(s, parts, listed) PROVE GuardExact'
  <2>1. CASE listed
    <3>1. PICK t \in Threads :
            /\ pc' = [pc EXCEPT ![t] = "save"]
            /\ job' = [job EXCEPT ![t] = [Idle EXCEPT !.role = "upload", !.own = TRUE, !.uid = s]]
            /\ uploading' = uploading \cup {s}
            /\ pc[t] = "idle"
      BY <1>1, <2>1 DEF FinishSession, Goto
    <3> QED
      BY <1>1, <3>1, IdleFields DEF FinishSession, TypeOK, GuardExact, Uploaders, backend
  <2>2. CASE ~listed
    BY <1>1, <2>2 DEF FinishSession, threads, GuardExact, Uploaders, backend
  <2> QED
    BY <2>1, <2>2
<1>2. ASSUME NEW t \in Threads, StartRuntime(t) PROVE GuardExact'
  BY <1>2 DEF StartRuntime, Goto, GuardExact, Uploaders, backend
<1>3. ASSUME StopRuntime PROVE GuardExact'
  BY <1>3 DEF StopRuntime, GuardExact, Uploaders, backend, threads
<1>4. ASSUME Crash PROVE GuardExact'
  BY <1>4 DEF Crash, GuardExact, Uploaders
<1>5. ASSUME NEW t \in Threads, RetryNow(t) PROVE GuardExact'
  BY <1>5 DEF RetryNow, Goto, GuardExact, Uploaders, backend, agent
<1>6. ASSUME NEW t \in Threads, BootRetry(t) PROVE GuardExact'
  BY <1>6 DEF BootRetry, Goto, GuardExact, Uploaders, backend
<1>7. ASSUME NEW t \in Threads, NEW s \in Sessions, NextRace(t, s) PROVE GuardExact'
  BY <1>7 DEF NextRace, Goto, GuardExact, Uploaders, InHand, Delivering, TypeOK, Job, Entries, backend, threads, agent
<1>8. ASSUME NEW t \in Threads, LoadTelemetry(t) PROVE GuardExact'
  BY <1>8 DEF LoadTelemetry, Goto, GuardExact, Uploaders, backend, agent
<1>9. ASSUME NEW t \in Threads, NEW e \in Entries, NextTelemetry(t, e) PROVE GuardExact'
  <2>1. \A u \in Threads \ {t} : job'[u] = job[u] /\ pc'[u] = pc[u]
    BY <1>9 DEF NextTelemetry, Goto, TypeOK
  <2>2. t \notin Uploaders /\ t \notin Uploaders'
    BY <1>9 DEF NextTelemetry, Goto, Uploaders
  <2>3. Uploaders' = Uploaders /\ \A u \in Uploaders : job'[u].uid = job[u].uid
    BY <2>1, <2>2 DEF Uploaders
  <2> QED
    BY <1>9, <2>3, GuardFrame DEF NextTelemetry, backend, agent
<1>10. ASSUME NEW t \in Threads, EndRetry(t) PROVE GuardExact'
  BY <1>10 DEF EndRetry, Goto, GuardExact, Uploaders, TypeOK, Job, backend
<1>11. ASSUME NEW t \in Threads, SaveRace(t) PROVE GuardExact'
  BY <1>11 DEF SaveRace, Goto, GuardExact, Uploaders, backend, agent
<1>12. ASSUME NEW t \in Threads, SubmitRace(t) PROVE GuardExact'
  BY <1>12 DEF SubmitRace, Goto, GuardExact, Uploaders, backend, agent
<1>13. ASSUME NEW t \in Threads, SubmitAnswered(t) PROVE GuardExact'
  BY <1>13, RecordRaceEffect DEF SubmitAnswered, Goto, GuardExact, Uploaders, TypeOK, agent
<1>14. ASSUME NEW m \in Threads \X Sessions, SubmitUnanswered(m) PROVE GuardExact'
  BY <1>14, RecordRaceEffect DEF SubmitUnanswered, GuardExact, Uploaders, TypeOK, threads, agent
<1>15. ASSUME NEW m \in Threads \X Sessions, SubmitLost(m) PROVE GuardExact'
  BY <1>15 DEF SubmitLost, GuardExact, Uploaders, backend, threads, agent
<1>16. ASSUME NEW t \in Threads, SubmitFailed(t) PROVE GuardExact'
  BY <1>16 DEF SubmitFailed, Goto, AfterUpload, GuardExact, Uploaders, backend, agent
<1>17. ASSUME NEW t \in Threads, SubmitUnauthorized(t) PROVE GuardExact'
  BY <1>17 DEF SubmitUnauthorized, Goto, AfterUpload, GuardExact, Uploaders, backend, agent
<1>18. ASSUME NEW t \in Threads, BindRaceId(t) PROVE GuardExact'
  BY <1>18 DEF BindRaceId, Goto, GuardExact, Uploaders, backend, agent
<1>19. ASSUME NEW t \in Threads, UncacheRace(t) PROVE GuardExact'
  BY <1>19 DEF UncacheRace, Goto, AfterUpload, GuardExact, Uploaders, backend, agent
<1>20. ASSUME NEW t \in Threads, SettleUpload(t) PROVE GuardExact'
  BY <1>20 DEF SettleUpload, Goto, GuardExact, Uploaders, InHand, TypeOK, backend, IdsTrue
<1>21. ASSUME NEW t \in Threads, ReadSnapshot(t) PROVE GuardExact'
  <2>1. CASE HasTelemetry(job[t].uid)
    <3>1. \A u \in Threads \ {t} : job'[u] = job[u] /\ pc'[u] = pc[u]
      BY <1>21, <2>1 DEF ReadSnapshot, Goto, TypeOK
    <3>2. t \notin Uploaders /\ t \notin Uploaders'
      BY <1>21, <2>1 DEF ReadSnapshot, Goto, Uploaders, TypeOK
    <3>3. Uploaders' = Uploaders /\ \A u \in Uploaders : job'[u].uid = job[u].uid
      BY <3>1, <3>2 DEF Uploaders
    <3> QED
      BY <1>21, <3>3, GuardFrame DEF ReadSnapshot, backend, agent
  <2>2. CASE ~HasTelemetry(job[t].uid)
    BY <1>21, <2>2, LeaveFlushGuardExact DEF ReadSnapshot, backend, agent
  <2> QED
    BY <2>1, <2>2
<1>22. ASSUME NEW t \in Threads, LookupRace(t) PROVE GuardExact'
  BY <1>22 DEF LookupRace, Goto, GuardExact, Uploaders, backend, agent
<1>23. ASSUME NEW t \in Threads, LookupFailed(t) PROVE GuardExact'
  BY <1>23, LeaveFlushGuardExact DEF LookupFailed, FailFlush, backend, agent
<1>24. ASSUME NEW t \in Threads, AttemptFlush(t) PROVE GuardExact'
  <2>1. CASE HasTelemetry(job[t].uid)
    <3>1. \A u \in Threads \ {t} : job'[u] = job[u] /\ pc'[u] = pc[u]
      BY <1>24, <2>1 DEF AttemptFlush, Goto, TypeOK
    <3>2. t \notin Uploaders /\ t \notin Uploaders'
      BY <1>24, <2>1 DEF AttemptFlush, Goto, Uploaders, TypeOK
    <3>3. Uploaders' = Uploaders /\ \A u \in Uploaders : job'[u].uid = job[u].uid
      BY <3>1, <3>2 DEF Uploaders
    <3> QED
      BY <1>24, <3>3, GuardFrame DEF AttemptFlush, backend, agent
  <2>2. CASE ~HasTelemetry(job[t].uid)
    BY <1>24, <2>2, LeaveFlushGuardExact DEF AttemptFlush, backend, agent
  <2> QED
    BY <2>1, <2>2
<1>25. ASSUME NEW t \in Threads, NEW p \in Parts, PostPart(t, p) PROVE GuardExact'
  BY <1>25 DEF PostPart, Goto, GuardExact, Uploaders, agent
<1>26. ASSUME NEW t \in Threads, NEW p \in Parts, PostFailed(t, p) PROVE GuardExact'
  <2>1. CASE HasTelemetry(job[t].uid) /\ job[t].n < MaxAttempts
    BY <1>26, <2>1 DEF PostFailed, Goto, GuardExact, Uploaders, TypeOK, agent
  <2>2. CASE ~(HasTelemetry(job[t].uid) /\ job[t].n < MaxAttempts)
    BY <1>26, <2>2, LeaveFlushGuardExact DEF PostFailed, FailFlush, agent
  <2> QED
    BY <2>1, <2>2
<1>27. ASSUME NEW t \in Threads, PostUnauthorized(t) PROVE GuardExact'
  BY <1>27, LeaveFlushGuardExact DEF PostUnauthorized, FailFlush, backend, agent
<1>28. ASSUME NEW t \in Threads, ForgetTelemetry(t) PROVE GuardExact'
  BY <1>28, LeaveFlushGuardExact DEF ForgetTelemetry, backend, agent
<1>29. CASE UNCHANGED vars
  BY <1>29 DEF GuardExact, Uploaders, vars, backend, threads, agent
<1> QED
  BY <1>1, <1>2, <1>3, <1>4, <1>5, <1>6, <1>7, <1>8, <1>9, <1>10, <1>11, <1>12, <1>13, <1>14, <1>15,
     <1>16, <1>17, <1>18, <1>19, <1>20, <1>21, <1>22, <1>23, <1>24, <1>25, <1>26, <1>27, <1>28, <1>29
  DEF Next, Upload, Flush, Retry

-----------------------------------------------------------------------------
(* The theorems. *)

\* The invariant holds at the start ...
LEMMA InvInit == Init => DeliveryInv
<1> SUFFICES ASSUME Init PROVE DeliveryInv
  OBVIOUS
<1> USE ConstantsAssumption DEF Init
<1>1. \A t \in Threads : pc[t] = "idle" /\ job[t] = Idle
  OBVIOUS
<1>2. TypeOK
  <2>1. pc \in [Threads -> Labels] /\ job \in [Threads -> Job]
    BY IdleJob DEF Labels
  <2>2. teleRid \in [Sessions -> RidOrNone] /\ races \in [Sessions -> RidOrNone]
    BY DEF RidOrNone
  <2>3. crashes \in 0..MaxCrashes
    OBVIOUS
  <2> QED
    BY <2>1, <2>2, <2>3 DEF TypeOK
<1>3. InHand
  BY <1>1 DEF InHand, Delivering
<1>4. IdsTrue
  BY <1>1, IdleFields DEF IdsTrue
<1>5. TelemetryBelongs /\ SentStored /\ SubmittedDurable
  BY <1>1 DEF TelemetryBelongs, SentStored, SubmittedDurable
<1>6. Uploaders = {}
  BY <1>1 DEF Uploaders
<1>7. GuardExact
  BY <1>6 DEF GuardExact
<1> QED
  BY <1>2, <1>3, <1>4, <1>5, <1>7 DEF DeliveryInv

\* ... and every step keeps it, part by part.
LEMMA InvStep == DeliveryInv /\ [Next]_vars => DeliveryInv'
  BY TypeStep, InHandStep, IdsTrueStep, TelemetryBelongsStep, SentStoredStep,
     SubmittedDurableStep, GuardExactStep
  DEF DeliveryInv

\* The whole invariant: types, and what every copy a thread carries still says
\* about the shared state it was read from.
THEOREM DeliveryInvariant == Spec => []DeliveryInv
  BY InvInit, InvStep, PTL DEF Spec

\* Every value has its type; in particular no loop makes more than MaxAttempts attempts.
THEOREM TypeCorrect == Spec => []TypeOK
<1>1. DeliveryInv => TypeOK
  BY DEF DeliveryInv
<1> QED
  BY <1>1, DeliveryInvariant, PTL

\* However many sessions, threads and crashes: stored telemetry is filed under the
\* race of the session it was recorded in.
THEOREM TelemetryIsFiledRight == Spec => []TelemetryBelongs
<1>1. DeliveryInv => TelemetryBelongs
  BY DEF DeliveryInv
<1> QED
  BY <1>1, DeliveryInvariant, PTL

\* Cached telemetry is forgotten by a thread only after all it read is stored.
THEOREM PostedThenForgotten == Spec => []PostedBeforeForgotten
<1>1. DeliveryInv => PostedBeforeForgotten
  <2> SUFFICES ASSUME DeliveryInv, NEW t \in Threads, pc[t] = "forget", NEW p \in job[t].copy
               PROVE  <<races[job[t].uid], job[t].uid, p>> \in stored
    BY DEF PostedBeforeForgotten
  <2>1. <<job[t].rid, job[t].uid, p>> \in stored
    BY DEF DeliveryInv, SentStored
  <2>2. job[t].rid = races[job[t].uid]
    BY DEF DeliveryInv, InHand, IdsTrue
  <2> QED
    BY <2>1, <2>2
<1> QED
  BY <1>1, DeliveryInvariant, PTL

\* The guard against repeated FinalClassifications names exactly the running uploads.
THEOREM GuardIsExact == Spec => []UploadGuard
<1>1. DeliveryInv => UploadGuard
  BY DEF DeliveryInv, GuardExact, UploadGuard
<1> QED
  BY <1>1, DeliveryInvariant, PTL

-----------------------------------------------------------------------------
(* Captured telemetry, when a session finishes once (~MayRefinish).  The   *)
(* run delivery_twice shows that with a second FinalClassification neither *)
(* TelemetryKept nor FailedFlushStaysCached follows: the entry a thread    *)
(* forgets need not be the one it has posted.                              *)

Flushing == {"lookup", "tattempt", "post", "forget"}

\* What makes them hold: the entry of a session is the one snapshot captured of
\* it or gone, and a thread that flushes has read that very snapshot.
CapturedOnce ==
    /\ \A s \in Sessions : teleParts[s] \in {{}, captured[s]}
    /\ \A t \in Threads : pc[t] \in Flushing => job[t].copy = captured[job[t].uid] /\ job[t].copy # {}

KeptInv == DeliveryInv /\ CapturedOnce /\ TelemetryKept

\* Leaving flush_pending, also with the entry removed, leaves no second snapshot.
LEMMA LeaveFlushCapturedOnce ==
  ASSUME TypeOK, CapturedOnce, NEW t \in Threads, LeaveFlush(t), captured' = captured,
         \A s \in Sessions : teleParts'[s] \in {{}, teleParts[s]}
  PROVE  CapturedOnce'
<1>1. PICK label \in {"idle", "teles"}, j \in Job :
           /\ pc' = [pc EXCEPT ![t] = label]
           /\ job' = [job EXCEPT ![t] = j]
           /\ label = "teles" => j.role = job[t].role /\ j.role # "upload"
           /\ j.own = FALSE /\ j.uid = NoSession /\ j.rid = NoRace
           /\ j.teles \subseteq job[t].teles
  BY LeaveFlushEffect
<1>2. \A s \in Sessions : teleParts'[s] \in {{}, captured'[s]}
  BY DEF CapturedOnce
<1>3. \A u \in Threads : pc'[u] \in Flushing => job'[u].copy = captured'[job'[u].uid] /\ job'[u].copy # {}
  BY <1>1 DEF CapturedOnce, TypeOK, Flushing
<1> QED
  BY <1>2, <1>3 DEF CapturedOnce

\* A session is captured once, so no step makes the cache and a reader disagree.
LEMMA CapturedOnceStep ==
  ASSUME ~MayRefinish, TypeOK, InHand, CapturedOnce, [Next]_vars
  PROVE  CapturedOnce'
<1> USE DEF CapturedOnce, Flushing, TypeOK
<1>1. ASSUME NEW s \in Sessions, NEW parts \in SUBSET Parts, NEW listed \in BOOLEAN, FinishSession(s, parts, listed) PROVE CapturedOnce'
  <2>1. captured[s] = {} /\ teleParts[s] = {} /\ captured' = [captured EXCEPT ![s] = parts]
    BY <1>1 DEF FinishSession
  <2>2. \A t \in Threads : pc[t] \in Flushing => job[t].uid \in Sessions /\ job[t].uid # s
    BY <2>1 DEF InHand, Delivering
  <2>3. \A u \in Sessions : teleParts'[u] \in {{}, captured'[u]}
    BY <1>1, <2>1 DEF FinishSession, RemoveTelemetry
  <2>4. \A t \in Threads : pc'[t] \in Flushing => pc[t] \in Flushing /\ job'[t] = job[t]
    <3>1. CASE listed
      BY <1>1, <3>1 DEF FinishSession, Goto
    <3>2. CASE ~listed
      BY <1>1, <3>2 DEF FinishSession, threads
    <3> QED
      BY <3>1, <3>2
  <2>5. \A u \in Sessions : u # s => captured'[u] = captured[u]
    BY <2>1
  <2>6. \A t \in Threads : pc'[t] \in Flushing => job'[t].copy = captured'[job'[t].uid] /\ job'[t].copy # {}
    BY <2>2, <2>4, <2>5
  <2> QED
    BY <2>3, <2>6
<1>2. ASSUME NEW t \in Threads, StartRuntime(t) PROVE CapturedOnce'
  BY <1>2 DEF StartRuntime, Goto, disk, history
<1>3. ASSUME StopRuntime PROVE CapturedOnce'
  BY <1>3 DEF StopRuntime, disk, history, threads
<1>4. ASSUME Crash PROVE CapturedOnce'
  BY <1>4 DEF Crash, disk, history
<1>5. ASSUME NEW t \in Threads, RetryNow(t) PROVE CapturedOnce'
  BY <1>5 DEF RetryNow, Goto, disk, history
<1>6. ASSUME NEW t \in Threads, BootRetry(t) PROVE CapturedOnce'
  BY <1>6 DEF BootRetry, Goto, disk, history
<1>7. ASSUME NEW t \in Threads, NEW s \in Sessions, NextRace(t, s) PROVE CapturedOnce'
  BY <1>7 DEF NextRace, Goto, disk, history
<1>8. ASSUME NEW t \in Threads, LoadTelemetry(t) PROVE CapturedOnce'
  BY <1>8 DEF LoadTelemetry, Goto, disk, history
<1>9. ASSUME NEW t \in Threads, NEW e \in Entries, NextTelemetry(t, e) PROVE CapturedOnce'
  BY <1>9 DEF NextTelemetry, Goto, disk, history
<1>10. ASSUME NEW t \in Threads, EndRetry(t) PROVE CapturedOnce'
  <2>1. teleParts' = teleParts /\ captured' = captured
    BY <1>10 DEF EndRetry, disk, history
  <2>2. \A u \in Threads : pc'[u] \in Flushing => /\ pc[u] \in Flushing
                                                  /\ job'[u].copy = job[u].copy /\ job'[u].uid = job[u].uid
    BY <1>10 DEF EndRetry, Goto, Job
  <2> QED
    BY <2>1, <2>2
<1>11. ASSUME NEW t \in Threads, SaveRace(t) PROVE CapturedOnce'
  BY <1>11 DEF SaveRace, Goto, history
<1>12. ASSUME NEW t \in Threads, SubmitRace(t) PROVE CapturedOnce'
  BY <1>12 DEF SubmitRace, Goto, disk, history
<1>13. ASSUME NEW t \in Threads, SubmitAnswered(t) PROVE CapturedOnce'
  BY <1>13 DEF SubmitAnswered, Goto, disk, history
<1>14. ASSUME NEW m \in Threads \X Sessions, SubmitUnanswered(m) PROVE CapturedOnce'
  BY <1>14 DEF SubmitUnanswered, disk, history, threads
<1>15. ASSUME NEW m \in Threads \X Sessions, SubmitLost(m) PROVE CapturedOnce'
  BY <1>15 DEF SubmitLost, disk, history, threads
<1>16. ASSUME NEW t \in Threads, SubmitFailed(t) PROVE CapturedOnce'
  BY <1>16 DEF SubmitFailed, AfterUpload, Goto, disk, history
<1>17. ASSUME NEW t \in Threads, SubmitUnauthorized(t) PROVE CapturedOnce'
  BY <1>17 DEF SubmitUnauthorized, AfterUpload, Goto, disk, history
<1>18. ASSUME NEW t \in Threads, BindRaceId(t) PROVE CapturedOnce'
  BY <1>18 DEF BindRaceId, Goto, history
<1>19. ASSUME NEW t \in Threads, UncacheRace(t) PROVE CapturedOnce'
  BY <1>19 DEF UncacheRace, AfterUpload, Goto, history
<1>20. ASSUME NEW t \in Threads, SettleUpload(t) PROVE CapturedOnce'
  BY <1>20 DEF SettleUpload, Goto, disk, history
<1>21. ASSUME NEW t \in Threads, ReadSnapshot(t) PROVE CapturedOnce'
  <2>1. CASE HasTelemetry(job[t].uid)
    <3>1. job[t].uid \in Sessions
      BY <1>21 DEF ReadSnapshot, InHand, Delivering
    <3>2. teleParts[job[t].uid] = captured[job[t].uid] /\ captured[job[t].uid] # {}
      BY <2>1, <3>1 DEF HasTelemetry
    <3> QED
      BY <1>21, <2>1, <3>2 DEF ReadSnapshot, Goto, Job, history
  <2>2. CASE ~HasTelemetry(job[t].uid)
    BY <1>21, <2>2, LeaveFlushCapturedOnce DEF ReadSnapshot, history
  <2> QED
    BY <2>1, <2>2
<1>22. ASSUME NEW t \in Threads, LookupRace(t) PROVE CapturedOnce'
  BY <1>22 DEF LookupRace, Goto, history
<1>23. ASSUME NEW t \in Threads, LookupFailed(t) PROVE CapturedOnce'
  BY <1>23, LeaveFlushCapturedOnce DEF LookupFailed, FailFlush, disk
<1>24. ASSUME NEW t \in Threads, AttemptFlush(t) PROVE CapturedOnce'
  <2>1. CASE HasTelemetry(job[t].uid)
    BY <1>24, <2>1 DEF AttemptFlush, Goto, Job, disk, history
  <2>2. CASE ~HasTelemetry(job[t].uid)
    BY <1>24, <2>2, LeaveFlushCapturedOnce DEF AttemptFlush, disk, history
  <2> QED
    BY <2>1, <2>2
<1>25. ASSUME NEW t \in Threads, NEW p \in Parts, PostPart(t, p) PROVE CapturedOnce'
  BY <1>25 DEF PostPart, Goto, disk, history
<1>26. ASSUME NEW t \in Threads, NEW p \in Parts, PostFailed(t, p) PROVE CapturedOnce'
  <2>1. CASE HasTelemetry(job[t].uid) /\ job[t].n < MaxAttempts
    BY <1>26, <2>1 DEF PostFailed, Goto, disk
  <2>2. CASE ~(HasTelemetry(job[t].uid) /\ job[t].n < MaxAttempts)
    BY <1>26, <2>2, LeaveFlushCapturedOnce DEF PostFailed, FailFlush, disk
  <2> QED
    BY <2>1, <2>2
<1>27. ASSUME NEW t \in Threads, PostUnauthorized(t) PROVE CapturedOnce'
  BY <1>27, LeaveFlushCapturedOnce DEF PostUnauthorized, FailFlush, disk
<1>28. ASSUME NEW t \in Threads, ForgetTelemetry(t) PROVE CapturedOnce'
  BY <1>28, LeaveFlushCapturedOnce DEF ForgetTelemetry, RemoveTelemetry, history
<1>29. CASE UNCHANGED vars
  BY <1>29 DEF vars, disk, history, threads
<1> QED
  BY <1>1, <1>2, <1>3, <1>4, <1>5, <1>6, <1>7, <1>8, <1>9, <1>10, <1>11, <1>12, <1>13, <1>14, <1>15,
     <1>16, <1>17, <1>18, <1>19, <1>20, <1>21, <1>22, <1>23, <1>24, <1>25, <1>26, <1>27, <1>28, <1>29
  DEF Next, Upload, Flush, Retry

\* Nobody deletes a telemetry row, and only two handlers write the parts of the
\* telemetry cache.
LEMMA TelemetryFrame ==
  ASSUME [Next]_vars
  PROVE  /\ stored \subseteq stored'
         /\ \/ UNCHANGED <<teleParts, captured>>
            \/ \E t \in Threads : ForgetTelemetry(t)
            \/ \E s \in Sessions, parts \in SUBSET Parts, listed \in BOOLEAN : FinishSession(s, parts, listed)
<1> DEFINE Frame == /\ stored \subseteq stored'
                    /\ UNCHANGED <<teleParts, captured>>
<1>1. ASSUME StopRuntime \/ Crash PROVE Frame
  BY <1>1 DEF StopRuntime, Crash, disk, backend, history
<1>2. ASSUME NEW t \in Threads, StartRuntime(t) \/ RetryNow(t) PROVE Frame
  BY <1>2 DEF StartRuntime, RetryNow, disk, backend, history
<1>3. ASSUME NEW t \in Threads, Upload(t) PROVE Frame
  BY <1>3 DEF Upload, SaveRace, SubmitRace, SubmitAnswered, SubmitFailed, SubmitUnauthorized, BindRaceId,
     UncacheRace, SettleUpload, disk, backend, history
<1>4. ASSUME NEW t \in Threads, Flush(t), ~ForgetTelemetry(t) PROVE Frame
  <2>1. CASE ReadSnapshot(t) \/ LookupRace(t) \/ LookupFailed(t) \/ AttemptFlush(t) \/ PostUnauthorized(t)
    BY <2>1 DEF ReadSnapshot, LookupRace, LookupFailed, AttemptFlush, PostUnauthorized, FailFlush, disk, backend, history
  <2>2. ASSUME NEW p \in Parts, PostPart(t, p) \/ PostFailed(t, p) PROVE Frame
    BY <2>2 DEF PostPart, PostFailed, FailFlush, StorePart, disk, history
  <2> QED
    BY <1>4, <2>1, <2>2 DEF Flush
<1>5. ASSUME NEW t \in Threads, Retry(t) PROVE Frame
  <2>1. ASSUME BootRetry(t) \/ LoadTelemetry(t) \/ EndRetry(t) PROVE Frame
    BY <2>1 DEF BootRetry, LoadTelemetry, EndRetry, disk, backend, history
  <2>2. ASSUME NEW s \in Sessions, NextRace(t, s) PROVE Frame
    BY <2>2 DEF NextRace, disk, backend, history
  <2>3. ASSUME NEW e \in Entries, NextTelemetry(t, e) PROVE Frame
    BY <2>3 DEF NextTelemetry, disk, backend, history
  <2> QED
    BY <1>5, <2>1, <2>2, <2>3 DEF Retry
<1>6. ASSUME NEW m \in Threads \X Sessions, SubmitUnanswered(m) \/ SubmitLost(m) PROVE Frame
  BY <1>6 DEF SubmitUnanswered, SubmitLost, disk, backend, history
<1>7. ASSUME UNCHANGED vars PROVE Frame
  BY <1>7 DEF vars, disk, backend, history
<1>8. ASSUME NEW t \in Threads, ForgetTelemetry(t) PROVE stored \subseteq stored'
  BY <1>8 DEF ForgetTelemetry, backend
<1>9. ASSUME NEW s \in Sessions, NEW parts \in SUBSET Parts, NEW listed \in BOOLEAN, FinishSession(s, parts, listed)
      PROVE  stored \subseteq stored'
  BY <1>9 DEF FinishSession, backend
<1> HIDE DEF Frame
<1>10. \/ Frame
       \/ \E t \in Threads : ForgetTelemetry(t)
       \/ \E s \in Sessions, parts \in SUBSET Parts, listed \in BOOLEAN : FinishSession(s, parts, listed)
  BY <1>1, <1>2, <1>3, <1>4, <1>5, <1>6, <1>7 DEF Next
<1> QED
  BY <1>8, <1>9, <1>10 DEF Frame

\* No step takes a part out of the cache that the backend does not hold.
NothingDropped ==
    \A s \in Sessions : \A p \in teleParts[s] :
        p \in teleParts'[s] \/ <<races[s], s, p>> \in stored'

\* No step takes a part out of the cache that the backend does not hold.
LEMMA DropsNothing ==
  ASSUME ~MayRefinish, DeliveryInv, CapturedOnce, [Next]_vars
  PROVE  NothingDropped
<1> USE DEF NothingDropped
<1>1. CASE UNCHANGED <<teleParts, captured>>
  BY <1>1
<1>2. ASSUME NEW t \in Threads, ForgetTelemetry(t) PROVE NothingDropped
  <2> DEFINE u == job[t].uid
  <2>1. pc[t] = "forget" /\ teleParts' = [teleParts EXCEPT ![u] = {}] /\ stored' = stored
    BY <1>2 DEF ForgetTelemetry, RemoveTelemetry, backend
  <2>2. job[t].copy \subseteq job[t].sent /\ \A p \in job[t].sent : <<job[t].rid, u, p>> \in stored
    BY <2>1 DEF DeliveryInv, SentStored
  <2>3. u \in Sessions /\ job[t].rid = races[u]
    BY <2>1 DEF DeliveryInv, InHand, IdsTrue, Delivering
  <2>4. teleParts[u] \subseteq job[t].copy
    BY <2>1, <2>3 DEF CapturedOnce, Flushing
  <2>5. \A p \in teleParts[u] : <<races[u], u, p>> \in stored'
    BY <2>1, <2>2, <2>3, <2>4
  <2>6. \A s \in Sessions : s # u => teleParts'[s] = teleParts[s]
    BY <2>1 DEF DeliveryInv, TypeOK
  <2> QED
    BY <2>5, <2>6
<1>3. ASSUME NEW s \in Sessions, NEW parts \in SUBSET Parts, NEW listed \in BOOLEAN, FinishSession(s, parts, listed)
      PROVE  NothingDropped
  <2>1. teleParts[s] = {}
    BY <1>3 DEF FinishSession, CapturedOnce
  <2>2. \A u \in Sessions : u # s => teleParts'[u] = teleParts[u]
    BY <1>3 DEF FinishSession, RemoveTelemetry, DeliveryInv, TypeOK
  <2> QED
    BY <2>1, <2>2
<1> QED
  BY <1>1, <1>2, <1>3, TelemetryFrame

\* A recorded race stays recorded.
LEMMA RacesStay ==
  ASSUME TypeOK, InHand, [Next]_vars
  PROVE  \A s \in Sessions : races[s] # NoRace => races'[s] = races[s]
<1> DEFINE Stay == \A s \in Sessions : races[s] # NoRace => races'[s] = races[s]
<1>1. ASSUME NEW s \in Sessions, NEW parts \in SUBSET Parts, NEW listed \in BOOLEAN, FinishSession(s, parts, listed)
      PROVE  Stay
  BY <1>1 DEF FinishSession, backend
<1>2. ASSUME StopRuntime \/ Crash PROVE Stay
  BY <1>2 DEF StopRuntime, Crash, backend
<1>3. ASSUME NEW t \in Threads, StartRuntime(t) \/ RetryNow(t) PROVE Stay
  BY <1>3 DEF StartRuntime, RetryNow, backend
<1>4. ASSUME NEW t \in Threads, Upload(t) PROVE Stay
  <2>1. CASE SubmitAnswered(t)
    <3>1. job[t].uid \in Sessions /\ RecordRace(job[t].uid)
      BY <2>1 DEF SubmitAnswered, InHand, Delivering
    <3> QED
      BY <3>1, RecordRaceEffect
  <2>2. CASE ~SubmitAnswered(t)
    BY <1>4, <2>2 DEF Upload, SaveRace, SubmitRace, SubmitFailed, SubmitUnauthorized, BindRaceId,
       UncacheRace, SettleUpload, backend
  <2> QED
    BY <2>1, <2>2
<1>5. ASSUME NEW t \in Threads, Flush(t) PROVE Stay
  BY <1>5 DEF Flush, ReadSnapshot, LookupRace, LookupFailed, AttemptFlush, PostPart, PostFailed, PostUnauthorized,
     ForgetTelemetry, backend
<1>6. ASSUME NEW t \in Threads, Retry(t) PROVE Stay
  <2>1. ASSUME BootRetry(t) \/ LoadTelemetry(t) \/ EndRetry(t) PROVE Stay
    BY <2>1 DEF BootRetry, LoadTelemetry, EndRetry, backend
  <2>2. ASSUME NEW s \in Sessions, NextRace(t, s) PROVE Stay
    BY <2>2 DEF NextRace, backend
  <2>3. ASSUME NEW e \in Entries, NextTelemetry(t, e) PROVE Stay
    BY <2>3 DEF NextTelemetry, backend
  <2> QED
    BY <1>6, <2>1, <2>2, <2>3 DEF Retry
<1>7. ASSUME NEW m \in Threads \X Sessions, SubmitUnanswered(m) \/ SubmitLost(m) PROVE Stay
  <2>1. CASE SubmitUnanswered(m)
    BY <2>1, RecordRaceEffect DEF SubmitUnanswered
  <2>2. CASE SubmitLost(m)
    BY <2>2 DEF SubmitLost, backend
  <2> QED
    BY <1>7, <2>1, <2>2
<1>8. ASSUME UNCHANGED vars PROVE Stay
  BY <1>8 DEF vars, backend
<1> HIDE DEF Stay
<1>9. Stay
  BY <1>1, <1>2, <1>3, <1>4, <1>5, <1>6, <1>7, <1>8 DEF Next
<1> QED
  BY <1>9 DEF Stay

\* A part leaves the cache to the backend, under the race its session keeps.
LEMMA TelemetryKeptStep ==
  ASSUME ~MayRefinish, DeliveryInv, CapturedOnce, TelemetryKept, [Next]_vars
  PROVE  TelemetryKept'
<1>1. TypeOK /\ InHand /\ TypeOK'
  BY TypeStep DEF DeliveryInv
<1>2. \A s \in Sessions : races[s] # NoRace => races'[s] = races[s]
  BY <1>1, RacesStay
<1>3. ASSUME NEW s \in Sessions, NEW p, <<races[s], s, p>> \in stored'
      PROVE  <<races'[s], s, p>> \in stored'
  <2>1. races[s] # NoRace
    BY <1>1, <1>3, ConstantsAssumption DEF TypeOK
  <2> QED
    BY <1>2, <1>3, <2>1
<1>4. stored \subseteq stored'
  BY TelemetryFrame
<1> DEFINE Safe(s, p) == p \in teleParts'[s] \/ <<races'[s], s, p>> \in stored'
<1>5. \A s \in Sessions, p \in Parts : p \in captured[s] => Safe(s, p)
  <2> SUFFICES ASSUME NEW s \in Sessions, NEW p \in Parts, p \in captured[s] PROVE Safe(s, p)
    OBVIOUS
  <2>1. p \in teleParts[s] \/ <<races[s], s, p>> \in stored
    BY DEF TelemetryKept
  <2>2. p \in teleParts'[s] \/ <<races[s], s, p>> \in stored'
    BY <1>4, <2>1, DropsNothing DEF NothingDropped
  <2> QED
    BY <1>3, <2>2
<1> SUFFICES \A s \in Sessions : \A p \in captured'[s] : Safe(s, p)
  BY Zenon DEF TelemetryKept
<1> HIDE DEF Safe
<1>6. ASSUME captured' = captured PROVE \A s \in Sessions : \A p \in captured'[s] : Safe(s, p)
  BY <1>1, <1>5, <1>6 DEF TypeOK
<1>7. ASSUME NEW s \in Sessions, NEW parts \in SUBSET Parts, NEW listed \in BOOLEAN, FinishSession(s, parts, listed)
      PROVE  \A u \in Sessions : \A p \in captured'[u] : Safe(u, p)
  <2>1. captured' = [captured EXCEPT ![s] = parts]
    BY <1>7 DEF FinishSession
  <2>2. parts \subseteq teleParts'[s]
    BY <1>1, <1>7 DEF FinishSession, TypeOK
  <2>3. \A u \in Sessions : u # s => captured'[u] = captured[u]
    BY <1>1, <2>1 DEF TypeOK
  <2>4. captured'[s] = parts
    BY <1>1, <2>1 DEF TypeOK
  <2>5. \A p \in captured'[s] : Safe(s, p)
    BY <2>2, <2>4 DEF Safe
  <2>6. ASSUME NEW u \in Sessions, u # s PROVE \A p \in captured'[u] : Safe(u, p)
    <3>1. captured'[u] = captured[u] /\ captured[u] \subseteq Parts
      BY <1>1, <2>3, <2>6 DEF TypeOK
    <3> QED
      BY <1>5, <3>1
  <2> QED
    BY <2>5, <2>6
<1>8. ASSUME NEW t \in Threads, ForgetTelemetry(t) PROVE captured' = captured
  BY <1>8 DEF ForgetTelemetry, history
<1> QED
  BY <1>6, <1>7, <1>8, TelemetryFrame

\* The invariant that keeps captured telemetry, when sessions finish once.
LEMMA KeptInvariant == ~MayRefinish => (Spec => []KeptInv)
<1> SUFFICES ASSUME ~MayRefinish PROVE Spec => []KeptInv
  OBVIOUS
<1>1. Init => KeptInv
  <2>1. Init => CapturedOnce /\ TelemetryKept
    BY DEF Init, CapturedOnce, TelemetryKept, Flushing
  <2> QED
    BY <2>1, InvInit DEF KeptInv
<1>2. KeptInv /\ [Next]_vars => KeptInv'
  BY InvStep, CapturedOnceStep, TelemetryKeptStep DEF KeptInv, DeliveryInv
<1> QED
  BY <1>1, <1>2, PTL DEF Spec

\* If no session finishes twice, every captured part is in the cache until the
\* backend holds it: whatever is lost, repeated or late, however many threads
\* flush the same entry, wherever the process dies.
THEOREM TelemetryIsKept == ~MayRefinish => (Spec => []TelemetryKept)
<1> SUFFICES ASSUME ~MayRefinish PROVE Spec => []TelemetryKept
  OBVIOUS
<1>1. KeptInv => TelemetryKept
  BY DEF KeptInv
<1> QED
  BY <1>1, KeptInvariant, PTL

\* Under the same condition the promise of telemetry_delivery.py holds: a flush
\* that failed leaves its telemetry in the cache until the backend holds it.
THEOREM FailedFlushesStayCached == ~MayRefinish => (Spec => FailedFlushStaysCached)
<1> SUFFICES ASSUME ~MayRefinish PROVE Spec => FailedFlushStaysCached
  OBVIOUS
<1>1. ASSUME KeptInv, [Next]_vars
      PROVE  \A s \in failedFlush : \A p \in teleParts[s] :
               p \in teleParts'[s] \/ <<races[s], s, p>> \in stored'
  <2>1. failedFlush \subseteq Sessions
    BY <1>1 DEF KeptInv, DeliveryInv, TypeOK
  <2> QED
    BY <1>1, <2>1, DropsNothing DEF NothingDropped, KeptInv
<1> QED
  BY <1>1, KeptInvariant, PTL DEF Spec, FailedFlushStaysCached

-----------------------------------------------------------------------------
(* Refinement of the ledger. *)

\* A step of the ledger, or none.
LedgerMove == Ledger!LedgerNext \/ (Durable' = Durable /\ races' = races)

\* Handling a submit of a durable result records it, or does nothing.
LEMMA RecordRaceMoves ==
  ASSUME TypeOK, NEW s \in Durable, RecordRace(s), cachedRaces' = cachedRaces
  PROVE  LedgerMove
<1>1. s \in Sessions
  BY DEF Durable, TypeOK
<1>2. CASE races[s] # NoRace
  BY <1>2 DEF RecordRace, LedgerMove, Durable
<1>3. CASE races[s] = NoRace
  <2>1. PICK id \in RaceIds : /\ \A u \in Sessions : races[u] # id
                              /\ races' = [races EXCEPT ![s] = id]
    BY <1>3 DEF RecordRace
  <2>2. Durable' = Durable
    BY <1>1, <2>1, ConstantsAssumption DEF Durable
  <2>3. Ledger!Record(s, id)
    BY <1>3, <2>1, <2>2 DEF Ledger!Record
  <2> QED
    BY <1>1, <2>3 DEF LedgerMove, Ledger!LedgerNext
<1> QED
  BY <1>2, <1>3

\* Every step of Delivery is a step of the ledger, or none: only FinishSession,
\* SaveRace, UncacheRace and the submits touch what it speaks about.
LEMMA LedgerStep == DeliveryInv /\ [Next]_vars => LedgerMove
<1> SUFFICES ASSUME TypeOK, InHand, IdsTrue, SubmittedDurable, [Next]_vars PROVE LedgerMove
  BY DEF DeliveryInv
<1> USE ConstantsAssumption
<1>1. ASSUME NEW s \in Sessions, NEW parts \in SUBSET Parts, NEW listed \in BOOLEAN, FinishSession(s, parts, listed) PROVE LedgerMove
  BY <1>1 DEF FinishSession, LedgerMove, Durable, backend
<1>2. ASSUME NEW t \in Threads, StartRuntime(t) PROVE LedgerMove
  BY <1>2 DEF StartRuntime, LedgerMove, Durable, disk, backend
<1>3. ASSUME StopRuntime PROVE LedgerMove
  BY <1>3 DEF StopRuntime, LedgerMove, Durable, disk, backend
<1>4. ASSUME Crash PROVE LedgerMove
  BY <1>4 DEF Crash, LedgerMove, Durable, disk, backend
<1>5. ASSUME NEW t \in Threads, RetryNow(t) PROVE LedgerMove
  BY <1>5 DEF RetryNow, LedgerMove, Durable, disk, backend
<1>6. ASSUME NEW t \in Threads, BootRetry(t) PROVE LedgerMove
  BY <1>6 DEF BootRetry, LedgerMove, Durable, disk, backend
<1>7. ASSUME NEW t \in Threads, NEW s \in Sessions, NextRace(t, s) PROVE LedgerMove
  BY <1>7 DEF NextRace, LedgerMove, Durable, disk, backend
<1>8. ASSUME NEW t \in Threads, LoadTelemetry(t) PROVE LedgerMove
  BY <1>8 DEF LoadTelemetry, LedgerMove, Durable, disk, backend
<1>9. ASSUME NEW t \in Threads, NEW e \in Entries, NextTelemetry(t, e) PROVE LedgerMove
  BY <1>9 DEF NextTelemetry, LedgerMove, Durable, disk, backend
<1>10. ASSUME NEW t \in Threads, EndRetry(t) PROVE LedgerMove
  BY <1>10 DEF EndRetry, LedgerMove, Durable, disk, backend
<1>11. ASSUME NEW t \in Threads, SaveRace(t) PROVE LedgerMove
  <2>1. Durable' = Durable \cup {job[t].uid} /\ races' = races
    BY <1>11 DEF SaveRace, Durable, backend
  <2>2. job[t].uid \in Sessions
    BY <1>11 DEF SaveRace, InHand, Delivering
  <2> QED
    BY <2>1, <2>2 DEF LedgerMove, Ledger!LedgerNext, Ledger!Keep
<1>12. ASSUME NEW t \in Threads, SubmitRace(t) PROVE LedgerMove
  BY <1>12 DEF SubmitRace, LedgerMove, Durable, disk, backend
<1>13. ASSUME NEW t \in Threads, SubmitAnswered(t) PROVE LedgerMove
  <2>1. job[t].uid \in Durable /\ cachedRaces' = cachedRaces /\ RecordRace(job[t].uid)
    BY <1>13 DEF SubmitAnswered, SubmittedDurable, disk
  <2> QED
    BY <2>1, RecordRaceMoves DEF Durable
<1>14. ASSUME NEW m \in Threads \X Sessions, SubmitUnanswered(m) PROVE LedgerMove
  <2>1. m[2] \in Durable /\ cachedRaces' = cachedRaces /\ RecordRace(m[2])
    BY <1>14 DEF SubmitUnanswered, SubmittedDurable, disk
  <2> QED
    BY <2>1, RecordRaceMoves DEF Durable
<1>15. ASSUME NEW m \in Threads \X Sessions, SubmitLost(m) PROVE LedgerMove
  BY <1>15 DEF SubmitLost, LedgerMove, Durable, disk, backend
<1>16. ASSUME NEW t \in Threads, SubmitFailed(t) PROVE LedgerMove
  BY <1>16 DEF SubmitFailed, LedgerMove, Durable, disk, backend
<1>17. ASSUME NEW t \in Threads, SubmitUnauthorized(t) PROVE LedgerMove
  BY <1>17 DEF SubmitUnauthorized, LedgerMove, Durable, disk, backend
<1>18. ASSUME NEW t \in Threads, BindRaceId(t) PROVE LedgerMove
  BY <1>18 DEF BindRaceId, LedgerMove, Durable, backend
<1>19. ASSUME NEW t \in Threads, UncacheRace(t) PROVE LedgerMove
  <2>1. races[job[t].uid] # NoRace /\ job[t].uid \in Sessions
    BY <1>19 DEF UncacheRace, InHand, IdsTrue
  <2>2. Durable' = Durable /\ races' = races
    BY <1>19, <2>1 DEF UncacheRace, Durable, backend
  <2> QED
    BY <2>2 DEF LedgerMove
<1>20. ASSUME NEW t \in Threads, SettleUpload(t) PROVE LedgerMove
  BY <1>20 DEF SettleUpload, LedgerMove, Durable, disk, backend
<1>21. ASSUME NEW t \in Threads, ReadSnapshot(t) PROVE LedgerMove
  BY <1>21 DEF ReadSnapshot, LedgerMove, Durable, backend
<1>22. ASSUME NEW t \in Threads, LookupRace(t) PROVE LedgerMove
  BY <1>22 DEF LookupRace, LedgerMove, Durable, backend
<1>23. ASSUME NEW t \in Threads, LookupFailed(t) PROVE LedgerMove
  BY <1>23 DEF LookupFailed, LedgerMove, Durable, disk, backend
<1>24. ASSUME NEW t \in Threads, AttemptFlush(t) PROVE LedgerMove
  BY <1>24 DEF AttemptFlush, LedgerMove, Durable, disk, backend
<1>25. ASSUME NEW t \in Threads, NEW p \in Parts, PostPart(t, p) PROVE LedgerMove
  BY <1>25 DEF PostPart, LedgerMove, Durable, disk
<1>26. ASSUME NEW t \in Threads, NEW p \in Parts, PostFailed(t, p) PROVE LedgerMove
  BY <1>26 DEF PostFailed, LedgerMove, Durable, disk
<1>27. ASSUME NEW t \in Threads, PostUnauthorized(t) PROVE LedgerMove
  BY <1>27 DEF PostUnauthorized, LedgerMove, Durable, disk, backend
<1>28. ASSUME NEW t \in Threads, ForgetTelemetry(t) PROVE LedgerMove
  BY <1>28 DEF ForgetTelemetry, LedgerMove, Durable, backend
<1>29. CASE UNCHANGED vars
  BY <1>29 DEF LedgerMove, Durable, vars, disk, backend
<1> QED
  BY <1>1, <1>2, <1>3, <1>4, <1>5, <1>6, <1>7, <1>8, <1>9, <1>10, <1>11, <1>12, <1>13, <1>14, <1>15,
     <1>16, <1>17, <1>18, <1>19, <1>20, <1>21, <1>22, <1>23, <1>24, <1>25, <1>26, <1>27, <1>28, <1>29
  DEF Next, Upload, Flush, Retry

\* No result is given up between the agent's disk and the league, and none becomes
\* two races: the pipeline implements the ledger.
THEOREM DeliveryImplementsLedger == Spec => ImplementsLedger
<1>1. Init => Ledger!LedgerInit
  BY DEF Init, Ledger!LedgerInit, Durable
<1>2. DeliveryInv /\ [Next]_vars => [Ledger!LedgerNext]_(Ledger!ledgerVars)
  BY LedgerStep DEF LedgerMove, Ledger!ledgerVars
<1> QED
  BY <1>1, <1>2, DeliveryInvariant, PTL DEF Spec, ImplementsLedger, Ledger!LedgerSpec

=============================================================================
