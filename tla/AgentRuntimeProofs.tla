------------------------- MODULE AgentRuntimeProofs -------------------------
(***************************************************************************)
(* Proofs about AgentRuntime, for any number of sessions and upload        *)
(* threads: its inductive invariant, the four invariants it contains, and  *)
(* that the end of an upload thread leaves running captures alone.  Each   *)
(* part of RuntimeInv has a lemma "...Step" with one step per action; parts*)
(* use one another as their lemmas name them, e.g. a snapshot is of one    *)
(* session (OwnDataOnly) because all that is gathered while a session is   *)
(* known is about it (Gathered).                                           *)
(***************************************************************************)
EXTENDS AgentRuntime, TLAPS

\* Every step keeps the types.
LEMMA TypeStep == TypeOK /\ WorkersNamed /\ [Next]_vars => TypeOK'
<1> SUFFICES ASSUME TypeOK, WorkersNamed, [Next]_vars PROVE TypeOK'
  OBVIOUS
<1> USE NoUidAssumption
<1>1. ASSUME NEW s \in Uids, NEW kind \in Kinds, SessionPacket(s, kind) PROVE TypeOK'
  BY <1>1 DEF SessionPacket, StateAfter, ContextAfter, CaptureAfter, ClearCapture, TypeOK, Uids, States, NoContext, capture, guards, workers
<1>2. ASSUME NEW s \in Uids, ParticipantsPacket(s) PROVE TypeOK'
  BY <1>2 DEF ParticipantsPacket, Accepted, TypeOK, Uids, States, Contexts, NoContext, session, capture, guards, workers
<1>3. ASSUME NEW s \in Uids, FinalPacket(s) PROVE TypeOK'
  <2>1. snapshots' \subseteq Sessions \X Uids /\ s \in Sessions
    BY <1>3 DEF FinalPacket, TypeOK, Uids
  <2>2. CASE context["participants"] = {}
    BY <1>3, <2>1, <2>2 DEF FinalPacket, ResetSession, ClearCapture, TypeOK, Uids, States, NoContext, workers
  <2>3. CASE context["participants"] # {}
    <3> DEFINE data == UNION {context[c] : c \in Contexts}
    <3>1. data \in SUBSET Uids
      BY DEF TypeOK
    <3>2. PICK w \in Workers : /\ phase' = [phase EXCEPT ![w] = "upload"]
                               /\ work' = [work EXCEPT ![w] = [uid |-> s, data |-> data]]
      BY <1>3, <2>3 DEF FinalPacket
    <3> HIDE DEF data
    <3>3. phase' \in [Workers -> {"idle", "upload", "settled"}]
      BY <3>2 DEF TypeOK
    <3>4. work' \in [Workers -> [uid : Uids, data : SUBSET Uids]]
      BY <3>1, <3>2 DEF TypeOK
    <3>5. /\ state' = "finished" /\ collecting' = FALSE /\ latest' = {} /\ buffer' = {}
          /\ uploading' = uploading \cup {s}
          /\ UNCHANGED <<listening, uid, context, uploaded, left>>
      BY <1>3, <2>3 DEF FinalPacket, ClearCapture
    <3> QED
      BY <2>1, <3>3, <3>4, <3>5 DEF TypeOK, States
  <2> QED
    BY <2>2, <2>3
<1>4. ASSUME NEW s \in Uids, NEW b \in BOOLEAN, EventPacket(s, b) PROVE TypeOK'
  BY <1>4 DEF EventPacket, TypeOK, Uids, States, Contexts, NoContext, session, capture, guards, workers
<1>5. ASSUME NEW s \in Uids, NEW current \in BOOLEAN, NEW timed \in BOOLEAN, RacePacket(s, current, timed) PROVE TypeOK'
  BY <1>5 DEF RacePacket, TypeOK, session, guards, workers
<1>6. ASSUME NEW w \in Workers, NEW ok \in BOOLEAN, UploadReturns(w, ok) PROVE TypeOK'
  <2>1. work[w].uid \in Sessions
    BY <1>6 DEF UploadReturns, WorkersNamed
  <2> QED
    BY <1>6, <2>1 DEF UploadReturns, TypeOK, States, capture
<1>7. ASSUME NEW w \in Workers, WorkerEnds(w) PROVE TypeOK'
  BY <1>7 DEF WorkerEnds, Resettable, ResetSession, ClearCapture, TypeOK, Uids, States, Contexts, NoContext, session, capture, guards, workers
<1>8. ASSUME Sample PROVE TypeOK'
  BY <1>8 DEF Sample, TypeOK, Uids, States, Contexts, NoContext, session, capture, guards, workers
<1>9. ASSUME StopListening PROVE TypeOK'
  BY <1>9 DEF StopListening, TypeOK, Uids, States, Contexts, NoContext, session, capture, guards, workers
<1>10. ASSUME StopCapture PROVE TypeOK'
  BY <1>10 DEF StopCapture, ClearCapture, TypeOK, session, guards, workers
<1>11. CASE UNCHANGED vars
  BY <1>11 DEF vars, session, capture, guards, workers, TypeOK
<1> QED
  BY <1>1, <1>2, <1>3, <1>4, <1>5, <1>6, <1>7, <1>8, <1>9, <1>10, <1>11 DEF Next, Worker

\* What is gathered is about the current session: packets of others are refused
\* while one is known, and a rollover clears all of it.
LEMMA GatheredStep == TypeOK /\ Gathered /\ [Next]_vars => Gathered'
<1> SUFFICES ASSUME TypeOK, Gathered, [Next]_vars PROVE Gathered'
  OBVIOUS
<1> USE NoUidAssumption
<1>1. ASSUME NEW s \in Uids, NEW kind \in Kinds, SessionPacket(s, kind) PROVE Gathered'
  BY <1>1 DEF SessionPacket, ContextAfter, CaptureAfter, ClearCapture, Gathered, NoContext, capture
<1>2. ASSUME NEW s \in Uids, ParticipantsPacket(s) PROVE Gathered'
  BY <1>2 DEF ParticipantsPacket, Accepted, Gathered, capture
<1>3. ASSUME NEW s \in Uids, FinalPacket(s) PROVE Gathered'
  BY <1>3 DEF FinalPacket, ResetSession, ClearCapture, Gathered
<1>4. ASSUME NEW s \in Uids, NEW b \in BOOLEAN, EventPacket(s, b) PROVE Gathered'
  BY <1>4 DEF EventPacket, Gathered, TypeOK, Uids, States, Contexts, NoContext, session, capture, guards, workers
<1>5. ASSUME NEW s \in Uids, NEW current \in BOOLEAN, NEW timed \in BOOLEAN, RacePacket(s, current, timed) PROVE Gathered'
  BY <1>5 DEF RacePacket, Accepted, Gathered, TypeOK, Uids, States, Contexts, NoContext, session, capture, guards, workers
<1>6. ASSUME NEW w \in Workers, NEW ok \in BOOLEAN, UploadReturns(w, ok) PROVE Gathered'
  BY <1>6 DEF UploadReturns, Gathered, TypeOK, Uids, States, Contexts, NoContext, session, capture, guards, workers
<1>7. ASSUME NEW w \in Workers, WorkerEnds(w) PROVE Gathered'
  BY <1>7 DEF WorkerEnds, ResetSession, Gathered, session, capture
<1>8. ASSUME Sample PROVE Gathered'
  BY <1>8 DEF Sample, Gathered, session
<1>9. ASSUME StopListening PROVE Gathered'
  BY <1>9 DEF StopListening, Gathered, TypeOK, Uids, States, Contexts, NoContext, session, capture, guards, workers
<1>10. ASSUME StopCapture PROVE Gathered'
  BY <1>10 DEF StopCapture, ClearCapture, Gathered, TypeOK, Uids, States, Contexts, NoContext, session, capture, guards, workers
<1>11. CASE UNCHANGED vars
  BY <1>11 DEF vars, session, capture, Gathered
<1> QED
  BY <1>1, <1>2, <1>3, <1>4, <1>5, <1>6, <1>7, <1>8, <1>9, <1>10, <1>11 DEF Next, Worker

\* A snapshot and a payload are taken from what was gathered.
LEMMA OwnDataStep == TypeOK /\ Gathered /\ OwnDataOnly /\ [Next]_vars => OwnDataOnly'
<1> SUFFICES ASSUME TypeOK, Gathered, OwnDataOnly, [Next]_vars PROVE OwnDataOnly'
  OBVIOUS
<1> USE NoUidAssumption
<1>1. ASSUME NEW s \in Uids, NEW kind \in Kinds, SessionPacket(s, kind) PROVE OwnDataOnly'
  BY <1>1 DEF SessionPacket, OwnDataOnly, workers
<1>2. ASSUME NEW s \in Uids, ParticipantsPacket(s) PROVE OwnDataOnly'
  BY <1>2 DEF ParticipantsPacket, OwnDataOnly, workers
<1>3. ASSUME NEW s \in Uids, FinalPacket(s) PROVE OwnDataOnly'
  BY <1>3 DEF FinalPacket, ResetSession, OwnDataOnly, Gathered, TypeOK, workers
<1>4. ASSUME NEW s \in Uids, NEW b \in BOOLEAN, EventPacket(s, b) PROVE OwnDataOnly'
  BY <1>4 DEF EventPacket, OwnDataOnly, workers
<1>5. ASSUME NEW s \in Uids, NEW current \in BOOLEAN, NEW timed \in BOOLEAN, RacePacket(s, current, timed) PROVE OwnDataOnly'
  BY <1>5 DEF RacePacket, OwnDataOnly, workers
<1>6. ASSUME NEW w \in Workers, NEW ok \in BOOLEAN, UploadReturns(w, ok) PROVE OwnDataOnly'
  BY <1>6 DEF UploadReturns, OwnDataOnly
<1>7. ASSUME NEW w \in Workers, WorkerEnds(w) PROVE OwnDataOnly'
  BY <1>7 DEF WorkerEnds, OwnDataOnly
<1>8. ASSUME Sample PROVE OwnDataOnly'
  BY <1>8 DEF Sample, OwnDataOnly, workers
<1>9. ASSUME StopListening PROVE OwnDataOnly'
  BY <1>9 DEF StopListening, OwnDataOnly, workers
<1>10. ASSUME StopCapture PROVE OwnDataOnly'
  BY <1>10 DEF StopCapture, OwnDataOnly, workers
<1>11. CASE UNCHANGED vars
  BY <1>11 DEF vars, workers, OwnDataOnly
<1> QED
  BY <1>1, <1>2, <1>3, <1>4, <1>5, <1>6, <1>7, <1>8, <1>9, <1>10, <1>11 DEF Next, Worker

\* A thread is started for the current session, which is known by then.
LEMMA WorkersNamedStep == TypeOK /\ WorkersNamed /\ [Next]_vars => WorkersNamed'
<1> SUFFICES ASSUME TypeOK, WorkersNamed, [Next]_vars PROVE WorkersNamed'
  OBVIOUS
<1> USE NoUidAssumption
<1>1. ASSUME NEW s \in Uids, NEW kind \in Kinds, SessionPacket(s, kind) PROVE WorkersNamed'
  BY <1>1 DEF SessionPacket, WorkersNamed, workers
<1>2. ASSUME NEW s \in Uids, ParticipantsPacket(s) PROVE WorkersNamed'
  BY <1>2 DEF ParticipantsPacket, WorkersNamed, workers
<1>3. ASSUME NEW s \in Uids, FinalPacket(s) PROVE WorkersNamed'
  BY <1>3 DEF FinalPacket, WorkersNamed, TypeOK, Uids, workers
<1>4. ASSUME NEW s \in Uids, NEW b \in BOOLEAN, EventPacket(s, b) PROVE WorkersNamed'
  BY <1>4 DEF EventPacket, WorkersNamed, workers
<1>5. ASSUME NEW s \in Uids, NEW current \in BOOLEAN, NEW timed \in BOOLEAN, RacePacket(s, current, timed) PROVE WorkersNamed'
  BY <1>5 DEF RacePacket, WorkersNamed, workers
<1>6. ASSUME NEW w \in Workers, NEW ok \in BOOLEAN, UploadReturns(w, ok) PROVE WorkersNamed'
  BY <1>6 DEF UploadReturns, WorkersNamed
<1>7. ASSUME NEW w \in Workers, WorkerEnds(w) PROVE WorkersNamed'
  BY <1>7 DEF WorkerEnds, WorkersNamed
<1>8. ASSUME Sample PROVE WorkersNamed'
  BY <1>8 DEF Sample, WorkersNamed, workers
<1>9. ASSUME StopListening PROVE WorkersNamed'
  BY <1>9 DEF StopListening, WorkersNamed, workers
<1>10. ASSUME StopCapture PROVE WorkersNamed'
  BY <1>10 DEF StopCapture, WorkersNamed, workers
<1>11. CASE UNCHANGED vars
  BY <1>11 DEF vars, workers, WorkersNamed
<1> QED
  BY <1>1, <1>2, <1>3, <1>4, <1>5, <1>6, <1>7, <1>8, <1>9, <1>10, <1>11 DEF Next, Worker

\* The sampler starts when the state machine enters the race and stops when it
\* leaves it.
LEMMA RaceCollectsStep == TypeOK /\ OverIsStill /\ RaceCollects /\ [Next]_vars => RaceCollects'
<1> SUFFICES ASSUME TypeOK, OverIsStill, RaceCollects, [Next]_vars PROVE RaceCollects'
  OBVIOUS
<1> USE NoUidAssumption
<1>1. ASSUME NEW s \in Uids, NEW kind \in Kinds, SessionPacket(s, kind) PROVE RaceCollects'
  BY <1>1 DEF SessionPacket, StateAfter, CaptureAfter, ClearCapture, RaceCollects, capture
<1>2. ASSUME NEW s \in Uids, ParticipantsPacket(s) PROVE RaceCollects'
  BY <1>2 DEF ParticipantsPacket, RaceCollects, capture
<1>3. ASSUME NEW s \in Uids, FinalPacket(s) PROVE RaceCollects'
  BY <1>3 DEF FinalPacket, ResetSession, ClearCapture, RaceCollects
<1>4. ASSUME NEW s \in Uids, NEW b \in BOOLEAN, EventPacket(s, b) PROVE RaceCollects'
  BY <1>4 DEF EventPacket, RaceCollects, capture
<1>5. ASSUME NEW s \in Uids, NEW current \in BOOLEAN, NEW timed \in BOOLEAN, RacePacket(s, current, timed) PROVE RaceCollects'
  BY <1>5 DEF RacePacket, RaceCollects, session
<1>6. ASSUME NEW w \in Workers, NEW ok \in BOOLEAN, UploadReturns(w, ok) PROVE RaceCollects'
  BY <1>6 DEF UploadReturns, RaceCollects, capture
<1>7. ASSUME NEW w \in Workers, WorkerEnds(w) PROVE RaceCollects'
  BY <1>7 DEF WorkerEnds, ResetSession, ClearCapture, RaceCollects, session, capture
<1>8. ASSUME Sample PROVE RaceCollects'
  BY <1>8 DEF Sample, OverIsStill, RaceCollects, TypeOK, Uids, States, Contexts, NoContext, session, capture, guards, workers
<1>9. ASSUME StopListening PROVE RaceCollects'
  BY <1>9 DEF StopListening, RaceCollects
<1>10. ASSUME StopCapture PROVE RaceCollects'
  BY <1>10 DEF StopCapture, RaceCollects
<1>11. CASE UNCHANGED vars
  BY <1>11 DEF vars, session, capture, RaceCollects
<1> QED
  BY <1>1, <1>2, <1>3, <1>4, <1>5, <1>6, <1>7, <1>8, <1>9, <1>10, <1>11 DEF Next, Worker

\* A FinalClassification stops the sampler and keeps the session.
LEMMA OverIsStillStep == TypeOK /\ RaceCollects /\ OverIsStill /\ [Next]_vars => OverIsStill'
<1> SUFFICES ASSUME TypeOK, RaceCollects, OverIsStill, [Next]_vars PROVE OverIsStill'
  OBVIOUS
<1> USE NoUidAssumption
<1>1. ASSUME NEW s \in Uids, NEW kind \in Kinds, SessionPacket(s, kind) PROVE OverIsStill'
  BY <1>1 DEF SessionPacket, StateAfter, CaptureAfter, OverIsStill, capture
<1>2. ASSUME NEW s \in Uids, ParticipantsPacket(s) PROVE OverIsStill'
  BY <1>2 DEF ParticipantsPacket, OverIsStill, capture
<1>3. ASSUME NEW s \in Uids, FinalPacket(s) PROVE OverIsStill'
  BY <1>3 DEF FinalPacket, ResetSession, ClearCapture, OverIsStill
<1>4. ASSUME NEW s \in Uids, NEW b \in BOOLEAN, EventPacket(s, b) PROVE OverIsStill'
  BY <1>4 DEF EventPacket, OverIsStill, capture
<1>5. ASSUME NEW s \in Uids, NEW current \in BOOLEAN, NEW timed \in BOOLEAN, RacePacket(s, current, timed) PROVE OverIsStill'
  BY <1>5 DEF RacePacket, OverIsStill, session
<1>6. ASSUME NEW w \in Workers, NEW ok \in BOOLEAN, UploadReturns(w, ok) PROVE OverIsStill'
  BY <1>6 DEF UploadReturns, OverIsStill, capture
<1>7. ASSUME NEW w \in Workers, WorkerEnds(w) PROVE OverIsStill'
  BY <1>7 DEF WorkerEnds, ResetSession, OverIsStill, session, capture
<1>8. ASSUME Sample PROVE OverIsStill'
  BY <1>8 DEF Sample, OverIsStill, RaceCollects, TypeOK, Uids, States, Contexts, NoContext, session, capture, guards, workers
<1>9. ASSUME StopListening PROVE OverIsStill'
  BY <1>9 DEF StopListening, OverIsStill, RaceCollects, TypeOK, Uids, States, Contexts, NoContext, session, capture, guards, workers
<1>10. ASSUME StopCapture PROVE OverIsStill'
  BY <1>10 DEF StopCapture, ClearCapture, OverIsStill, session
<1>11. CASE UNCHANGED vars
  BY <1>11 DEF vars, session, capture, OverIsStill
<1> QED
  BY <1>1, <1>2, <1>3, <1>4, <1>5, <1>6, <1>7, <1>8, <1>9, <1>10, <1>11 DEF Next, Worker

\* A session becomes finished together with the start of its thread, and leaves
\* that state before the thread ends.
LEMMA NeverStrandedStep == TypeOK /\ OverIsStill /\ WorkersNamed /\ NeverStranded /\ [Next]_vars => NeverStranded'
<1> SUFFICES ASSUME TypeOK, OverIsStill, WorkersNamed, NeverStranded, [Next]_vars PROVE NeverStranded'
  OBVIOUS
<1> USE NoUidAssumption
<1>1. ASSUME NEW s \in Uids, NEW kind \in Kinds, SessionPacket(s, kind) PROVE NeverStranded'
  BY <1>1 DEF SessionPacket, StateAfter, NeverStranded, guards, workers
<1>2. ASSUME NEW s \in Uids, ParticipantsPacket(s) PROVE NeverStranded'
  BY <1>2 DEF ParticipantsPacket, NeverStranded, guards, workers
<1>3. ASSUME NEW s \in Uids, FinalPacket(s) PROVE NeverStranded'
  BY <1>3 DEF FinalPacket, AlreadyTaken, Capturing, ResetSession, ClearCapture, OverIsStill, NeverStranded, WorkersNamed, TypeOK, Uids, States, Contexts, NoContext, session, capture, guards, workers
<1>4. ASSUME NEW s \in Uids, NEW b \in BOOLEAN, EventPacket(s, b) PROVE NeverStranded'
  BY <1>4 DEF EventPacket, NeverStranded, guards, workers
<1>5. ASSUME NEW s \in Uids, NEW current \in BOOLEAN, NEW timed \in BOOLEAN, RacePacket(s, current, timed) PROVE NeverStranded'
  BY <1>5 DEF RacePacket, NeverStranded, session
<1>6. ASSUME NEW w \in Workers, NEW ok \in BOOLEAN, UploadReturns(w, ok) PROVE NeverStranded'
  BY <1>6 DEF UploadReturns, NeverStranded, TypeOK
<1>7. ASSUME NEW w \in Workers, WorkerEnds(w) PROVE NeverStranded'
  BY <1>7 DEF WorkerEnds, Resettable, ResetSession, NeverStranded, session, guards
<1>8. ASSUME Sample PROVE NeverStranded'
  BY <1>8 DEF Sample, NeverStranded, session, guards, workers
<1>9. ASSUME StopListening PROVE NeverStranded'
  BY <1>9 DEF StopListening, NeverStranded, session, guards, workers
<1>10. ASSUME StopCapture PROVE NeverStranded'
  BY <1>10 DEF StopCapture, NeverStranded, session, guards, workers
<1>11. CASE UNCHANGED vars
  BY <1>11 DEF vars, session, guards, workers, NeverStranded
<1> QED
  BY <1>1, <1>2, <1>3, <1>4, <1>5, <1>6, <1>7, <1>8, <1>9, <1>10, <1>11 DEF Next, Worker

\* The guard's sets change together with the threads they stand for.
LEMMA UploadedOnceStep == TypeOK /\ UploadedOnce /\ [Next]_vars => UploadedOnce'
<1> SUFFICES ASSUME TypeOK, UploadedOnce, [Next]_vars PROVE UploadedOnce'
  OBVIOUS
<1> USE NoUidAssumption
<1>1. ASSUME NEW s \in Uids, NEW kind \in Kinds, SessionPacket(s, kind) PROVE UploadedOnce'
  BY <1>1 DEF SessionPacket, UploadedOnce, guards, workers
<1>2. ASSUME NEW s \in Uids, ParticipantsPacket(s) PROVE UploadedOnce'
  BY <1>2 DEF ParticipantsPacket, UploadedOnce, guards, workers
<1>3. ASSUME NEW s \in Uids, FinalPacket(s) PROVE UploadedOnce'
  BY <1>3 DEF FinalPacket, AlreadyTaken, Capturing, ResetSession, UploadedOnce, TypeOK, Uids, Contexts, NoContext, workers
<1>4. ASSUME NEW s \in Uids, NEW b \in BOOLEAN, EventPacket(s, b) PROVE UploadedOnce'
  BY <1>4 DEF EventPacket, UploadedOnce, guards, workers
<1>5. ASSUME NEW s \in Uids, NEW current \in BOOLEAN, NEW timed \in BOOLEAN, RacePacket(s, current, timed) PROVE UploadedOnce'
  BY <1>5 DEF RacePacket, UploadedOnce, guards, workers
<1>6. ASSUME NEW w \in Workers, NEW ok \in BOOLEAN, UploadReturns(w, ok) PROVE UploadedOnce'
  BY <1>6 DEF UploadReturns, UploadedOnce, TypeOK
<1>7. ASSUME NEW w \in Workers, WorkerEnds(w) PROVE UploadedOnce'
  BY <1>7 DEF WorkerEnds, UploadedOnce, guards
<1>8. ASSUME Sample PROVE UploadedOnce'
  BY <1>8 DEF Sample, UploadedOnce, guards, workers
<1>9. ASSUME StopListening PROVE UploadedOnce'
  BY <1>9 DEF StopListening, UploadedOnce, guards, workers
<1>10. ASSUME StopCapture PROVE UploadedOnce'
  BY <1>10 DEF StopCapture, UploadedOnce, guards, workers
<1>11. CASE UNCHANGED vars
  BY <1>11 DEF vars, guards, workers, UploadedOnce
<1> QED
  BY <1>1, <1>2, <1>3, <1>4, <1>5, <1>6, <1>7, <1>8, <1>9, <1>10, <1>11 DEF Next, Worker

\* The invariant holds at the start ...
LEMMA InvInit == Init => RuntimeInv
<1> SUFFICES ASSUME Init PROVE RuntimeInv
  OBVIOUS
<1>1. TypeOK
  BY DEF Init, TypeOK, Uids, States, NoContext
<1>2. \A w \in Workers : phase[w] = "idle"
  BY DEF Init
<1>3. Gathered /\ OwnDataOnly /\ RaceCollects /\ NeverStranded /\ OverIsStill
  BY <1>2 DEF Init, Gathered, OwnDataOnly, RaceCollects, NeverStranded, OverIsStill
<1>4. WorkersNamed
  BY <1>2 DEF WorkersNamed
<1>5. UploadedOnce
  BY <1>2 DEF Init, UploadedOnce
<1> QED
  BY <1>1, <1>3, <1>4, <1>5 DEF RuntimeInv

\* ... and every step keeps it, part by part.
LEMMA InvStep == RuntimeInv /\ [Next]_vars => RuntimeInv'
  BY TypeStep, GatheredStep, OwnDataStep, RaceCollectsStep, NeverStrandedStep, UploadedOnceStep,
     WorkersNamedStep, OverIsStillStep
  DEF RuntimeInv

\* All the invariants below, for any number of sessions and upload threads.
THEOREM RuntimeInvariant == Spec => []RuntimeInv
  BY InvInit, InvStep, PTL DEF Spec

\* No snapshot and no payload ever mixes sessions.
THEOREM DataIsOwn == Spec => []OwnDataOnly
<1>1. RuntimeInv => OwnDataOnly
  BY DEF RuntimeInv
<1> QED
  BY <1>1, RuntimeInvariant, PTL

\* The sampler runs exactly during races.
THEOREM RacesAreCollected == Spec => []RaceCollects
<1>1. RuntimeInv => RaceCollects
  BY DEF RuntimeInv
<1> QED
  BY <1>1, RuntimeInvariant, PTL

\* A finished session always has a thread left that can end it.
THEOREM FinishedHasWorker == Spec => []NeverStranded
<1>1. RuntimeInv => NeverStranded
  BY DEF RuntimeInv
<1> QED
  BY <1>1, RuntimeInvariant, PTL

\* A session is uploaded by one thread at a time and never after it succeeded.
THEOREM UploadsAreExclusive == Spec => []UploadedOnce
<1>1. RuntimeInv => UploadedOnce
  BY DEF RuntimeInv
<1> QED
  BY <1>1, RuntimeInvariant, PTL

\* The end of an upload thread never touches a capture that is running.
THEOREM CapturesAreSpared == Spec => WorkersSpareCapture
<1> DEFINE Spared == \A w \in Workers :
      phase[w] = "settled" /\ phase'[w] = "idle" /\ collecting => UNCHANGED <<session, capture>>
<1>1. RuntimeInv /\ [Next]_vars => Spared
  <2> SUFFICES ASSUME RuntimeInv, [Next]_vars, NEW w \in Workers,
                      phase[w] = "settled", phase'[w] = "idle", collecting
               PROVE  UNCHANGED <<session, capture>>
    OBVIOUS
  <2>1. state \notin {"finished", "uploaded"}
    BY DEF RuntimeInv, OverIsStill
  <2>2. PICK v \in Workers : WorkerEnds(v)
    BY DEF RuntimeInv, TypeOK, Next, Worker, SessionPacket, ParticipantsPacket, FinalPacket, EventPacket, 
       RacePacket, UploadReturns, Sample, StopListening, StopCapture, vars, workers
  <2> QED
    BY <2>1, <2>2 DEF WorkerEnds, Resettable
<1>2. RuntimeInv /\ [Next]_vars => [Spared]_vars
  BY <1>1
<1> QED
  BY <1>2, RuntimeInvariant, PTL DEF Spec, WorkersSpareCapture

=============================================================================
