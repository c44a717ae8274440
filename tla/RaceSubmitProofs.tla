-------------------------- MODULE RaceSubmitProofs --------------------------
(***************************************************************************)
(* Proofs about RaceSubmit, for any number of concurrent requests,         *)
(* sessions, tracks and crashes and for any calendar: the inductive        *)
(* invariant SubmitInv, the invariants it contains or implies, and that    *)
(* the handler implements RaceRegistry.  The argument is the one of the    *)
(* unique index: a row is inserted only if no other row with its           *)
(* session_uid is in the table or on its way to it (RowsApart), so every   *)
(* session has one race at most (RacesApart), and whoever finds a race has *)
(* found the one there is.                                                 *)
(***************************************************************************)
EXTENDS RaceSubmit, FiniteSetTheorems, TLAPS

\* A reply has the type of a reply.
LEMMA AnswerType ==
  ASSUME TypeOK, NEW r \in Requests, NEW status \in Statuses, NEW id \in RaceIds \cup {NoRace}, Answer(r, status, id)
  PROVE  /\ reply' \in [Requests -> [status : Statuses, id : RaceIds \cup {NoRace}]]
         /\ pc' \in [Requests -> Labels]
  BY DEF TypeOK, Answer, Goto, Labels

\* The id of a session is that of a race of that session, if there is one.
LEMMA IdOfRace ==
  ASSUME NEW u, Known(u)
  PROVE  \E race \in races : race.uid = u /\ race.id = IdOf(u)
<1> DEFINE chosen == CHOOSE race \in RacesOf(u) : TRUE
<1>1. chosen \in RacesOf(u)
  BY DEF Known
<1>2. IdOf(u) = chosen.id
  BY DEF IdOf
<1> HIDE DEF chosen
<1> QED
  BY <1>1, <1>2 DEF RacesOf

\* An id that a handler reports is one, or none.
LEMMA IdOfType ==
  ASSUME TypeOK, NEW u
  PROVE  IdOf(u) \in RaceIds \cup {NoRace}
<1>1. CASE Known(u)
  BY <1>1, IdOfRace DEF TypeOK, Row
<1>2. CASE ~Known(u)
  BY <1>2 DEF IdOf
<1> QED
  BY <1>1, <1>2

\* A detected round is a number.
LEMMA DetectedRoundType ==
  ASSUME TypeOK, NEW t
  PROVE  DetectedRound(t) \in Nat
  BY ConstantsAssumption, FS_CardinalityType DEF TypeOK, DetectedRound

\* A commit adds one race, that of its row.
LEMMA CommitAdds ==
  ASSUME TypeOK, RowsApart, NEW r \in Requests, pc[r] = "commit", CommitRow(r)
  PROVE  \E new \in Row : /\ new.id = row[r] /\ new.uid = uid[r]
                          /\ new.track = track[uid[r]] /\ new.round = round[r]
                          /\ races' = races \cup {new}
<1> DEFINE new == [id |-> row[r], uid |-> uid[r], track |-> track[uid[r]], round |-> round[r], recent |-> TRUE]
<1>1. row[r] \in RaceIds /\ uid[r] \in Uids /\ track[uid[r]] \in Tracks /\ round[r] \in Nat
  BY DEF TypeOK, RowsApart
<1>2. new \in Row
  BY <1>1 DEF Row
<1>3. races' = races \cup {new}
  BY DEF CommitRow
<1> QED
  BY <1>2, <1>3

\* Time changes nothing but how recent a race is.
LEMMA AgeKeeps ==
  ASSUME TypeOK, NEW old \in races, Age(old)
  PROVE  \E new \in Row : /\ new.id = old.id /\ new.uid = old.uid
                          /\ new.track = old.track /\ new.round = old.round
                          /\ races' = (races \ {old}) \cup {new}
<1> DEFINE new == [old EXCEPT !.recent = FALSE]
<1>1. old \in Row
  BY DEF TypeOK
<1>2. new \in Row /\ new.id = old.id /\ new.uid = old.uid /\ new.track = old.track /\ new.round = old.round
  BY <1>1 DEF Row
<1>3. races' = (races \ {old}) \cup {new}
  BY DEF Age
<1> QED
  BY <1>2, <1>3

\* Every step keeps the types.
LEMMA TypeStep == TypeOK /\ RowsApart /\ CreatedTrue /\ RepliesTrue /\ [Next]_vars => TypeOK'
<1> SUFFICES ASSUME TypeOK, RowsApart, CreatedTrue, RepliesTrue, [Next]_vars PROVE TypeOK'
  OBVIOUS
<1> USE ConstantsAssumption
<1>1. ASSUME NEW r \in Requests, Send(r) PROVE TypeOK'
  BY <1>1 DEF Send, Goto, TypeOK, Labels, NoReply, Statuses
<1>2. ASSUME NEW r \in Requests, CheckDuplicate(r) PROVE TypeOK'
  <2>1. CASE Known(uid[r])
    <3>1. Answer(r, "duplicate", IdOf(uid[r]))
      BY <1>2, <2>1 DEF CheckDuplicate
    <3>2. "duplicate" \in Statuses
      BY DEF Statuses
    <3> QED
      BY <1>2, <3>1, <3>2, AnswerType, IdOfType DEF CheckDuplicate, TypeOK
  <2>2. CASE ~Known(uid[r])
    BY <1>2, <2>2 DEF CheckDuplicate, Goto, TypeOK, Labels
  <2> QED
    BY <2>1, <2>2
<1>3. ASSUME NEW r \in Requests, DetectDuplicate(r) PROVE TypeOK'
  BY <1>3 DEF DetectDuplicate, Goto, TypeOK, Labels, NoReply, Statuses
<1>4. ASSUME NEW r \in Requests, DetectRound(r) PROVE TypeOK'
  BY <1>4, DetectedRoundType DEF DetectRound, Goto, TypeOK, Labels
<1>5. ASSUME NEW r \in Requests, InsertConflicts(r) PROVE TypeOK'
  BY <1>5 DEF InsertConflicts, Goto, TypeOK, Labels, NoReply, Statuses
<1>6. ASSUME NEW r \in Requests, Reload(r) PROVE TypeOK'
  <2>1. PICK status \in Statuses, id \in RaceIds \cup {NoRace} : Answer(r, status, id)
    BY <1>6, IdOfType DEF Reload, Statuses
  <2> QED
    BY <1>6, <2>1, AnswerType DEF Reload, TypeOK
<1>7. ASSUME NEW r \in Requests, Commit(r) PROVE TypeOK'
  <2>1. PICK new \in Row : races' = races \cup {new}
    BY <1>7, CommitAdds DEF Commit
  <2> QED
    BY <1>7, <2>1, FS_AddElement DEF Commit, Goto, TypeOK, Labels
<1>8. ASSUME NEW r \in Requests, CommitRaises(r) PROVE TypeOK'
  <2>1. "error" \in Statuses
    BY DEF Statuses
  <2> QED
    BY <1>8, <2>1, AnswerType DEF CommitRaises, TypeOK
<1>9. ASSUME NEW r \in Requests, ReplyCreated(r) PROVE TypeOK'
  <2>1. "ok" \in Statuses /\ row[r] \in RaceIds \cup {NoRace}
    BY DEF Statuses, TypeOK
  <2> QED
    BY <1>9, <2>1, AnswerType DEF ReplyCreated, TypeOK
<1>10. ASSUME NEW r \in Requests, RunJobs(r) PROVE TypeOK'
  <2>1. \E race \in races : race.id = reply[r].id
    BY <1>10 DEF RunJobs, CreatedTrue, RepliesTrue
  <2>2. <<r, reply[r].id>> \in Requests \X RaceIds
    BY <2>1 DEF TypeOK, Row
  <2> QED
    BY <1>10, <2>2 DEF RunJobs, Goto, TypeOK, Labels
<1>11. ASSUME NEW r \in Requests, NEW id \in RaceIds, Insert(r, id) PROVE TypeOK'
  BY <1>11 DEF Insert, Goto, TypeOK, Labels, NoReply, Statuses
<1>12. ASSUME NEW r \in Requests, CommitUnanswered(r) PROVE TypeOK'
  <2>1. PICK new \in Row : races' = races \cup {new}
    BY <1>12, CommitAdds DEF CommitUnanswered
  <2> QED
    BY <1>12, <2>1, FS_AddElement DEF CommitUnanswered, Goto, TypeOK, Labels
<1>13. ASSUME NEW r \in Requests, Fails(r) PROVE TypeOK'
  <2>1. "error" \in Statuses
    BY DEF Statuses
  <2> QED
    BY <1>13, <2>1, AnswerType DEF Fails, TypeOK
<1>14. ASSUME NEW old \in races, Age(old) PROVE TypeOK'
  <2>1. PICK new \in Row : races' = (races \ {old}) \cup {new}
    BY <1>14, AgeKeeps
  <2>2. IsFiniteSet(races')
    BY <2>1, FS_AddElement, FS_RemoveElement DEF TypeOK
  <2> QED
    BY <1>14, <2>1, <2>2 DEF Age, TypeOK
<1>15. ASSUME Crash PROVE TypeOK'
  BY <1>15 DEF Crash, TypeOK, Labels, NoReply, Statuses
<1>16. CASE UNCHANGED vars
  BY <1>16 DEF vars, TypeOK, Labels, NoReply, Statuses
<1>17. ASSUME NEW r \in Requests, CommitConflicts(r) PROVE TypeOK'
  BY <1>17 DEF CommitConflicts, Goto, TypeOK, Labels, NoReply, Statuses
<1> QED
  BY <1>1, <1>2, <1>3, <1>4, <1>5, <1>6, <1>7, <1>8, <1>9, <1>10, <1>11, <1>12, <1>13, <1>14, <1>15, <1>16, <1>17 DEF Next, Handler

\* Only rows of new sessions, with new ids, are committed.
LEMMA RacesApartStep == TypeOK /\ RowsApart /\ RacesApart /\ [Next]_vars => RacesApart'
<1> SUFFICES ASSUME TypeOK, RowsApart, RacesApart, [Next]_vars PROVE RacesApart'
  OBVIOUS
<1> USE ConstantsAssumption
<1>1. ASSUME NEW r \in Requests, Send(r) PROVE RacesApart'
  BY <1>1 DEF Send, Goto, RacesApart, RowsApart
<1>2. ASSUME NEW r \in Requests, CheckDuplicate(r) PROVE RacesApart'
  BY <1>2 DEF CheckDuplicate, Goto, Answer, RacesApart, RowsApart
<1>3. ASSUME NEW r \in Requests, DetectDuplicate(r) PROVE RacesApart'
  BY <1>3 DEF DetectDuplicate, Goto, RacesApart, RowsApart
<1>4. ASSUME NEW r \in Requests, DetectRound(r) PROVE RacesApart'
  BY <1>4 DEF DetectRound, Goto, RacesApart, RowsApart
<1>5. ASSUME NEW r \in Requests, InsertConflicts(r) PROVE RacesApart'
  BY <1>5 DEF InsertConflicts, Goto, RacesApart, RowsApart
<1>6. ASSUME NEW r \in Requests, Reload(r) PROVE RacesApart'
  BY <1>6 DEF Reload, Goto, Answer, RacesApart, RowsApart
<1>7. ASSUME NEW r \in Requests, Commit(r) PROVE RacesApart'
  <2>1. PICK new \in Row : /\ new.id = row[r] /\ new.uid = uid[r]
                            /\ races' = races \cup {new}
    BY <1>7, CommitAdds DEF Commit
  <2> QED
    BY <1>7, <2>1 DEF Commit, RacesApart, RowsApart
<1>8. ASSUME NEW r \in Requests, CommitRaises(r) PROVE RacesApart'
  BY <1>8 DEF CommitRaises, Goto, Answer, RacesApart, RowsApart
<1>9. ASSUME NEW r \in Requests, ReplyCreated(r) PROVE RacesApart'
  BY <1>9 DEF ReplyCreated, Goto, Answer, RacesApart, RowsApart
<1>10. ASSUME NEW r \in Requests, RunJobs(r) PROVE RacesApart'
  BY <1>10 DEF RunJobs, Goto, RacesApart, RowsApart
<1>11. ASSUME NEW r \in Requests, NEW id \in RaceIds, Insert(r, id) PROVE RacesApart'
  BY <1>11 DEF Insert, Goto, RacesApart, RowsApart
<1>12. ASSUME NEW r \in Requests, CommitUnanswered(r) PROVE RacesApart'
  <2>1. PICK new \in Row : /\ new.id = row[r] /\ new.uid = uid[r]
                            /\ races' = races \cup {new}
    BY <1>12, CommitAdds DEF CommitUnanswered
  <2> QED
    BY <1>12, <2>1 DEF CommitUnanswered, RacesApart, RowsApart
<1>13. ASSUME NEW r \in Requests, Fails(r) PROVE RacesApart'
  BY <1>13 DEF Fails, Goto, Answer, RacesApart, RowsApart
<1>14. ASSUME NEW old \in races, Age(old) PROVE RacesApart'
  <2>1. PICK new \in Row : /\ new.id = old.id /\ new.uid = old.uid
                            /\ new.track = old.track /\ new.round = old.round
                            /\ races' = (races \ {old}) \cup {new}
    BY <1>14, AgeKeeps
  <2> QED
    BY <1>14, <2>1 DEF Age, RacesApart
<1>15. ASSUME Crash PROVE RacesApart'
  BY <1>15 DEF Crash, RacesApart, RowsApart
<1>16. CASE UNCHANGED vars
  BY <1>16 DEF vars, RacesApart, RowsApart
<1>17. ASSUME NEW r \in Requests, CommitConflicts(r) PROVE RacesApart'
  BY <1>17 DEF CommitConflicts, Goto, RacesApart, RowsApart
<1> QED
  BY <1>1, <1>2, <1>3, <1>4, <1>5, <1>6, <1>7, <1>8, <1>9, <1>10, <1>11, <1>12, <1>13, <1>14, <1>15, <1>16, <1>17 DEF Next, Handler

\* The unique index keeps rows on their way apart.
LEMMA RowsApartStep == TypeOK /\ RowsApart /\ [Next]_vars => RowsApart'
<1> SUFFICES ASSUME TypeOK, RowsApart, [Next]_vars PROVE RowsApart'
  OBVIOUS
<1> USE ConstantsAssumption
<1>1. ASSUME NEW r \in Requests, Send(r) PROVE RowsApart'
  BY <1>1 DEF Send, Goto, RowsApart, TypeOK
<1>2. ASSUME NEW r \in Requests, CheckDuplicate(r) PROVE RowsApart'
  BY <1>2 DEF CheckDuplicate, Goto, Answer, RowsApart, TypeOK
<1>3. ASSUME NEW r \in Requests, DetectDuplicate(r) PROVE RowsApart'
  BY <1>3 DEF DetectDuplicate, Goto, RowsApart, TypeOK
<1>4. ASSUME NEW r \in Requests, DetectRound(r) PROVE RowsApart'
  BY <1>4 DEF DetectRound, Goto, RowsApart, TypeOK
<1>5. ASSUME NEW r \in Requests, InsertConflicts(r) PROVE RowsApart'
  BY <1>5 DEF InsertConflicts, Goto, RowsApart, TypeOK
<1>6. ASSUME NEW r \in Requests, Reload(r) PROVE RowsApart'
  BY <1>6 DEF Reload, Goto, Answer, RowsApart, TypeOK
<1>7. ASSUME NEW r \in Requests, Commit(r) PROVE RowsApart'
  BY <1>7 DEF Commit, Goto, CommitRow, RowsApart, TypeOK
<1>8. ASSUME NEW r \in Requests, CommitRaises(r) PROVE RowsApart'
  BY <1>8 DEF CommitRaises, Goto, Answer, RowsApart, TypeOK
<1>9. ASSUME NEW r \in Requests, ReplyCreated(r) PROVE RowsApart'
  BY <1>9 DEF ReplyCreated, Goto, Answer, RowsApart, TypeOK
<1>10. ASSUME NEW r \in Requests, RunJobs(r) PROVE RowsApart'
  BY <1>10 DEF RunJobs, Goto, RowsApart, TypeOK
<1>11. ASSUME NEW r \in Requests, NEW id \in RaceIds, Insert(r, id) PROVE RowsApart'
  <2>1. (\A p \in Requests : row[p] # NoRace <=> pc[p] \in {"commit", "reply"})'
    BY <1>11 DEF Insert, Goto, RowsApart, TypeOK, Known, RacesOf
  <2>2. (\A q, p \in Requests : row[p] # NoRace /\ row[q] = row[p] => q = p)'
    BY <1>11 DEF Insert, Goto, RowsApart, TypeOK, Known, RacesOf
  <2>3. (\A q, p \in Requests : pc[p] = "commit" /\ pc[q] = "commit" /\ uid[q] = uid[p] => q = p)'
    BY <1>11 DEF Insert, Goto, RowsApart, TypeOK, Known, RacesOf
  <2>4. (\A p \in Requests : pc[p] = "commit" => \A race \in races : race.uid # uid[p] /\ race.id # row[p])'
    BY <1>11 DEF Insert, Goto, RowsApart, TypeOK, Known, RacesOf
  <2> QED
    BY <2>1, <2>2, <2>3, <2>4 DEF RowsApart
<1>12. ASSUME NEW r \in Requests, CommitUnanswered(r) PROVE RowsApart'
  BY <1>12 DEF CommitUnanswered, Goto, CommitRow, RowsApart, TypeOK
<1>13. ASSUME NEW r \in Requests, Fails(r) PROVE RowsApart'
  BY <1>13 DEF Fails, Goto, Answer, RowsApart, TypeOK
<1>14. ASSUME NEW old \in races, Age(old) PROVE RowsApart'
  <2>1. PICK new \in Row : /\ new.id = old.id /\ new.uid = old.uid
                            /\ new.track = old.track /\ new.round = old.round
                            /\ races' = (races \ {old}) \cup {new}
    BY <1>14, AgeKeeps
  <2> QED
    BY <1>14, <2>1 DEF Age, RowsApart
<1>15. ASSUME Crash PROVE RowsApart'
  BY <1>15 DEF Crash, RowsApart, TypeOK
<1>16. CASE UNCHANGED vars
  BY <1>16 DEF vars, RowsApart, TypeOK
<1>17. ASSUME NEW r \in Requests, CommitConflicts(r) PROVE RowsApart'
  BY <1>17 DEF CommitConflicts, Goto, RowsApart, TypeOK
<1> QED
  BY <1>1, <1>2, <1>3, <1>4, <1>5, <1>6, <1>7, <1>8, <1>9, <1>10, <1>11, <1>12, <1>13, <1>14, <1>15, <1>16, <1>17 DEF Next, Handler

\* Only the handler whose row was committed says that it created the race.
LEMMA CreatedTrueStep == TypeOK /\ RowsApart /\ RepliesTrue /\ CreatedTrue /\ [Next]_vars => CreatedTrue'
<1> SUFFICES ASSUME TypeOK, RowsApart, RepliesTrue, CreatedTrue, [Next]_vars PROVE CreatedTrue'
  OBVIOUS
<1> USE ConstantsAssumption
<1>1. ASSUME NEW r \in Requests, Send(r) PROVE CreatedTrue'
  BY <1>1 DEF Send, Goto, CreatedTrue, RowsApart, RepliesTrue, TypeOK, NoReply
<1>2. ASSUME NEW r \in Requests, CheckDuplicate(r) PROVE CreatedTrue'
  <2>1. (\A p \in Requests : pc[p] = "reply" => \E race \in races : race.id = row[p] /\ race.uid = uid[p])'
    BY <1>2 DEF CheckDuplicate, Goto, Answer, CreatedTrue, RowsApart, RepliesTrue, TypeOK, NoReply
  <2>2. (\A p \in Requests : pc[p] = "jobs" => reply[p].status = "ok")'
    BY <1>2 DEF CheckDuplicate, Goto, Answer, CreatedTrue, RowsApart, RepliesTrue, TypeOK, NoReply
  <2>3. (\A q, p \in Requests : reply[q].status = "ok" /\ row[p] # NoRace => reply[q].id # row[p])'
    BY <1>2 DEF CheckDuplicate, Goto, Answer, CreatedTrue, RowsApart, RepliesTrue, TypeOK, NoReply
  <2>4. (\A q, p \in Requests : reply[q].status = "ok" /\ reply[p].status = "ok" /\ reply[q].id = reply[p].id => q = p)'
    BY <1>2 DEF CheckDuplicate, Goto, Answer, CreatedTrue, RowsApart, RepliesTrue, TypeOK, NoReply
  <2>5. (\A p \in Requests : pc[p] \notin {"jobs", "done"} => reply[p] = NoReply)'
    BY <1>2 DEF CheckDuplicate, Goto, Answer, CreatedTrue, RowsApart, RepliesTrue, TypeOK, NoReply
  <2> QED
    BY <2>1, <2>2, <2>3, <2>4, <2>5 DEF CreatedTrue
<1>3. ASSUME NEW r \in Requests, DetectDuplicate(r) PROVE CreatedTrue'
  BY <1>3 DEF DetectDuplicate, Goto, CreatedTrue, RowsApart, RepliesTrue, TypeOK, NoReply
<1>4. ASSUME NEW r \in Requests, DetectRound(r) PROVE CreatedTrue'
  BY <1>4 DEF DetectRound, Goto, CreatedTrue, RowsApart, RepliesTrue, TypeOK, NoReply
<1>5. ASSUME NEW r \in Requests, InsertConflicts(r) PROVE CreatedTrue'
  BY <1>5 DEF InsertConflicts, Goto, CreatedTrue, RowsApart, RepliesTrue, TypeOK, NoReply
<1>6. ASSUME NEW r \in Requests, Reload(r) PROVE CreatedTrue'
  <2>1. (\A p \in Requests : pc[p] = "reply" => \E race \in races : race.id = row[p] /\ race.uid = uid[p])'
    BY <1>6 DEF Reload, Goto, Answer, CreatedTrue, RowsApart, RepliesTrue, TypeOK, NoReply
  <2>2. (\A p \in Requests : pc[p] = "jobs" => reply[p].status = "ok")'
    BY <1>6 DEF Reload, Goto, Answer, CreatedTrue, RowsApart, RepliesTrue, TypeOK, NoReply
  <2>3. (\A q, p \in Requests : reply[q].status = "ok" /\ row[p] # NoRace => reply[q].id # row[p])'
    BY <1>6 DEF Reload, Goto, Answer, CreatedTrue, RowsApart, RepliesTrue, TypeOK, NoReply
  <2>4. (\A q, p \in Requests : reply[q].status = "ok" /\ reply[p].status = "ok" /\ reply[q].id = reply[p].id => q = p)'
    BY <1>6 DEF Reload, Goto, Answer, CreatedTrue, RowsApart, RepliesTrue, TypeOK, NoReply
  <2>5. (\A p \in Requests : pc[p] \notin {"jobs", "done"} => reply[p] = NoReply)'
    BY <1>6 DEF Reload, Goto, Answer, CreatedTrue, RowsApart, RepliesTrue, TypeOK, NoReply
  <2> QED
    BY <2>1, <2>2, <2>3, <2>4, <2>5 DEF CreatedTrue
<1>7. ASSUME NEW r \in Requests, Commit(r) PROVE CreatedTrue'
  <2>1. PICK new \in Row : /\ new.id = row[r] /\ new.uid = uid[r]
                            /\ races' = races \cup {new}
    BY <1>7, CommitAdds DEF Commit
  <2>2. (\A p \in Requests : pc[p] = "reply" => \E race \in races : race.id = row[p] /\ race.uid = uid[p])'
    BY <1>7, <2>1 DEF Commit, Goto, CommitRow, CreatedTrue, RowsApart, RepliesTrue, TypeOK, NoReply
  <2>3. (\A p \in Requests : pc[p] = "jobs" => reply[p].status = "ok")'
    BY <1>7, <2>1 DEF Commit, Goto, CommitRow, CreatedTrue, RowsApart, RepliesTrue, TypeOK, NoReply
  <2>4. (\A q, p \in Requests : reply[q].status = "ok" /\ row[p] # NoRace => reply[q].id # row[p])'
    BY <1>7, <2>1 DEF Commit, Goto, CommitRow, CreatedTrue, RowsApart, RepliesTrue, TypeOK, NoReply
  <2>5. (\A q, p \in Requests : reply[q].status = "ok" /\ reply[p].status = "ok" /\ reply[q].id = reply[p].id => q = p)'
    BY <1>7, <2>1 DEF Commit, Goto, CommitRow, CreatedTrue, RowsApart, RepliesTrue, TypeOK, NoReply
  <2>6. (\A p \in Requests : pc[p] \notin {"jobs", "done"} => reply[p] = NoReply)'
    BY <1>7, <2>1 DEF Commit, Goto, CommitRow, CreatedTrue, RowsApart, RepliesTrue, TypeOK, NoReply
  <2> QED
    BY <2>2, <2>3, <2>4, <2>5, <2>6 DEF CreatedTrue
<1>8. ASSUME NEW r \in Requests, CommitRaises(r) PROVE CreatedTrue'
  BY <1>8 DEF CommitRaises, Goto, Answer, CreatedTrue, RowsApart, RepliesTrue, TypeOK, NoReply
<1>9. ASSUME NEW r \in Requests, ReplyCreated(r) PROVE CreatedTrue'
  BY <1>9 DEF ReplyCreated, Goto, Answer, CreatedTrue, RowsApart, RepliesTrue, TypeOK, NoReply
<1>10. ASSUME NEW r \in Requests, RunJobs(r) PROVE CreatedTrue'
  BY <1>10 DEF RunJobs, Goto, CreatedTrue, RowsApart, RepliesTrue, TypeOK, NoReply
<1>11. ASSUME NEW r \in Requests, NEW id \in RaceIds, Insert(r, id) PROVE CreatedTrue'
  <2>1. (\A p \in Requests : pc[p] = "reply" => \E race \in races : race.id = row[p] /\ race.uid = uid[p])'
    BY <1>11 DEF Insert, Goto, CreatedTrue, RowsApart, RepliesTrue, TypeOK, NoReply
  <2>2. (\A p \in Requests : pc[p] = "jobs" => reply[p].status = "ok")'
    BY <1>11 DEF Insert, Goto, CreatedTrue, RowsApart, RepliesTrue, TypeOK, NoReply
  <2>3. (\A q, p \in Requests : reply[q].status = "ok" /\ row[p] # NoRace => reply[q].id # row[p])'
    BY <1>11 DEF Insert, Goto, CreatedTrue, RowsApart, RepliesTrue, TypeOK, NoReply
  <2>4. (\A q, p \in Requests : reply[q].status = "ok" /\ reply[p].status = "ok" /\ reply[q].id = reply[p].id => q = p)'
    BY <1>11 DEF Insert, Goto, CreatedTrue, RowsApart, RepliesTrue, TypeOK, NoReply
  <2>5. (\A p \in Requests : pc[p] \notin {"jobs", "done"} => reply[p] = NoReply)'
    BY <1>11 DEF Insert, Goto, CreatedTrue, RowsApart, RepliesTrue, TypeOK, NoReply
  <2> QED
    BY <2>1, <2>2, <2>3, <2>4, <2>5 DEF CreatedTrue
<1>12. ASSUME NEW r \in Requests, CommitUnanswered(r) PROVE CreatedTrue'
  BY <1>12 DEF CommitUnanswered, Goto, CommitRow, CreatedTrue, RowsApart, RepliesTrue, TypeOK, NoReply
<1>13. ASSUME NEW r \in Requests, Fails(r) PROVE CreatedTrue'
  <2>1. (\A p \in Requests : pc[p] = "reply" => \E race \in races : race.id = row[p] /\ race.uid = uid[p])'
    BY <1>13 DEF Fails, Goto, Answer, CreatedTrue, RowsApart, RepliesTrue, TypeOK, NoReply
  <2>2. (\A p \in Requests : pc[p] = "jobs" => reply[p].status = "ok")'
    BY <1>13 DEF Fails, Goto, Answer, CreatedTrue, RowsApart, RepliesTrue, TypeOK, NoReply
  <2>3. (\A q, p \in Requests : reply[q].status = "ok" /\ row[p] # NoRace => reply[q].id # row[p])'
    BY <1>13 DEF Fails, Goto, Answer, CreatedTrue, RowsApart, RepliesTrue, TypeOK, NoReply
  <2>4. (\A q, p \in Requests : reply[q].status = "ok" /\ reply[p].status = "ok" /\ reply[q].id = reply[p].id => q = p)'
    BY <1>13 DEF Fails, Goto, Answer, CreatedTrue, RowsApart, RepliesTrue, TypeOK, NoReply
  <2>5. (\A p \in Requests : pc[p] \notin {"jobs", "done"} => reply[p] = NoReply)'
    BY <1>13 DEF Fails, Goto, Answer, CreatedTrue, RowsApart, RepliesTrue, TypeOK, NoReply
  <2> QED
    BY <2>1, <2>2, <2>3, <2>4, <2>5 DEF CreatedTrue
<1>14. ASSUME NEW old \in races, Age(old) PROVE CreatedTrue'
  <2>1. PICK new \in Row : /\ new.id = old.id /\ new.uid = old.uid
                            /\ new.track = old.track /\ new.round = old.round
                            /\ races' = (races \ {old}) \cup {new}
    BY <1>14, AgeKeeps
  <2> QED
    BY <1>14, <2>1 DEF Age, CreatedTrue
<1>15. ASSUME Crash PROVE CreatedTrue'
  BY <1>15 DEF Crash, CreatedTrue, RowsApart, RepliesTrue, TypeOK, NoReply
<1>16. CASE UNCHANGED vars
  BY <1>16 DEF vars, CreatedTrue, RowsApart, RepliesTrue, TypeOK, NoReply
<1>17. ASSUME NEW r \in Requests, CommitConflicts(r) PROVE CreatedTrue'
  <2>1. (\A p \in Requests : pc[p] = "reply" => \E race \in races : race.id = row[p] /\ race.uid = uid[p])'
    BY <1>17 DEF CommitConflicts, Goto, Answer, CreatedTrue, RowsApart, RepliesTrue, TypeOK, NoReply
  <2>2. (\A p \in Requests : pc[p] = "jobs" => reply[p].status = "ok")'
    BY <1>17 DEF CommitConflicts, Goto, Answer, CreatedTrue, RowsApart, RepliesTrue, TypeOK, NoReply
  <2>3. (\A q, p \in Requests : reply[q].status = "ok" /\ row[p] # NoRace => reply[q].id # row[p])'
    BY <1>17 DEF CommitConflicts, Goto, Answer, CreatedTrue, RowsApart, RepliesTrue, TypeOK, NoReply
  <2>4. (\A q, p \in Requests : reply[q].status = "ok" /\ reply[p].status = "ok" /\ reply[q].id = reply[p].id => q = p)'
    BY <1>17 DEF CommitConflicts, Goto, Answer, CreatedTrue, RowsApart, RepliesTrue, TypeOK, NoReply
  <2>5. (\A p \in Requests : pc[p] \notin {"jobs", "done"} => reply[p] = NoReply)'
    BY <1>17 DEF CommitConflicts, Goto, Answer, CreatedTrue, RowsApart, RepliesTrue, TypeOK, NoReply
  <2> QED
    BY <2>1, <2>2, <2>3, <2>4, <2>5 DEF CreatedTrue
<1> QED
  BY <1>1, <1>2, <1>3, <1>4, <1>5, <1>6, <1>7, <1>8, <1>9, <1>10, <1>11, <1>12, <1>13, <1>14, <1>15, <1>16, <1>17 DEF Next, Handler

\* Jobs are run for the race that was reported as created.
LEMMA RanTrueStep == TypeOK /\ CreatedTrue /\ RanTrue /\ [Next]_vars => RanTrue'
<1> SUFFICES ASSUME TypeOK, CreatedTrue, RanTrue, [Next]_vars PROVE RanTrue'
  OBVIOUS
<1> USE ConstantsAssumption
<1>1. ASSUME NEW r \in Requests, Send(r) PROVE RanTrue'
  BY <1>1 DEF Send, Goto, RanTrue, CreatedTrue, TypeOK, NoReply
<1>2. ASSUME NEW r \in Requests, CheckDuplicate(r) PROVE RanTrue'
  BY <1>2 DEF CheckDuplicate, Goto, Answer, RanTrue, CreatedTrue, TypeOK, NoReply
<1>3. ASSUME NEW r \in Requests, DetectDuplicate(r) PROVE RanTrue'
  BY <1>3 DEF DetectDuplicate, Goto, RanTrue, CreatedTrue, TypeOK, NoReply
<1>4. ASSUME NEW r \in Requests, DetectRound(r) PROVE RanTrue'
  BY <1>4 DEF DetectRound, Goto, RanTrue, CreatedTrue, TypeOK, NoReply
<1>5. ASSUME NEW r \in Requests, InsertConflicts(r) PROVE RanTrue'
  BY <1>5 DEF InsertConflicts, Goto, RanTrue, CreatedTrue, TypeOK, NoReply
<1>6. ASSUME NEW r \in Requests, Reload(r) PROVE RanTrue'
  BY <1>6 DEF Reload, Goto, Answer, RanTrue, CreatedTrue, TypeOK, NoReply
<1>7. ASSUME NEW r \in Requests, Commit(r) PROVE RanTrue'
  BY <1>7 DEF Commit, Goto, CommitRow, RanTrue, CreatedTrue, TypeOK, NoReply
<1>8. ASSUME NEW r \in Requests, CommitRaises(r) PROVE RanTrue'
  BY <1>8 DEF CommitRaises, Goto, Answer, RanTrue, CreatedTrue, TypeOK, NoReply
<1>9. ASSUME NEW r \in Requests, ReplyCreated(r) PROVE RanTrue'
  BY <1>9 DEF ReplyCreated, Goto, Answer, RanTrue, CreatedTrue, TypeOK, NoReply
<1>10. ASSUME NEW r \in Requests, RunJobs(r) PROVE RanTrue'
  BY <1>10 DEF RunJobs, Goto, RanTrue, CreatedTrue, TypeOK, NoReply
<1>11. ASSUME NEW r \in Requests, NEW id \in RaceIds, Insert(r, id) PROVE RanTrue'
  BY <1>11 DEF Insert, Goto, RanTrue, CreatedTrue, TypeOK, NoReply
<1>12. ASSUME NEW r \in Requests, CommitUnanswered(r) PROVE RanTrue'
  BY <1>12 DEF CommitUnanswered, Goto, CommitRow, RanTrue, CreatedTrue, TypeOK, NoReply
<1>13. ASSUME NEW r \in Requests, Fails(r) PROVE RanTrue'
  BY <1>13 DEF Fails, Goto, Answer, RanTrue, CreatedTrue, TypeOK, NoReply
<1>14. ASSUME NEW old \in races, Age(old) PROVE RanTrue'
  BY <1>14 DEF Age, RanTrue, CreatedTrue, TypeOK, NoReply
<1>15. ASSUME Crash PROVE RanTrue'
  BY <1>15 DEF Crash, RanTrue, CreatedTrue, TypeOK, NoReply
<1>16. CASE UNCHANGED vars
  BY <1>16 DEF vars, RanTrue, CreatedTrue, TypeOK, NoReply
<1>17. ASSUME NEW r \in Requests, CommitConflicts(r) PROVE RanTrue'
  BY <1>17 DEF CommitConflicts, Goto, RanTrue, CreatedTrue, TypeOK, NoReply
<1> QED
  BY <1>1, <1>2, <1>3, <1>4, <1>5, <1>6, <1>7, <1>8, <1>9, <1>10, <1>11, <1>12, <1>13, <1>14, <1>15, <1>16, <1>17 DEF Next, Handler

\* A detected round stays right while its track has no race.
LEMMA RoundsTrueStep == TypeOK /\ RoundsTrue /\ [Next]_vars => RoundsTrue'
<1> SUFFICES ASSUME TypeOK, RoundsTrue, [Next]_vars PROVE RoundsTrue'
  OBVIOUS
<1> USE ConstantsAssumption
<1>1. ASSUME NEW r \in Requests, Send(r) PROVE RoundsTrue'
  BY <1>1 DEF Send, Goto, RoundsTrue, Held, TypeOK
<1>2. ASSUME NEW r \in Requests, CheckDuplicate(r) PROVE RoundsTrue'
  BY <1>2 DEF CheckDuplicate, Goto, Answer, RoundsTrue, Held, TypeOK
<1>3. ASSUME NEW r \in Requests, DetectDuplicate(r) PROVE RoundsTrue'
  BY <1>3 DEF DetectDuplicate, Goto, RoundsTrue, Held, TypeOK
<1>4. ASSUME NEW r \in Requests, DetectRound(r) PROVE RoundsTrue'
  BY <1>4 DEF DetectRound, DetectedRound, Reconnects, Goto, RoundsTrue, Held, TypeOK
<1>5. ASSUME NEW r \in Requests, InsertConflicts(r) PROVE RoundsTrue'
  BY <1>5 DEF InsertConflicts, Goto, RoundsTrue, Held, TypeOK
<1>6. ASSUME NEW r \in Requests, Reload(r) PROVE RoundsTrue'
  BY <1>6 DEF Reload, Goto, Answer, RoundsTrue, Held, TypeOK
<1>7. ASSUME NEW r \in Requests, Commit(r) PROVE RoundsTrue'
  BY <1>7 DEF Commit, Goto, CommitRow, RoundsTrue, Held, TypeOK
<1>8. ASSUME NEW r \in Requests, CommitRaises(r) PROVE RoundsTrue'
  BY <1>8 DEF CommitRaises, Goto, Answer, RoundsTrue, Held, TypeOK
<1>9. ASSUME NEW r \in Requests, ReplyCreated(r) PROVE RoundsTrue'
  BY <1>9 DEF ReplyCreated, Goto, Answer, RoundsTrue, Held, TypeOK
<1>10. ASSUME NEW r \in Requests, RunJobs(r) PROVE RoundsTrue'
  BY <1>10 DEF RunJobs, Goto, RoundsTrue, Held, TypeOK
<1>11. ASSUME NEW r \in Requests, NEW id \in RaceIds, Insert(r, id) PROVE RoundsTrue'
  BY <1>11 DEF Insert, Goto, RoundsTrue, Held, TypeOK
<1>12. ASSUME NEW r \in Requests, CommitUnanswered(r) PROVE RoundsTrue'
  BY <1>12 DEF CommitUnanswered, Goto, CommitRow, RoundsTrue, Held, TypeOK
<1>13. ASSUME NEW r \in Requests, Fails(r) PROVE RoundsTrue'
  BY <1>13 DEF Fails, Goto, Answer, RoundsTrue, Held, TypeOK
<1>14. ASSUME NEW old \in races, Age(old) PROVE RoundsTrue'
  <2>1. PICK new \in Row : /\ new.id = old.id /\ new.uid = old.uid
                            /\ new.track = old.track /\ new.round = old.round
                            /\ races' = (races \ {old}) \cup {new}
    BY <1>14, AgeKeeps
  <2> QED
    BY <1>14, <2>1 DEF Age, RoundsTrue, Held
<1>15. ASSUME Crash PROVE RoundsTrue'
  BY <1>15 DEF Crash, RoundsTrue, Held, TypeOK
<1>16. CASE UNCHANGED vars
  BY <1>16 DEF vars, RoundsTrue, Held, TypeOK
<1>17. ASSUME NEW r \in Requests, CommitConflicts(r) PROVE RoundsTrue'
  BY <1>17 DEF CommitConflicts, Goto, RoundsTrue, Held, TypeOK
<1> QED
  BY <1>1, <1>2, <1>3, <1>4, <1>5, <1>6, <1>7, <1>8, <1>9, <1>10, <1>11, <1>12, <1>13, <1>14, <1>15, <1>16, <1>17 DEF Next, Handler

\* A reply names the race that was found, or the one that was just committed.
LEMMA RepliesTrueStep == TypeOK /\ RowsApart /\ CreatedTrue /\ RepliesTrue /\ [Next]_vars => RepliesTrue'
<1> SUFFICES ASSUME TypeOK, RowsApart, CreatedTrue, RepliesTrue, [Next]_vars PROVE RepliesTrue'
  OBVIOUS
<1> USE ConstantsAssumption
<1>1. ASSUME NEW r \in Requests, Send(r) PROVE RepliesTrue'
  BY <1>1 DEF Send, Goto, RepliesTrue, CreatedTrue, RowsApart, TypeOK
<1>2. ASSUME NEW r \in Requests, CheckDuplicate(r) PROVE RepliesTrue'
  <2>1. CASE Known(uid[r])
    <3>1. PICK race \in races : race.uid = uid[r] /\ race.id = IdOf(uid[r])
      BY <2>1, IdOfRace
    <3> QED
      BY <1>2, <2>1, <3>1 DEF CheckDuplicate, Answer, RepliesTrue, TypeOK
  <2>2. CASE ~Known(uid[r])
    BY <1>2, <2>2 DEF CheckDuplicate, Answer, RepliesTrue, TypeOK
  <2> QED
    BY <2>1, <2>2
<1>3. ASSUME NEW r \in Requests, DetectDuplicate(r) PROVE RepliesTrue'
  BY <1>3 DEF DetectDuplicate, Goto, RepliesTrue, CreatedTrue, RowsApart, TypeOK
<1>4. ASSUME NEW r \in Requests, DetectRound(r) PROVE RepliesTrue'
  BY <1>4 DEF DetectRound, Goto, RepliesTrue, CreatedTrue, RowsApart, TypeOK
<1>5. ASSUME NEW r \in Requests, InsertConflicts(r) PROVE RepliesTrue'
  BY <1>5 DEF InsertConflicts, Goto, RepliesTrue, CreatedTrue, RowsApart, TypeOK
<1>6. ASSUME NEW r \in Requests, Reload(r) PROVE RepliesTrue'
  <2>1. CASE Known(uid[r])
    <3>1. PICK race \in races : race.uid = uid[r] /\ race.id = IdOf(uid[r])
      BY <2>1, IdOfRace
    <3> QED
      BY <1>6, <2>1, <3>1 DEF Reload, Answer, RepliesTrue, TypeOK
  <2>2. CASE ~Known(uid[r])
    BY <1>6, <2>2 DEF Reload, Answer, RepliesTrue, TypeOK
  <2> QED
    BY <2>1, <2>2
<1>7. ASSUME NEW r \in Requests, Commit(r) PROVE RepliesTrue'
  BY <1>7 DEF Commit, Goto, CommitRow, RepliesTrue, CreatedTrue, RowsApart, TypeOK
<1>8. ASSUME NEW r \in Requests, CommitRaises(r) PROVE RepliesTrue'
  BY <1>8 DEF CommitRaises, Goto, Answer, RepliesTrue, CreatedTrue, RowsApart, TypeOK
<1>9. ASSUME NEW r \in Requests, ReplyCreated(r) PROVE RepliesTrue'
  BY <1>9 DEF ReplyCreated, Goto, Answer, RepliesTrue, CreatedTrue, RowsApart, TypeOK
<1>10. ASSUME NEW r \in Requests, RunJobs(r) PROVE RepliesTrue'
  BY <1>10 DEF RunJobs, Goto, RepliesTrue, CreatedTrue, RowsApart, TypeOK
<1>11. ASSUME NEW r \in Requests, NEW id \in RaceIds, Insert(r, id) PROVE RepliesTrue'
  BY <1>11 DEF Insert, Goto, RepliesTrue, CreatedTrue, RowsApart, TypeOK
<1>12. ASSUME NEW r \in Requests, CommitUnanswered(r) PROVE RepliesTrue'
  BY <1>12 DEF CommitUnanswered, Goto, CommitRow, RepliesTrue, CreatedTrue, RowsApart, TypeOK
<1>13. ASSUME NEW r \in Requests, Fails(r) PROVE RepliesTrue'
  BY <1>13 DEF Fails, Goto, Answer, RepliesTrue, CreatedTrue, RowsApart, TypeOK
<1>14. ASSUME NEW old \in races, Age(old) PROVE RepliesTrue'
  <2>1. PICK new \in Row : /\ new.id = old.id /\ new.uid = old.uid
                            /\ new.track = old.track /\ new.round = old.round
                            /\ races' = (races \ {old}) \cup {new}
    BY <1>14, AgeKeeps
  <2> QED
    BY <1>14, <2>1 DEF Age, RepliesTrue
<1>15. ASSUME Crash PROVE RepliesTrue'
  BY <1>15 DEF Crash, RepliesTrue, CreatedTrue, RowsApart, TypeOK
<1>16. CASE UNCHANGED vars
  BY <1>16 DEF vars, RepliesTrue, CreatedTrue, RowsApart, TypeOK
<1>17. ASSUME NEW r \in Requests, CommitConflicts(r) PROVE RepliesTrue'
  BY <1>17 DEF CommitConflicts, Goto, RepliesTrue, CreatedTrue, RowsApart, TypeOK
<1> QED
  BY <1>1, <1>2, <1>3, <1>4, <1>5, <1>6, <1>7, <1>8, <1>9, <1>10, <1>11, <1>12, <1>13, <1>14, <1>15, <1>16, <1>17 DEF Next, Handler

\* The first race on a track of the calendar gets the round of the track.
LEMMA CalendarKeptStep == TypeOK /\ RoundsTrue /\ CalendarKept /\ [Next]_vars => CalendarKept'
<1> SUFFICES ASSUME TypeOK, RoundsTrue, CalendarKept, [Next]_vars PROVE CalendarKept'
  OBVIOUS
<1> USE ConstantsAssumption
<1>1. ASSUME NEW r \in Requests, Send(r) PROVE CalendarKept'
  BY <1>1 DEF Send, Goto, CalendarKept, RoundsTrue, Held, TypeOK
<1>2. ASSUME NEW r \in Requests, CheckDuplicate(r) PROVE CalendarKept'
  BY <1>2 DEF CheckDuplicate, Goto, Answer, CalendarKept, RoundsTrue, Held, TypeOK
<1>3. ASSUME NEW r \in Requests, DetectDuplicate(r) PROVE CalendarKept'
  BY <1>3 DEF DetectDuplicate, Goto, CalendarKept, RoundsTrue, Held, TypeOK
<1>4. ASSUME NEW r \in Requests, DetectRound(r) PROVE CalendarKept'
  BY <1>4 DEF DetectRound, Goto, CalendarKept, RoundsTrue, Held, TypeOK
<1>5. ASSUME NEW r \in Requests, InsertConflicts(r) PROVE CalendarKept'
  BY <1>5 DEF InsertConflicts, Goto, CalendarKept, RoundsTrue, Held, TypeOK
<1>6. ASSUME NEW r \in Requests, Reload(r) PROVE CalendarKept'
  BY <1>6 DEF Reload, Goto, Answer, CalendarKept, RoundsTrue, Held, TypeOK
<1>7. ASSUME NEW r \in Requests, Commit(r) PROVE CalendarKept'
  BY <1>7 DEF Commit, Goto, CommitRow, CalendarKept, RoundsTrue, Held, TypeOK
<1>8. ASSUME NEW r \in Requests, CommitRaises(r) PROVE CalendarKept'
  BY <1>8 DEF CommitRaises, Goto, Answer, CalendarKept, RoundsTrue, Held, TypeOK
<1>9. ASSUME NEW r \in Requests, ReplyCreated(r) PROVE CalendarKept'
  BY <1>9 DEF ReplyCreated, Goto, Answer, CalendarKept, RoundsTrue, Held, TypeOK
<1>10. ASSUME NEW r \in Requests, RunJobs(r) PROVE CalendarKept'
  BY <1>10 DEF RunJobs, Goto, CalendarKept, RoundsTrue, Held, TypeOK
<1>11. ASSUME NEW r \in Requests, NEW id \in RaceIds, Insert(r, id) PROVE CalendarKept'
  BY <1>11 DEF Insert, Goto, CalendarKept, RoundsTrue, Held, TypeOK
<1>12. ASSUME NEW r \in Requests, CommitUnanswered(r) PROVE CalendarKept'
  BY <1>12 DEF CommitUnanswered, Goto, CommitRow, CalendarKept, RoundsTrue, Held, TypeOK
<1>13. ASSUME NEW r \in Requests, Fails(r) PROVE CalendarKept'
  BY <1>13 DEF Fails, Goto, Answer, CalendarKept, RoundsTrue, Held, TypeOK
<1>14. ASSUME NEW old \in races, Age(old) PROVE CalendarKept'
  <2>1. PICK new \in Row : /\ new.id = old.id /\ new.uid = old.uid
                            /\ new.track = old.track /\ new.round = old.round
                            /\ races' = (races \ {old}) \cup {new}
    BY <1>14, AgeKeeps
  <2> QED
    BY <1>14, <2>1 DEF Age, CalendarKept, Held
<1>15. ASSUME Crash PROVE CalendarKept'
  BY <1>15 DEF Crash, CalendarKept, RoundsTrue, Held, TypeOK
<1>16. CASE UNCHANGED vars
  BY <1>16 DEF vars, CalendarKept, RoundsTrue, Held, TypeOK
<1>17. ASSUME NEW r \in Requests, CommitConflicts(r) PROVE CalendarKept'
  BY <1>17 DEF CommitConflicts, Goto, CalendarKept, RoundsTrue, Held, TypeOK
<1> QED
  BY <1>1, <1>2, <1>3, <1>4, <1>5, <1>6, <1>7, <1>8, <1>9, <1>10, <1>11, <1>12, <1>13, <1>14, <1>15, <1>16, <1>17 DEF Next, Handler

\* The invariant holds at the start ...
LEMMA InvInit == Init => SubmitInv
<1> SUFFICES ASSUME Init PROVE SubmitInv
  OBVIOUS
<1>1. TypeOK
  BY ConstantsAssumption, FS_EmptySet DEF Init, TypeOK, Labels, NoReply, Statuses
<1>2. RacesApart /\ RowsApart /\ CreatedTrue /\ RanTrue
  BY DEF Init, RacesApart, RowsApart, CreatedTrue, RanTrue, NoReply
<1>3. RoundsTrue /\ RepliesTrue /\ CalendarKept
  BY DEF Init, RoundsTrue, RepliesTrue, CalendarKept, NoReply, Held
<1> QED
  BY <1>1, <1>2, <1>3 DEF SubmitInv

\* ... and every step keeps it, part by part.
LEMMA InvStep == SubmitInv /\ [Next]_vars => SubmitInv'
  BY TypeStep, RacesApartStep, RowsApartStep, CreatedTrueStep, RanTrueStep, RoundsTrueStep, RepliesTrueStep,
     CalendarKeptStep
  DEF SubmitInv

\* Rows, replies and jobs fit the table, for any number of concurrent handlers.
THEOREM SubmitInvariant == Spec => []SubmitInv
  BY InvInit, InvStep, PTL DEF Spec

\* Every reply that names a race names the race of the session it is about.
THEOREM RepliesAreTrue == Spec => []RepliesTrue
<1>1. SubmitInv => RepliesTrue
  BY DEF SubmitInv
<1> QED
  BY <1>1, SubmitInvariant, PTL

\* The first race on a track of any calendar has the round of the track.
THEOREM CalendarIsKept == Spec => []CalendarKept
<1>1. SubmitInv => CalendarKept
  BY DEF SubmitInv
<1> QED
  BY <1>1, SubmitInvariant, PTL

\* No race has its background jobs run twice.
THEOREM JobsRunOnce == Spec => []JobsOnce
<1>1. SubmitInv => JobsOnce
  <2> SUFFICES ASSUME SubmitInv, NEW a \in ran, NEW b \in ran, a[2] = b[2] PROVE a = b
    BY DEF JobsOnce
  <2>1. a \in Requests \X RaceIds /\ b \in Requests \X RaceIds
    BY DEF SubmitInv, TypeOK
  <2>2. a[1] = b[1]
    BY <2>1 DEF SubmitInv, RanTrue, CreatedTrue
  <2> QED
    BY <2>1, <2>2
<1> QED
  BY <1>1, SubmitInvariant, PTL

-----------------------------------------------------------------------------
(* Refinement of the registry. *)

\* What the registry shows of the table.
Recorded == [u \in Uids |-> IdOf(u)]

\* A step of the registry, or none.
RegistryMove == Registry!RegistryNext \/ (Recorded' = Recorded /\ reply' = reply)

\* The id of a session that has a race is the one of that race.
LEMMA IdOfIs ==
  ASSUME RacesApart, NEW race \in races
  PROVE  Known(race.uid) /\ IdOf(race.uid) = race.id
<1>1. Known(race.uid)
  BY DEF Known, RacesOf
<1>2. PICK found \in races : found.uid = race.uid /\ found.id = IdOf(race.uid)
  BY <1>1, IdOfRace
<1> QED
  BY <1>1, <1>2 DEF RacesApart

\* The same in the next state.
LEMMA NextIdOfIs ==
  ASSUME RacesApart', NEW u, NEW race \in races', race.uid = u
  PROVE  Known(u)' /\ IdOf(u)' = race.id
<1>1. Known(u)'
  BY DEF Known, RacesOf
<1>2. IdOf(u)' = (CHOOSE found \in RacesOf(u)' : TRUE).id
  BY <1>1 DEF IdOf
<1>3. (CHOOSE found \in RacesOf(u)' : TRUE) \in RacesOf(u)'
  BY <1>1 DEF Known
<1>4. PICK found \in races' : found.uid = u /\ found.id = IdOf(u)'
  BY <1>2, <1>3 DEF RacesOf
<1> QED
  BY <1>1, <1>4 DEF RacesApart

\* A commit records the session of its row.
LEMMA CommitRecords ==
  ASSUME SubmitInv, SubmitInv', NEW r \in Requests, pc[r] = "commit", CommitRow(r), reply' = reply
  PROVE  RegistryMove
<1>1. PICK new \in Row : new.id = row[r] /\ new.uid = uid[r] /\ races' = races \cup {new}
  BY CommitAdds DEF SubmitInv
<1>2. PICK u \in Uids : u = uid[r] /\ row[r] \in RaceIds
  BY DEF SubmitInv, TypeOK, RowsApart
<1>3. ~Known(u) /\ \A race \in races : race.id # row[r]
  BY <1>2 DEF SubmitInv, RowsApart, Known, RacesOf
<1>4. IdOf(u)' = row[r]
  BY <1>1, <1>2, NextIdOfIs DEF SubmitInv
<1>5. \A v \in Uids \ {u} : IdOf(v)' = IdOf(v)
  <2> SUFFICES ASSUME NEW v \in Uids \ {u} PROVE IdOf(v)' = IdOf(v)
    OBVIOUS
  <2>1. RacesOf(v)' = RacesOf(v)
    BY <1>1, <1>2 DEF RacesOf
  <2> QED
    BY <2>1 DEF IdOf, Known
<1>6. IdOf(u) = NoRace
  BY <1>3 DEF IdOf
<1>7. \A v \in Uids : IdOf(v) # row[r]
  <2> SUFFICES ASSUME NEW v \in Uids PROVE IdOf(v) # row[r]
    OBVIOUS
  <2>1. CASE Known(v)
    BY <2>1, <1>3, IdOfRace
  <2>2. CASE ~Known(v)
    BY <2>2, <1>2, ConstantsAssumption DEF IdOf
  <2> QED
    BY <2>1, <2>2
<1>8. Recorded' = [Recorded EXCEPT ![u] = row[r]]
  BY <1>4, <1>5 DEF Recorded
<1>9. Registry!Record(u, row[r])
  BY <1>2, <1>6, <1>7, <1>8 DEF Registry!Record, Recorded
<1> QED
  BY <1>2, <1>9 DEF RegistryMove, Registry!RegistryNext

\* A reply is one the registry allows.
LEMMA AnswerReplies ==
  ASSUME SubmitInv, NEW r \in Requests, pc[r] \notin {"jobs", "done"}, races' = races,
         NEW status, NEW id, Answer(r, status, id),
         \/ status = "error" /\ id = NoRace
         \/ status = "duplicate" /\ Known(uid[r]) /\ id = IdOf(uid[r])
         \/ status = "ok" /\ pc[r] = "reply" /\ id = row[r]
  PROVE  RegistryMove
<1> DEFINE u == uid[r]
<1>1. u \in Uids /\ Recorded' = Recorded
  BY DEF SubmitInv, TypeOK, Recorded, IdOf, Known, RacesOf
<1>2. reply[r] = Registry!NoReply
  BY DEF SubmitInv, CreatedTrue, NoReply, Registry!NoReply
<1>3. Registry!Reply(r, [status |-> status, id |-> id])
  BY <1>1, <1>2 DEF Registry!Reply, Answer, Recorded
<1>4. CASE status = "error" /\ id = NoRace
  BY <1>3, <1>4 DEF RegistryMove, Registry!RegistryNext, Registry!Refusal
<1>5. CASE status = "duplicate" /\ Known(u) /\ id = IdOf(u)
  <2>1. IdOf(u) \in RaceIds
    BY <1>5, IdOfRace DEF SubmitInv, TypeOK, Row
  <2>2. Registry!Repeated(r, u)
    BY <1>1, <1>3, <1>5, <2>1, ConstantsAssumption DEF Registry!Repeated, Recorded
  <2> QED
    BY <1>1, <2>2 DEF RegistryMove, Registry!RegistryNext
<1>6. CASE status = "ok" /\ pc[r] = "reply" /\ id = row[r]
  <2>1. PICK race \in races : race.id = row[r] /\ race.uid = u
    BY <1>6 DEF SubmitInv, CreatedTrue
  <2>2. IdOf(u) = row[r]
    BY <2>1, IdOfIs DEF SubmitInv
  <2>3. row[r] # NoRace
    BY <1>6 DEF SubmitInv, RowsApart
  <2>4. \A q \in Requests : reply[q] # [status |-> "ok", id |-> row[r]]
    BY <2>3 DEF SubmitInv, CreatedTrue
  <2>5. Registry!Created(r, u)
    BY <1>1, <1>3, <1>6, <2>2, <2>3, <2>4 DEF Registry!Created, Recorded
  <2> QED
    BY <1>1, <2>5 DEF RegistryMove, Registry!RegistryNext
<1> QED
  BY <1>4, <1>5, <1>6

\* Steps that neither commit nor reply are none of the registry.
LEMMA SilentStep ==
  ASSUME races' = races, reply' = reply
  PROVE  RegistryMove
  BY DEF RegistryMove, Recorded, IdOf, Known, RacesOf

\* Every step is a step of the registry, or none.
LEMMA RegistryStep == SubmitInv /\ SubmitInv' /\ [Next]_vars => RegistryMove
<1> SUFFICES ASSUME SubmitInv, SubmitInv', [Next]_vars PROVE RegistryMove
  OBVIOUS
<1>1. ASSUME NEW r \in Requests, Send(r) PROVE RegistryMove
  BY <1>1, SilentStep DEF Send
<1>2. ASSUME NEW r \in Requests, CheckDuplicate(r) PROVE RegistryMove
  <2>1. CASE Known(uid[r])
    BY <1>2, <2>1, AnswerReplies DEF CheckDuplicate
  <2>2. CASE ~Known(uid[r])
    BY <1>2, <2>2, SilentStep DEF CheckDuplicate
  <2> QED
    BY <2>1, <2>2
<1>3. ASSUME NEW r \in Requests, DetectDuplicate(r) PROVE RegistryMove
  BY <1>3, SilentStep DEF DetectDuplicate
<1>4. ASSUME NEW r \in Requests, DetectRound(r) PROVE RegistryMove
  BY <1>4, SilentStep DEF DetectRound
<1>5. ASSUME NEW r \in Requests, InsertConflicts(r) PROVE RegistryMove
  BY <1>5, SilentStep DEF InsertConflicts
<1>6. ASSUME NEW r \in Requests, Reload(r) PROVE RegistryMove
  BY <1>6, AnswerReplies DEF Reload
<1>7. ASSUME NEW r \in Requests, Commit(r) PROVE RegistryMove
  BY <1>7, CommitRecords DEF Commit
<1>8. ASSUME NEW r \in Requests, CommitRaises(r) PROVE RegistryMove
  BY <1>8, AnswerReplies DEF CommitRaises
<1>9. ASSUME NEW r \in Requests, ReplyCreated(r) PROVE RegistryMove
  BY <1>9, AnswerReplies DEF ReplyCreated
<1>10. ASSUME NEW r \in Requests, RunJobs(r) PROVE RegistryMove
  BY <1>10, SilentStep DEF RunJobs
<1>11. ASSUME NEW r \in Requests, NEW id \in RaceIds, Insert(r, id) PROVE RegistryMove
  BY <1>11, SilentStep DEF Insert
<1>12. ASSUME NEW r \in Requests, CommitUnanswered(r) PROVE RegistryMove
  BY <1>12, CommitRecords DEF CommitUnanswered
<1>13. ASSUME NEW r \in Requests, Fails(r) PROVE RegistryMove
  BY <1>13, AnswerReplies DEF Fails
<1>14. ASSUME NEW old \in races, Age(old) PROVE RegistryMove
  <2>1. PICK new \in Row : new.id = old.id /\ new.uid = old.uid /\ races' = (races \ {old}) \cup {new}
    BY <1>14, AgeKeeps DEF SubmitInv
  <2>2. \A u \in Uids : IdOf(u)' = IdOf(u)
    <3> SUFFICES ASSUME NEW u \in Uids PROVE IdOf(u)' = IdOf(u)
      OBVIOUS
    <3>1. CASE Known(u)
      <4>1. PICK race \in races : race.uid = u /\ race.id = IdOf(u)
        BY <3>1, IdOfRace
      <4>2. PICK found \in races' : found.uid = u /\ found.id = IdOf(u)
        BY <2>1, <4>1
      <4> QED
        BY <4>2, NextIdOfIs DEF SubmitInv
    <3>2. CASE ~Known(u)
      <4>1. ~Known(u)'
        BY <1>14, <2>1, <3>2 DEF Known, RacesOf
      <4> QED
        BY <3>2, <4>1 DEF IdOf
    <3> QED
      BY <3>1, <3>2
  <2> QED
    BY <1>14, <2>2 DEF Age, RegistryMove, Recorded
<1>15. ASSUME Crash PROVE RegistryMove
  BY <1>15, SilentStep DEF Crash
<1>16. CASE UNCHANGED vars
  BY <1>16, SilentStep DEF vars
<1>17. ASSUME NEW r \in Requests, CommitConflicts(r) PROVE RegistryMove
  BY <1>17, SilentStep DEF CommitConflicts
<1> QED
  BY <1>1, <1>2, <1>3, <1>4, <1>5, <1>6, <1>7, <1>8, <1>9, <1>10, <1>11, <1>12, <1>13, <1>14, <1>15, <1>16, <1>17 DEF Next, Handler

\* The handler, with its races between check and insert, implements the registry
\* that the agent's retries rely on.
THEOREM SubmitImplementsRegistry == Spec => ImplementsRegistry
<1>1. Init => Registry!RegistryInit
  BY DEF Init, Registry!RegistryInit, Registry!NoReply, NoReply, IdOf, Known, RacesOf
<1>2. SubmitInv /\ SubmitInv' /\ [Next]_vars => [Registry!RegistryNext]_<<Recorded, reply>>
  BY RegistryStep DEF RegistryMove
<1> QED
  BY <1>1, <1>2, SubmitInvariant, PTL DEF Spec, ImplementsRegistry, Registry!RegistrySpec, Registry!registryVars, Recorded
=============================================================================
