---------------------------- MODULE RequestProofs ----------------------------
(***************************************************************************)
(* Proofs about the web site's requests, for any number of users and of    *)
(* calls at once.                                                          *)
(*                                                                         *)
(* Lobby: the roles stay sound although every check is made of rows that   *)
(* may change before the write; a write finds its row by id, an id is of   *)
(* one user for ever, and no call ever loads the creator's row to write to. *)
(*                                                                         *)
(* Contracts: seats and pilots are shared only where two acceptances that  *)
(* met were at work at once, and what is offered is what an offer's name   *)
(* promises.                                                               *)
(*                                                                         *)
(* Accounts: one row for one identity, tokens and codes of the user the    *)
(* request is about, and what is asked for is there until it is collected, *)
(* expires or is thrown out.                                               *)
(***************************************************************************)
EXTENDS Lobby, Contracts, Accounts, FiniteSetTheorems, WellFoundedInduction, TLAPS

-----------------------------------------------------------------------------
(* Lobby.                                                                   *)

\* The row found for a user is one of his rows.
LEMMA RowOfUser ==
  ASSUME NEW u, RowsOf(u) # {}
  PROVE  RowOf(u) \in members /\ RowOf(u).user = u
<1> DEFINE chosen == CHOOSE m \in RowsOf(u) : TRUE
<1>1. chosen \in RowsOf(u)
  OBVIOUS
<1>2. RowOf(u) = chosen
  BY DEF RowOf
<1> HIDE DEF chosen
<1> QED
  BY <1>1, <1>2 DEF RowsOf

\* The lobby begins with its creator as admin.
LEMMA LobbyBegins == LobbyInit => LobbyInv
<1> SUFFICES ASSUME LobbyInit PROVE LobbyInv
  OBVIOUS
<1> USE DEF LobbyInit
<1> DEFINE first == [id |-> Founding, user |-> Creator, role |-> "admin"]
<1>1. first \in Member
  BY LobbyAssumption DEF Member
<1>2. members = {first} /\ IsFiniteSet(members)
  BY FS_Singleton
<1>3. LobbyTypeOK
  BY <1>1, <1>2, LobbyAssumption DEF LobbyTypeOK, Replies
<1>4. RowsOf(Creator) # {}
  <2>1. first \in RowsOf(Creator)
    BY <1>2 DEF RowsOf
  <2> QED
    BY <2>1
<1>5. RolesSound
  BY <1>2, <1>3, <1>4 DEF RolesSound
<1> QED
  BY <1>2, <1>5 DEF LobbyInv, OwnerOf

\* A call that only moves on changes nothing that the invariant is about.
LEMMA MovingOn ==
  ASSUME LobbyInv, NEW c \in Calls, NEW from, NEW to \in {"own", "insert", "load", "done"},
         from # "done", Pass(c, from, to),
         outcome' = outcome \/ (\E what \in Replies : Tell(c, what)),
         UNCHANGED <<members, op, found, appointed>>,
         invite' \in Codes, namedBy' \in Users, seasons' \subseteq Calls
  PROVE  LobbyInv'
<1>1. LobbyTypeOK'
  BY DEF LobbyInv, RolesSound, LobbyTypeOK, Pass, Tell
<1>2. RolesSound'
  BY <1>1 DEF LobbyInv, RolesSound, RowsOf
<1>3. \A m \in members : m.id # Founding => phase'[m.id] = "done"
  <2> SUFFICES ASSUME NEW m \in members, m.id # Founding PROVE phase'[m.id] = "done"
    OBVIOUS
  <2>1. m.id \in Calls /\ phase[m.id] = "done"
    BY DEF LobbyInv, RolesSound, LobbyTypeOK, Member
  <2> QED
    BY <2>1 DEF Pass, LobbyInv, RolesSound, LobbyTypeOK
<1>4. \A d \in Calls : phase'[d] = "write" => phase[d] = "write"
  BY DEF Pass, LobbyInv, RolesSound, LobbyTypeOK
<1> QED
  BY <1>2, <1>3, <1>4 DEF LobbyInv, OwnerOf

\* Every refused call moves on.
LEMMA Refusing ==
  ASSUME LobbyInv, NEW c \in Calls, NEW from, from # "done", NEW what \in Replies, Refuse(c, from, what)
  PROVE  LobbyInv'
<1>1. invite' \in Codes /\ namedBy' \in Users /\ seasons' \subseteq Calls
  BY DEF Refuse, LobbyInv, RolesSound, LobbyTypeOK
<1> QED
  BY <1>1, MovingOn DEF Refuse

\* A call inserts a row of its own for a user who has none, so not for the creator.
LEMMA Inserting ==
  ASSUME LobbyInv, NEW c \in Calls, InsertMember(c)
  PROVE  LobbyInv'
<1> DEFINE new == [id |-> c, user |-> op[c].user, role |-> "member"]
<1> USE DEF InsertMember, Pass, Tell
<1>1. new \in Member
  BY DEF LobbyInv, RolesSound, LobbyTypeOK, Op, Member
<1>2. members' = members \cup {new} /\ IsFiniteSet(members')
  BY FS_AddElement DEF LobbyInv, RolesSound, LobbyTypeOK
<1>3. LobbyTypeOK'
  BY <1>1, <1>2 DEF LobbyInv, RolesSound, LobbyTypeOK, Replies
<1>4. \A m \in members : m.user # new.user /\ m.id # c
  BY LobbyAssumption DEF RowsOf, LobbyInv
<1>5. new.user # Creator
  BY DEF LobbyInv, RolesSound
<1>6. RowsOf(Creator)' # {}
  BY <1>2 DEF LobbyInv, RolesSound, RowsOf
<1>7. RolesSound'
  <2>1. \A m \in members' : m.role = "admin" <=> m.user = Creator
    BY <1>2, <1>5 DEF LobbyInv, RolesSound
  <2>2. \A m, n \in members' : m.user = n.user => m = n
    BY <1>2, <1>4 DEF LobbyInv, RolesSound
  <2>3. \A m \in members' : m.role = "moderator" => m.id \in appointed'
    BY <1>2 DEF LobbyInv, RolesSound
  <2> QED
    BY <1>3, <1>6, <2>1, <2>2, <2>3 DEF RolesSound
<1>8. \A m \in members' : m.user = OwnerOf(m.id)'
  BY <1>2, LobbyAssumption DEF LobbyInv, OwnerOf
<1>9. \A m, n \in members' : m.id = n.id => m = n
  BY <1>2, <1>4 DEF LobbyInv
<1>10. \A m \in members' : m.id # Founding => phase'[m.id] = "done"
  <2> SUFFICES ASSUME NEW m \in members', m.id # Founding PROVE phase'[m.id] = "done"
    OBVIOUS
  <2>1. m.id \in Calls /\ (m.id = c \/ phase[m.id] = "done")
    BY <1>1, <1>2 DEF LobbyInv, RolesSound, LobbyTypeOK, Member
  <2> QED
    BY <2>1 DEF LobbyInv, RolesSound, LobbyTypeOK
<1>11. \A d \in Calls : phase'[d] = "write" => phase[d] = "write"
  BY DEF LobbyInv, RolesSound, LobbyTypeOK
<1> QED
  BY <1>7, <1>8, <1>9, <1>10, <1>11 DEF LobbyInv, OwnerOf

\* What is loaded to write to is a row of another user than the creator, or none.
LEMMA Loading ==
  ASSUME LobbyInv, NEW c \in Calls, NEW from, from # "done", NEW u \in Users, u # Creator, Load(c, from, u),
         op[c].kind = "setRole" => op[c].arg \in {"moderator", "member"}
  PROVE  LobbyInv'
<1> USE DEF Load, Pass
<1>1. RowOf(u) = NoMember \/ (RowOf(u) \in members /\ RowOf(u).user = u)
  BY RowOfUser DEF RowOf
<1>2. LobbyTypeOK'
  BY <1>1 DEF LobbyInv, RolesSound, LobbyTypeOK
<1>3. RolesSound'
  BY <1>2 DEF LobbyInv, RolesSound, RowsOf
<1>4. \A m \in members : m.id # Founding => phase'[m.id] = "done"
  <2> SUFFICES ASSUME NEW m \in members, m.id # Founding PROVE phase'[m.id] = "done"
    OBVIOUS
  <2>1. m.id \in Calls /\ phase[m.id] = "done"
    BY DEF LobbyInv, RolesSound, LobbyTypeOK, Member
  <2> QED
    BY <2>1 DEF LobbyInv, RolesSound, LobbyTypeOK
<1>5. \A d \in Calls : found'[d] # NoMember =>
          found'[d].user = OwnerOf(found'[d].id) /\ found'[d].user # Creator
  BY <1>1 DEF LobbyInv, RolesSound, LobbyTypeOK
<1>6. \A d \in Calls : phase'[d] = "write" /\ op[d].kind = "setRole" => op[d].arg \in {"moderator", "member"}
  BY DEF LobbyInv, RolesSound, LobbyTypeOK
<1> QED
  BY <1>3, <1>4, <1>5, <1>6 DEF LobbyInv, OwnerOf

\* A role is written to a row that is not the creator's, and it is not the admin's.
LEMMA WritingRole ==
  ASSUME LobbyInv, NEW c \in Calls, WriteRole(c)
  PROVE  LobbyInv'
<1> DEFINE row(m) == IF m.id = found[c].id THEN [m EXCEPT !.role = op[c].arg] ELSE m
<1> USE DEF WriteRole, Pass, Tell, Asks
<1>1. op[c].arg \in {"moderator", "member"} /\ found[c] \in Member /\ found[c] # NoMember
  BY LobbyAssumption DEF LobbyInv
<1>2. \A m \in members : /\ row(m) \in Member /\ row(m).id = m.id /\ row(m).user = m.user
                         /\ m.id = found[c].id => m.user # Creator /\ row(m).role = op[c].arg
                         /\ m.id # found[c].id => row(m) = m
  BY <1>1 DEF LobbyInv, RolesSound, LobbyTypeOK, Member
<1>3. members' = {row(m) : m \in members} /\ IsFiniteSet(members')
  <2>1. members' = {row(m) : m \in members}
    OBVIOUS
  <2>2. PICK x \in members : x.id = found[c].id
    OBVIOUS
  <2>3. \A m \in members : m.id = found[c].id => m = x
    BY <2>2 DEF LobbyInv
  <2>4. members' \subseteq members \cup {row(x)}
    BY <2>1, <2>3
  <2>5. IsFiniteSet(members \cup {row(x)})
    BY FS_AddElement DEF LobbyInv, RolesSound, LobbyTypeOK
  <2> QED
    BY <2>1, <2>4, <2>5, FS_Subset
<1> HIDE DEF row
<1>4. LobbyTypeOK'
  <2>1. appointed' \subseteq Calls \cup {Founding}
    BY <1>1 DEF LobbyInv, RolesSound, LobbyTypeOK, Member
  <2> QED
    BY <1>2, <1>3, <2>1 DEF LobbyInv, RolesSound, LobbyTypeOK, Replies
<1>5. RowsOf(Creator)' # {}
  BY <1>2, <1>3 DEF LobbyInv, RolesSound, RowsOf
<1>6. \A m \in members' : m.role = "admin" <=> m.user = Creator
  BY <1>1, <1>2, <1>3 DEF LobbyInv, RolesSound
<1>7. \A m, n \in members' : m.user = n.user => m = n
  BY <1>2, <1>3 DEF LobbyInv, RolesSound
<1>8. \A m \in members' : m.role = "moderator" => m.id \in appointed'
  BY <1>1, <1>2, <1>3 DEF LobbyInv, RolesSound
<1>9. \A m, n \in members' : m.id = n.id => m = n
  BY <1>2, <1>3 DEF LobbyInv
<1>10. \A m \in members' : m.id # Founding => phase'[m.id] = "done"
  <2> SUFFICES ASSUME NEW m \in members, m.id # Founding PROVE phase'[m.id] = "done"
    BY <1>2, <1>3
  <2>1. m.id \in Calls /\ phase[m.id] = "done"
    BY DEF LobbyInv, RolesSound, LobbyTypeOK, Member
  <2> QED
    BY <2>1 DEF LobbyInv, RolesSound, LobbyTypeOK
<1>11. \A d \in Calls : phase'[d] = "write" => phase[d] = "write"
  BY DEF LobbyInv, RolesSound, LobbyTypeOK
<1>12. \A m \in members' : m.user = OwnerOf(m.id)'
  BY <1>2, <1>3 DEF LobbyInv, OwnerOf
<1>13. RolesSound'
  BY <1>4, <1>5, <1>6, <1>7, <1>8 DEF RolesSound
<1> QED
  BY <1>9, <1>10, <1>11, <1>12, <1>13 DEF LobbyInv, OwnerOf

\* The row that is deleted is not the creator's.
LEMMA Deleting ==
  ASSUME LobbyInv, NEW c \in Calls, DeleteMember(c)
  PROVE  LobbyInv'
<1> USE DEF DeleteMember, Pass, Tell, Asks
<1>1. members' \subseteq members /\ IsFiniteSet(members')
  BY FS_Subset DEF LobbyInv, RolesSound, LobbyTypeOK
<1>2. \A m \in members : m.user = Creator => m \in members'
  BY DEF LobbyInv
<1>3. LobbyTypeOK'
  BY <1>1 DEF LobbyInv, RolesSound, LobbyTypeOK, Replies
<1>4. RowsOf(Creator)' # {}
  BY <1>2 DEF LobbyInv, RolesSound, RowsOf
<1>5. RolesSound'
  BY <1>1, <1>3, <1>4 DEF LobbyInv, RolesSound
<1>6. \A m \in members' : m.id # Founding => phase'[m.id] = "done"
  <2> SUFFICES ASSUME NEW m \in members, m.id # Founding PROVE phase'[m.id] = "done"
    BY <1>1
  <2>1. m.id \in Calls /\ phase[m.id] = "done"
    BY DEF LobbyInv, RolesSound, LobbyTypeOK, Member
  <2> QED
    BY <2>1 DEF LobbyInv, RolesSound, LobbyTypeOK
<1>7. \A d \in Calls : phase'[d] = "write" => phase[d] = "write"
  BY DEF LobbyInv, RolesSound, LobbyTypeOK
<1> QED
  BY <1>1, <1>5, <1>6, <1>7 DEF LobbyInv, OwnerOf

\* Every step preserves the invariant.
LEMMA LobbyStep == LobbyInv /\ [LobbyNext]_lobbyVars => LobbyInv'
<1> SUFFICES ASSUME LobbyInv, [LobbyNext]_lobbyVars PROVE LobbyInv'
  OBVIOUS
<1>1. CASE UNCHANGED lobbyVars
  BY <1>1 DEF lobbyVars, LobbyInv, RolesSound, LobbyTypeOK, RowsOf, OwnerOf
<1>2. ASSUME NEW c \in Calls,
             \/ JoinLobby(c) \/ JoinByCode(c) \/ WrongCode(c)
             \/ AlreadyMember(c) \/ NotYetMember(c) \/ InsertMember(c) \/ JoinTwice(c)
             \/ CreatorLeaves(c) \/ Leave(c) \/ CheckRole(c) \/ RoleTooLow(c)
             \/ TargetRefused(c) \/ LoadTarget(c)
             \/ NoTarget(c) \/ WriteRole(c) \/ RoleKept(c) \/ RoleLost(c) \/ DeleteMember(c)
             \/ Rename(c) \/ ResetCode(c) \/ CreateSeason(c) \/ ShowLobby(c)
      PROVE  LobbyInv'
  <2> DEFINE still == invite \in Codes /\ namedBy \in Users /\ seasons \subseteq Calls
  <2>1. still /\ op[c] \in Op
    BY DEF LobbyInv, RolesSound, LobbyTypeOK
  <2>2. {"ok", "already", "400", "403", "404", "500"} \cup Codes \subseteq Replies
    BY DEF Replies
  <2>3. CASE JoinLobby(c)
    BY <2>1, <2>3, MovingOn DEF JoinLobby
  <2>4. CASE JoinByCode(c)
    BY <2>1, <2>4, MovingOn DEF JoinByCode
  <2>5. CASE NotYetMember(c)
    BY <2>1, <2>5, MovingOn DEF NotYetMember
  <2>6. CASE InsertMember(c)
    BY <2>6, Inserting
  <2>7. CASE Leave(c)
    BY <2>1, <2>7, Loading DEF Leave, Op, Asks
  <2>8. CASE LoadTarget(c)
    BY <2>1, <2>8, Loading DEF LoadTarget, Op, Asks
  <2>9. CASE CheckRole(c)
    <3>1. CASE Asks(c, {"setRole", "kick"})
      BY <2>1, <2>9, <3>1, MovingOn DEF CheckRole
    <3>2. CASE ~Asks(c, {"setRole", "kick"})
      <4>1. op[c].kind # "setRole" /\ Pass(c, "new", "write")
        BY <2>9, <3>2 DEF CheckRole, Asks
      <4>2. LobbyTypeOK'
        BY <2>9, <4>1 DEF CheckRole, Pass, LobbyInv, RolesSound, LobbyTypeOK
      <4>3. RolesSound'
        BY <2>9, <4>2 DEF CheckRole, LobbyInv, RolesSound, RowsOf
      <4>4. \A m \in members : m.id # Founding => phase'[m.id] = "done"
        <5> SUFFICES ASSUME NEW m \in members, m.id # Founding PROVE phase'[m.id] = "done"
          OBVIOUS
        <5>1. m.id \in Calls /\ phase[m.id] = "done"
          BY DEF LobbyInv, RolesSound, LobbyTypeOK, Member
        <5> QED
          BY <4>1, <5>1 DEF Pass, LobbyInv, RolesSound, LobbyTypeOK
      <4>5. \A d \in Calls : phase'[d] = "write" => phase[d] = "write" \/ d = c
        BY <4>1 DEF Pass, LobbyInv, RolesSound, LobbyTypeOK
      <4> QED
        BY <2>9, <4>1, <4>3, <4>4, <4>5 DEF CheckRole, LobbyInv, OwnerOf
    <3> QED
      BY <3>1, <3>2
  <2>10. CASE WriteRole(c)
    BY <2>10, WritingRole
  <2>11. CASE DeleteMember(c)
    BY <2>11, Deleting
  <2>12. CASE Rename(c)
    BY <2>1, <2>2, <2>12, MovingOn DEF Rename, Op
  <2>13. CASE ResetCode(c)
    BY <2>1, <2>2, <2>13, MovingOn DEF ResetCode
  <2>14. CASE CreateSeason(c)
    BY <2>1, <2>2, <2>14, MovingOn DEF CreateSeason
  <2>15. CASE ShowLobby(c)
    BY <2>1, <2>2, <2>15, Refusing DEF ShowLobby
  <2>16. CASE WrongCode(c)
    BY <2>2, <2>16, Refusing DEF WrongCode
  <2>17. CASE \/ AlreadyMember(c) \/ JoinTwice(c) \/ CreatorLeaves(c) \/ RoleTooLow(c)
    BY <2>2, <2>17, Refusing DEF AlreadyMember, JoinTwice, CreatorLeaves, RoleTooLow
  <2>18. CASE \/ TargetRefused(c) \/ NoTarget(c) \/ RoleKept(c) \/ RoleLost(c)
    BY <2>2, <2>18, Refusing DEF TargetRefused, NoTarget, RoleKept, RoleLost
  <2> QED
    BY <1>2, <2>3, <2>4, <2>5, <2>6, <2>7, <2>8, <2>9, <2>10, <2>11, <2>12, <2>13, <2>14, <2>15,
       <2>16, <2>17, <2>18
<1> QED
  BY <1>1, <1>2 DEF LobbyNext

\* For any number of concurrent calls, an id is one user's for ever, and no call holds
\* the creator's row to write to.
THEOREM LobbyInvariant == LobbySpec => []LobbyInv
  BY LobbyBegins, LobbyStep, PTL DEF LobbySpec

\* For any number of concurrent calls, the creator is a member and the only admin, nobody
\* is a member twice, and a moderator was made one in this membership.
THEOREM RolesAreSound == LobbySpec => []RolesSound
<1>1. LobbyInv => RolesSound
  BY DEF LobbyInv
<1> QED
  BY <1>1, LobbyInvariant, PTL

-----------------------------------------------------------------------------
(* Contracts.                                                               *)

\* Teams' drivers are numbers, and no driver is of two teams.
LEMMA DriversApart ==
  /\ \A t \in Teams : DriversOf[t] \subseteq Nat
  /\ \A t, u \in Teams : \A x \in DriversOf[t] : x \in DriversOf[u] => t = u
<1> DEFINE own(x) == CASE x \in {1, 25, 44, 63} -> 0 [] x \in {17, 20, 55} -> 1 [] x \in {18, 33} -> 2
                       [] x \in {19, 40} -> 3 [] x \in {14, 45} -> 4 [] x \in {31, 38} -> 5
                       [] x \in {35, 41} -> 6 [] x \in {22, 36} -> 7 [] x \in {4, 43, 81} -> 8 [] OTHER -> 9
<1>1. ASSUME NEW t \in Teams, NEW x \in DriversOf[t] PROVE x \in Nat /\ own(x) = t
  <2>1. t \in {0, 1, 2, 3, 4, 5, 6, 7, 8, 9}
    BY DEF Teams
  <2>2. CASE t \in {0, 1, 2, 3}
    BY <1>1, <2>2 DEF DriversOf, Teams
  <2>3. CASE t \in {4, 5, 6}
    BY <1>1, <2>3 DEF DriversOf, Teams
  <2>4. CASE t \in {7, 8, 9}
    BY <1>1, <2>4 DEF DriversOf, Teams
  <2> QED
    BY <2>1, <2>2, <2>3, <2>4
<1> HIDE DEF own
<1> QED
  BY <1>1

\* Tiers are 0 to 9, of which one team has the highest and one the lowest.
LEMMA TierEnds ==
  ASSUME NEW t \in Teams \cup {FreeAgent}
  PROVE  Tier[t] \in 0..9 /\ (Tier[t] = 9 => t = 2) /\ (Tier[t] = 0 => t = 7)
<1>1. t \in {-1, 0, 1, 2, 3, 4, 5, 6, 7, 8, 9}
  BY DEF Teams, FreeAgent
<1> QED
  BY <1>1 DEF Tier, Teams, FreeAgent

\* What is picked for a pilot are offers of other teams: the hot one of a better team,
\* the long shot of a worse one.
LEMMA PickedSensibly ==
  ASSUME NEW merit \in 0..3, NEW team \in Teams \cup {FreeAgent}, NEW o \in PickOffers(merit, team)
  PROVE  /\ o \in Offer /\ o.team # team
         /\ o.kind = "HOT OFFER" => Tier[o.team] > Tier[team]
         /\ o.kind = "LONG-SHOT" => Tier[o.team] < Tier[team]
<1> DEFINE others == Teams \ {team}
           tier   == Tier[team]
           hot    == {t \in others : Tier[t] >= Lower(9, tier + Higher(1, merit))}
           mid    == {t \in others : Tier[t] = Higher(0, tier - 1)}
           long   == {t \in others : Tier[t] =< Higher(0, tier - 2)}
           second == {t \in others : Cardinality({u \in others : u < t}) = 1}
           As(kind, S) == {[kind |-> kind, team |-> t] : t \in S}
           plain  == IF mid = {} THEN second ELSE mid
<1>0. o \in As("HOT OFFER", BestOf(hot)) \cup As("OFFER", plain) \cup As("LONG-SHOT", WorstOf(long))
  BY DEF PickOffers
<1>1. /\ o.kind \in {"HOT OFFER", "OFFER", "LONG-SHOT"} /\ o.team \in others
      /\ o = [kind |-> o.kind, team |-> o.team]
      /\ o.kind = "HOT OFFER" => o.team \in hot
      /\ o.kind = "LONG-SHOT" => o.team \in long
  <2>1. BestOf(hot) \subseteq hot /\ WorstOf(long) \subseteq long
    BY DEF BestOf, WorstOf
  <2>2. hot \subseteq others /\ long \subseteq others /\ plain \subseteq others
    OBVIOUS
  <2> HIDE DEF others, hot, long, mid, second, plain, tier
  <2>3. CASE o \in As("HOT OFFER", BestOf(hot))
    <3>1. PICK t \in BestOf(hot) : o = [kind |-> "HOT OFFER", team |-> t]
      BY <2>3
    <3> QED
      BY <2>1, <2>2, <3>1
  <2>4. CASE o \in As("OFFER", plain)
    <3>1. PICK t \in plain : o = [kind |-> "OFFER", team |-> t]
      BY <2>4
    <3> QED
      BY <2>2, <3>1
  <2>5. CASE o \in As("LONG-SHOT", WorstOf(long))
    <3>1. PICK t \in WorstOf(long) : o = [kind |-> "LONG-SHOT", team |-> t]
      BY <2>5
    <3> QED
      BY <2>1, <2>2, <3>1
  <2> QED
    BY <1>0, <2>3, <2>4, <2>5
<1>2. o \in Offer
  BY <1>1 DEF Offer
<1>3. Tier[team] \in 0..9 /\ Tier[o.team] \in 0..9 /\ o.team # team
  BY <1>1, TierEnds
<1>4. ASSUME o.kind = "HOT OFFER" PROVE Tier[o.team] > Tier[team]
  <2>1. Tier[o.team] >= Lower(9, Tier[team] + Higher(1, merit))
    BY <1>1, <1>4
  <2>2. Tier[o.team] = 9 \/ Tier[o.team] > Tier[team]
    BY <1>3, <2>1 DEF Lower, Higher
  <2>3. Tier[o.team] = 9 /\ Tier[team] = 9 => o.team = 2 /\ team = 2
    BY <1>1, TierEnds
  <2> QED
    BY <1>3, <2>2, <2>3
<1>5. ASSUME o.kind = "LONG-SHOT" PROVE Tier[o.team] < Tier[team]
  <2>1. Tier[o.team] =< Higher(0, Tier[team] - 2)
    BY <1>1, <1>5
  <2>2. Tier[o.team] = 0 \/ Tier[o.team] < Tier[team]
    BY <1>3, <2>1 DEF Higher
  <2>3. Tier[o.team] = 0 /\ Tier[team] = 0 => o.team = 7 /\ team = 7
    BY <1>1, TierEnds
  <2> QED
    BY <1>3, <2>2, <2>3
<1> QED
  BY <1>2, <1>3, <1>4, <1>5

\* Nothing is signed at the beginning.
LEMMA DealsBegin == ContractsInit => DealsInv /\ OffersSensible
  BY ContractsAssumption
  DEF ContractsInit, DealsInv, ContractsTypeOK, OneSeatEach, OffersSensible, Signing, AtWork

\* A deal that moves on, and signs or picks nothing, disturbs nothing.
LEMMA DealMovesOn ==
  ASSUME DealsInv, NEW d \in Deals,
         NEW to \in {"old", "sign", "read", "store", "done", "refused"}, NEW from, Stage(d, from, to),
         ~Signing(d) => ~Signing(d)', Signing(d)' => seat[d] \in DriversOf[wish[d].team],
         to \notin {"old", "sign"},
         UNCHANGED <<contracts, wish, seat, former, signedOver, dealRestarts>>,
         current' \in [Deals -> SUBSET Contract], offers' \in [Seasons -> SUBSET Proposal]
  PROVE  DealsInv'
<1>1. ContractsTypeOK'
  BY DEF DealsInv, ContractsTypeOK, Stage
<1>2. \A e \in Deals : /\ Signing(e)' => Signing(e)
                       /\ stage'[e] \in {"old", "sign"} => stage[e] = stage'[e]
  BY DEF DealsInv, ContractsTypeOK, Stage, Signing
<1> QED
  BY <1>1, <1>2 DEF DealsInv, OneSeatEach, AtWork, Signing

\* An acceptance picks a seat that nobody has, and is noted with its rivals.
LEMMA Picking ==
  ASSUME DealsInv, NEW d \in Deals, PickDriver(d)
  PROVE  DealsInv'
<1> USE DEF PickDriver, Stage
<1>1. PICK x \in FreeDrivers(d) : seat' = [seat EXCEPT ![d] = x]
  OBVIOUS
<1>2. wish[d] \in Wish /\ wish[d].team \in Teams /\ wish[d].season \in Seasons /\ wish[d].pilot \in Pilots
  BY DEF DealsInv, ContractsTypeOK, Wish
<1>3. x \in Nat /\ x \in DriversOf[wish[d].team]
  BY <1>2, DriversApart DEF FreeDrivers
<1>4. signedOver \subseteq signedOver' /\ signedOver' \subseteq Seasons \X (Pilots \cup Teams)
  BY <1>2 DEF DealsInv, ContractsTypeOK
<1>5. ContractsTypeOK'
  BY <1>1, <1>3, <1>4 DEF DealsInv, ContractsTypeOK
<1>6. \A e \in Deals : stage'[e] = IF e = d THEN "old" ELSE stage[e]
  BY DEF DealsInv, ContractsTypeOK
<1>7. \A e \in Deals : seat'[e] = IF e = d THEN x ELSE seat[e]
  BY <1>1 DEF DealsInv, ContractsTypeOK
<1>8. \A e \in Deals \ {d} : Signing(e)' <=> Signing(e)
  BY <1>6 DEF Signing
<1>9. ASSUME NEW e \in Deals \ {d}, Signing(e), wish[e].season = wish[d].season
      PROVE  /\ wish[e].team = wish[d].team => <<wish[d].season, wish[d].team>> \in signedOver'
             /\ wish[e].pilot = wish[d].pilot => <<wish[d].season, wish[d].pilot>> \in signedOver'
  <2>1. e \in Rivals(d)
    BY <1>9 DEF Rivals
  <2> QED
    BY <2>1
<1>10. ASSUME NEW c \in contracts, c.season = wish[d].season, c.driver = x PROVE FALSE
  <2>1. c.team \in Teams /\ c.driver \in DriversOf[c.team]
    BY DEF DealsInv, ContractsTypeOK, Contract
  <2>2. c.team = wish[d].team
    BY <1>2, <1>3, <1>10, <2>1, DriversApart
  <2>3. c.driver \in TakenDrivers(wish[d].season, wish[d].team)
    BY <1>10, <2>2 DEF TakenDrivers
  <2> QED
    BY <1>10, <2>3 DEF FreeDrivers
<1>11. OneSeatEach'
  BY <1>4 DEF DealsInv, OneSeatEach
<1>12. \A e \in Deals : stage'[e] \in {"old", "sign"} => Signing(e)' /\ seat'[e] \in DriversOf[wish[e].team]
  BY <1>3, <1>6, <1>7 DEF DealsInv, Signing
<1>13. ASSUME NEW e \in Deals, NEW f \in Deals, AtWork(e, f)'
       PROVE  /\ wish[e].team = wish[f].team => <<wish[e].season, wish[e].team>> \in signedOver'
              /\ wish[e].pilot = wish[f].pilot => <<wish[e].season, wish[e].pilot>> \in signedOver'
  <2>1. CASE e = d
    <3>1. f \in Deals \ {d} /\ Signing(f) /\ wish[f].season = wish[d].season
      BY <1>8, <1>13, <2>1 DEF AtWork
    <3> QED
      BY <1>9, <2>1, <3>1
  <2>2. CASE f = d
    <3>1. e \in Deals \ {d} /\ Signing(e) /\ wish[e].season = wish[d].season
      BY <1>8, <1>13, <2>2 DEF AtWork
    <3> QED
      BY <1>9, <2>2, <3>1
  <2>3. CASE e # d /\ f # d
    <3>1. AtWork(e, f)
      BY <1>8, <1>13, <2>3 DEF AtWork
    <3> QED
      BY <1>4, <3>1 DEF DealsInv
  <2> QED
    BY <2>1, <2>2, <2>3
<1>14. ASSUME NEW e \in Deals, NEW c \in contracts, Signing(e)', c.season = wish[e].season
       PROVE  /\ c.driver = seat'[e] => <<c.season, c.team>> \in signedOver'
              /\ stage'[e] = "sign" /\ c.pilot = wish[e].pilot /\ c # former[e] =>
                     <<c.season, c.pilot>> \in signedOver'
  BY <1>4, <1>6, <1>7, <1>8, <1>10, <1>14 DEF DealsInv
<1> QED
  BY <1>5, <1>11, <1>12, <1>13, <1>14 DEF DealsInv, AtWork, Signing

\* The contract to replace is the pilot's only one, or his others are noted.
LEMMA ReadingFormer ==
  ASSUME DealsInv, NEW d \in Deals, ReadFormer(d)
  PROVE  DealsInv'
<1> USE DEF ReadFormer, Stage
<1> DEFINE mine == ContractsOf(wish[d].season, wish[d].pilot)
<1>1. PICK c \in (IF mine = {} THEN {NoContract} ELSE mine) : former' = [former EXCEPT ![d] = c]
  OBVIOUS
<1>2. c \in Contract \cup {NoContract}
  BY DEF ContractsOf, DealsInv, ContractsTypeOK
<1>3. ContractsTypeOK'
  BY <1>1, <1>2 DEF DealsInv, ContractsTypeOK
<1>4. \A e \in Deals : /\ stage'[e] = IF e = d THEN "sign" ELSE stage[e]
                       /\ former'[e] = IF e = d THEN c ELSE former[e]
  BY <1>1 DEF DealsInv, ContractsTypeOK
<1>5. \A e \in Deals : Signing(e)' <=> Signing(e)
  BY <1>4 DEF Signing
<1>6. ASSUME NEW k \in contracts, k.season = wish[d].season, k.pilot = wish[d].pilot, k # c
      PROVE  <<k.season, k.pilot>> \in signedOver
  <2>1. k \in mine /\ c \in mine
    BY <1>6 DEF ContractsOf
  <2> QED
    BY <1>6, <2>1 DEF ContractsOf, DealsInv, OneSeatEach
<1>7. \A e \in Deals, k \in contracts : Signing(e)' /\ k.season = wish[e].season =>
          /\ k.driver = seat[e] => <<k.season, k.team>> \in signedOver
          /\ stage'[e] = "sign" /\ k.pilot = wish[e].pilot /\ k # former'[e] =>
                <<k.season, k.pilot>> \in signedOver
  BY <1>4, <1>5, <1>6 DEF DealsInv
<1>8. \A e \in Deals : stage'[e] \in {"old", "sign"} => Signing(e)' /\ seat[e] \in DriversOf[wish[e].team]
  BY <1>4, <1>5 DEF DealsInv
<1>9. \A e, f \in Deals : AtWork(e, f)' => AtWork(e, f)
  BY <1>5 DEF AtWork
<1> QED
  BY <1>3, <1>7, <1>8, <1>9 DEF DealsInv, OneSeatEach, Signing

\* A contract is signed for a seat and a pilot that only noted rivals share.
LEMMA SigningIt ==
  ASSUME DealsInv, NEW d \in Deals, SignContract(d)
  PROVE  DealsInv'
<1> USE DEF SignContract, Stage
<1> DEFINE new == [by |-> d, season |-> wish[d].season, pilot |-> wish[d].pilot,
                   team |-> wish[d].team, driver |-> seat[d]]
<1>1. Signing(d) /\ seat[d] \in DriversOf[wish[d].team] /\ wish[d] \in Wish /\ seat[d] \in Nat
  BY DEF DealsInv, ContractsTypeOK
<1>2. new \in Contract /\ wish[d].team \in Teams
  BY <1>1 DEF Contract, Wish
<1>3. contracts' = (contracts \ {former[d]}) \cup {new}
  OBVIOUS
<1>4. new.season = wish[d].season /\ new.pilot = wish[d].pilot /\ new.team = wish[d].team /\ new.driver = seat[d]
  OBVIOUS
<1> HIDE DEF new
<1>5. ContractsTypeOK'
  BY <1>2, <1>3 DEF DealsInv, ContractsTypeOK
<1>6. \A e \in Deals : stage'[e] = IF e = d THEN "done" ELSE stage[e]
  BY DEF DealsInv, ContractsTypeOK
<1>7. \A e \in Deals : Signing(e)' => Signing(e) /\ e # d
  BY <1>6 DEF Signing
<1>8. \A c \in contracts' : c.driver \in DriversOf[c.team] /\ c.team \in Teams
  BY <1>1, <1>2, <1>3, <1>4 DEF DealsInv, ContractsTypeOK, Contract
<1>9. ASSUME NEW c \in contracts, c # former[d], c.season = new.season
      PROVE  /\ c.pilot = new.pilot => <<c.season, c.pilot>> \in signedOver
             /\ c.driver = new.driver => <<c.season, c.team>> \in signedOver /\ c.team = new.team
  <2>1. c.driver = new.driver => c.team = new.team
    BY <1>1, <1>2, <1>4, DriversApart DEF DealsInv, ContractsTypeOK, Contract
  <2> QED
    BY <1>1, <1>4, <1>9, <2>1 DEF DealsInv
<1>10. OneSeatEach'
  BY <1>3, <1>9 DEF DealsInv, OneSeatEach
<1>11. ASSUME NEW e \in Deals, Signing(e)', NEW c \in contracts', c.season = wish[e].season
       PROVE  /\ c.driver = seat[e] => <<c.season, c.team>> \in signedOver
              /\ stage'[e] = "sign" /\ c.pilot = wish[e].pilot /\ c # former[e] =>
                    <<c.season, c.pilot>> \in signedOver
  <2>1. CASE c \in contracts
    BY <1>6, <1>7, <1>11, <2>1 DEF DealsInv
  <2>2. CASE c = new
    <3>1. AtWork(d, e)
      BY <1>1, <1>4, <1>7, <1>11, <2>2 DEF AtWork
    <3>2. seat[e] \in DriversOf[wish[e].team] /\ wish[e].team \in Teams
      BY <1>7, <1>11 DEF DealsInv, Signing, ContractsTypeOK, Wish
    <3>3. c.driver = seat[e] => c.team = wish[e].team
      BY <1>1, <1>2, <1>4, <2>2, <3>2, DriversApart
    <3> QED
      BY <1>4, <2>2, <3>1, <3>3 DEF DealsInv
  <2> QED
    BY <1>3, <2>1, <2>2
<1>12. \A e \in Deals : stage'[e] \in {"old", "sign"} => Signing(e)' /\ seat[e] \in DriversOf[wish[e].team]
  BY <1>6 DEF DealsInv, Signing
<1>13. \A e, f \in Deals : AtWork(e, f)' => AtWork(e, f)
  BY <1>7 DEF AtWork
<1> QED
  BY <1>5, <1>8, <1>10, <1>11, <1>12, <1>13 DEF DealsInv, Signing

\* What is stored is picked for the pilots who drove, from what they drive for.
LEMMA Storing ==
  ASSUME DealsInv, OffersSensible, NEW d \in Deals, StoreOffers(d)
  PROVE  offers' \in [Seasons -> SUBSET Proposal] /\ OffersSensible'
<1> DEFINE s == wish[d].season
<1>1. s \in Seasons /\ Driven[s] \subseteq Pilots
  BY ContractsAssumption DEF DealsInv, ContractsTypeOK, Wish
<1>2. PICK team \in [Driven[s] -> Teams \cup {FreeAgent}] :
        offers' = [offers EXCEPT ![s] =
          {[pilot |-> p, team |-> team[p], offers |-> PickOffers(Merit[p], team[p])] : p \in Driven[s]}]
  BY DEF StoreOffers
<1> HIDE DEF s
<1>3. ASSUME NEW p \in Driven[s]
      PROVE  /\ p \in Pilots /\ team[p] \in Teams \cup {FreeAgent}
             /\ PickOffers(Merit[p], team[p]) \subseteq Offer
             /\ \A o \in PickOffers(Merit[p], team[p]) :
                   /\ o.team # team[p]
                   /\ o.kind = "HOT OFFER" => Tier[o.team] > Tier[team[p]]
                   /\ o.kind = "LONG-SHOT" => Tier[o.team] < Tier[team[p]]
  <2>1. Merit[p] \in 0..3 /\ team[p] \in Teams \cup {FreeAgent}
    BY <1>1, ContractsAssumption
  <2> QED
    BY <1>1, <2>1, PickedSensibly
<1> DEFINE drawn == {[pilot |-> p, team |-> team[p], offers |-> PickOffers(Merit[p], team[p])] : p \in Driven[s]}
<1> DEFINE Sensible(x) == \A o \in x.offers :
                /\ o.team # x.team
                /\ o.kind = "HOT OFFER" => Tier[o.team] > Tier[x.team]
                /\ o.kind = "LONG-SHOT" => Tier[o.team] < Tier[x.team]
<1>4. ASSUME NEW x \in drawn PROVE x \in Proposal /\ Sensible(x)
  <2>1. PICK p \in Driven[s] :
          x = [pilot |-> p, team |-> team[p], offers |-> PickOffers(Merit[p], team[p])]
    BY <1>4
  <2>2. x.pilot = p /\ x.team = team[p] /\ x.offers = PickOffers(Merit[p], team[p])
    BY <2>1
  <2>3. x \in Proposal
    BY <1>3, <2>1 DEF Proposal
  <2> QED
    BY <1>3, <2>2, <2>3
<1> HIDE DEF drawn
<1>5. offers \in [Seasons -> SUBSET Proposal] /\ offers' = [offers EXCEPT ![s] = drawn]
  BY <1>2 DEF DealsInv, ContractsTypeOK, drawn
<1>6. drawn \in SUBSET Proposal
  BY <1>4
<1>7. \A z \in Seasons : offers'[z] = IF z = s THEN drawn ELSE offers[z]
  BY <1>1, <1>5
<1>8. offers' \in [Seasons -> SUBSET Proposal]
  BY <1>1, <1>5, <1>6
<1>9. \A z \in Seasons : \A x \in offers'[z] : Sensible(x)
  <2> HIDE DEF Sensible
  <2>1. \A z \in Seasons : \A x \in offers[z] : Sensible(x)
    BY DEF OffersSensible, Sensible
  <2> QED
    BY <1>4, <1>7, <2>1
<1>10. OffersSensible'
  BY <1>9 DEF OffersSensible
<1> QED
  BY <1>8, <1>10

\* Every step preserves the invariant and keeps the offers sensible.
LEMMA DealsStep ==
  DealsInv /\ OffersSensible /\ [ContractsNext]_contractVars => DealsInv' /\ OffersSensible'
<1> SUFFICES ASSUME DealsInv, OffersSensible, [ContractsNext]_contractVars
             PROVE  DealsInv' /\ OffersSensible'
  OBVIOUS
<1>0. offers \in [Seasons -> SUBSET Proposal] /\ current \in [Deals -> SUBSET Contract]
  BY DEF DealsInv, ContractsTypeOK
<1>1. CASE UNCHANGED contractVars
  BY <1>1 DEF contractVars, DealsInv, ContractsTypeOK, OneSeatEach, OffersSensible, Signing, AtWork
<1>2. ASSUME NEW d \in Deals, \/ NotYours(d) \/ TeamFull(d) \/ Denied(d) \/ Generate(d)
                              \/ GetCached(d) \/ GetMissing(d)
      PROVE  DealsInv' /\ OffersSensible'
  <2>1. /\ \E to \in {"read", "done", "refused"} : Stage(d, "new", to)
        /\ UNCHANGED <<contracts, offers, wish, seat, former, current, signedOver, dealRestarts>>
    BY <1>2 DEF NotYours, TeamFull, Denied, Generate, GetCached, GetMissing
  <2>2. PICK to \in {"read", "done", "refused"} : Stage(d, "new", to)
    BY <2>1
  <2>3. stage'[d] = to
    BY <2>2 DEF Stage, DealsInv, ContractsTypeOK
  <2>4. ~Signing(d)'
    BY <2>2, <2>3 DEF Signing
  <2> QED
    BY <1>0, <2>1, <2>2, <2>4, DealMovesOn DEF OffersSensible
<1>3. ASSUME NEW d \in Deals, PickDriver(d) PROVE DealsInv' /\ OffersSensible'
  BY <1>3, Picking DEF PickDriver, OffersSensible
<1>4. ASSUME NEW d \in Deals, ReadFormer(d) PROVE DealsInv' /\ OffersSensible'
  BY <1>4, ReadingFormer DEF ReadFormer, OffersSensible
<1>5. ASSUME NEW d \in Deals, SignContract(d) PROVE DealsInv' /\ OffersSensible'
  BY <1>5, SigningIt DEF SignContract, OffersSensible
<1>6. ASSUME NEW d \in Deals, ReadContracts(d) PROVE DealsInv' /\ OffersSensible'
  <2> USE DEF ReadContracts
  <2>1. {c \in contracts : c.season = wish[d].season} \subseteq Contract
    BY DEF DealsInv, ContractsTypeOK
  <2>2. current' \in [Deals -> SUBSET Contract]
    BY <1>0, <1>6, <2>1
  <2>3. stage'[d] = "store"
    BY <1>6 DEF Stage, DealsInv, ContractsTypeOK
  <2>4. ~Signing(d)' /\ Stage(d, "read", "store")
    BY <1>6, <2>3 DEF Signing
  <2> QED
    BY <1>0, <1>6, <2>2, <2>4, DealMovesOn DEF OffersSensible
<1>7. ASSUME NEW d \in Deals, StoreOffers(d) PROVE DealsInv' /\ OffersSensible'
  <2>1. stage'[d] = "done"
    BY <1>7 DEF StoreOffers, Stage, DealsInv, ContractsTypeOK
  <2>2. ~Signing(d)' /\ Stage(d, "store", "done")
    BY <1>7, <2>1 DEF Signing, StoreOffers
  <2>3. UNCHANGED <<contracts, wish, seat, former, current, signedOver, dealRestarts>>
    BY <1>7 DEF StoreOffers
  <2>4. offers' \in [Seasons -> SUBSET Proposal] /\ OffersSensible'
    BY <1>7, Storing
  <2> QED
    BY <1>0, <2>2, <2>3, <2>4, DealMovesOn
<1>8. CASE LoseOffers
  <2> USE DEF LoseOffers
  <2>1. ContractsTypeOK'
    BY <1>8, ContractsAssumption DEF DealsInv, ContractsTypeOK
  <2>2. \A e \in Deals : stage'[e] \in {"new", "done"}
    BY <1>8
  <2>3. \A e \in Deals : ~Signing(e)'
    BY <2>2 DEF Signing
  <2>4. OffersSensible'
    BY <1>8 DEF OffersSensible
  <2> QED
    BY <1>8, <2>1, <2>2, <2>3, <2>4 DEF DealsInv, OneSeatEach, AtWork
<1> QED
  BY <1>1, <1>2, <1>3, <1>4, <1>5, <1>6, <1>7, <1>8 DEF ContractsNext

\* For any number of deals: a seat or a pilot is shared only where two acceptances that
\* met were at work at once, and the offers cached are what their names promise.
THEOREM DealsAreSound == ContractsSpec => []DealsSound
<1>1. DealsInv /\ OffersSensible => DealsSound
  BY DEF DealsInv, DealsSound
<1> QED
  BY <1>1, DealsBegin, DealsStep, PTL DEF ContractsSpec

-----------------------------------------------------------------------------
(* Accounts. *)

\* A row has the e-mail address of its Google account.
RowTrue(u) == u.google # Nothing => u.email = MailOf[u.google]

\* The id, the e-mail address and the Steam account of a row stay, and without an e-mail
\* address its Google account does too.
SameRow(u, v) == /\ u.id = v.id /\ u.email = v.email /\ u.steam = v.steam
                 /\ u.email = Nothing => u.google = v.google
RowsKept == \A u \in users : \E v \in users' : SameRow(v, u)

\* Ids, e-mail addresses, Google and Steam accounts are unique.
UsersTrue ==
    /\ \A u \in users : RowTrue(u) /\ pos[u.id] = "done"
    /\ \A u, v \in users : u.id = v.id => u = v
    /\ \A u, v \in users : u.email # Nothing /\ u.email = v.email => u = v
    /\ \A u, v \in users : u.google # Nothing /\ u.google = v.google => u = v
    /\ \A u, v \in users : u.steam # Nothing /\ u.steam = v.steam => u = v

\* A request that will save a row has made it, or has read one that is still there.
SaveIn(rows, c, at, row) ==
    /\ at = "mail" => Is(c, "google")
    /\ at = "save" =>
        /\ row \in User /\ RowTrue(row)
        /\ row.id = c \/ \E v \in rows : SameRow(v, row)
        /\ form[c].kind \in {"register", "google", "steam"}
        /\ form[c].kind \in {"register", "google"} => row.email = MailAsked(c)
        /\ Is(c, "google") => row.google = form[c].google
        /\ Is(c, "steam") => row.steam = form[c].steam

\* A token is of the user whom the request is about, and so is a code.
TokenIn(rows, s) ==
    /\ form[s[1]].kind \in {"register", "login", "google"} =>
          \E u \in rows : /\ u.id = s[2] /\ u.email = MailAsked(s[1])
                          /\ u.email = Nothing => u.google = form[s[1]].google
    /\ Is(s[1], "exchange") => \E u \in rows : u.id = s[2] /\ u.steam = SteamAsked(s[1])
CodeIn(rows, k, id) == k \in SignIns /\ \E u \in rows : u.id = id /\ u.steam = form[k].steam

RowsTrue ==
    /\ UsersTrue
    /\ \A c \in SignIns : SaveIn(users, c, pos[c], account[c])
    /\ \A s \in signed : TokenIn(users, s)
    /\ \A k \in DOMAIN codes : CodeIn(users, k, codes[k].user)

\* No two tickets were made in one moment.
MadeOf(T, now) ==
    /\ IsFiniteSet(T) /\ T \subseteq {"code", "poll"} \X (SignIns \cup Polls) \X Nat
    /\ \A t \in T : t[3] < now
    /\ \A t, u \in T : t[3] = u[3] => t = u

\* What a store holds was made and not handed out.
StoreOf(store, kind, ttl, given) ==
    /\ Store(store) /\ IsFiniteSet(DOMAIN store)
    /\ \A x \in DOMAIN store : store[x].expires >= ttl /\ <<kind, x, store[x].expires - ttl>> \in given

\* What was not handed out is there, or need not be.
NewerOf(T, t) == {u \in T : u[1] = t[1] /\ u[3] > t[3]}
HeldIn(store, ttl, t) == t[2] \in DOMAIN store /\ store[t[2]].expires = t[3] + ttl
KeptIn(store, ttl, now, T, t) ==
    \/ HeldIn(store, ttl, t)
    \/ now > t[3] + ttl
    \/ Cardinality(NewerOf(T, t)) >= StoreMax
    \/ \E u \in NewerOf(T, t) : u[2] = t[2]
StoreKeeps(store, kind, ttl, now, T, given) ==
    \A t \in given : t[1] = kind => KeptIn(store, ttl, now, T, t)

StoresTrue ==
    /\ MadeOf(made, clock)
    /\ StoreOf(codes, "code", CodeTTL, made \ handed)
    /\ StoreOf(loginPolls, "poll", PollTTL, made \ handed)
    /\ crashes = 0 => /\ StoreKeeps(codes, "code", CodeTTL, clock, made, made \ handed)
                      /\ StoreKeeps(loginPolls, "poll", PollTTL, clock, made, made \ handed)

\* The inductive invariant.
AccountsInv == AccountsTypeOK /\ RowsTrue /\ StoresTrue

\* What is left of a store after entries have gone is a store.
LEMMA StoreType ==
  ASSUME NEW store, Store(store)
  PROVE  /\ \A S \in SUBSET (DOMAIN store) : Store(Restrict(store, S)) /\ DOMAIN Restrict(store, S) = S
                                             /\ \A x \in S : Restrict(store, S)[x] = store[x]
         /\ \A x \in DOMAIN store : store[x] \in Ticket /\ x \in SignIns \cup Polls
<1>1. \A x \in DOMAIN store : store[x] \in Ticket /\ x \in SignIns \cup Polls
  BY DEF Store
<1>2. ASSUME NEW S \in SUBSET (DOMAIN store)
      PROVE  Store(Restrict(store, S)) /\ DOMAIN Restrict(store, S) = S /\ \A x \in S : Restrict(store, S)[x] = store[x]
  BY <1>1 DEF Store, Restrict
<1> QED BY <1>1, <1>2

\* What has not expired.
Live(store) == {y \in DOMAIN store : store[y].expires >= clock}

\* What Room leaves: all that has not expired, but when the store is full, what expires first.
LEMMA RoomLeft ==
  ASSUME NEW store, Store(store), clock \in Nat
  PROVE  /\ DOMAIN Room(store) \subseteq DOMAIN store
         /\ Store(Room(store))
         /\ \A x \in DOMAIN Room(store) : Room(store)[x] = store[x]
         /\ \A x \in DOMAIN store \ DOMAIN Room(store) :
               \/ store[x].expires < clock
               \/ /\ ~(Cardinality(Live(store)) < StoreMax) /\ x \in Live(store)
                  /\ \A y \in Live(store) : store[x].expires =< store[y].expires
<1> DEFINE live   == Live(store)
           oldest == {x \in live : \A y \in live : store[x].expires =< store[y].expires}
           left   == IF Cardinality(live) < StoreMax THEN live ELSE live \ oldest
<1>1. Room(store) = Restrict(store, left)
  BY DEF Room, Live
<1>2. left \in SUBSET (DOMAIN store)
  BY DEF Live
<1>3. DOMAIN Room(store) = left /\ Store(Room(store)) /\ \A x \in left : Room(store)[x] = store[x]
  <2> HIDE DEF left
  <2> QED BY <1>1, <1>2, StoreType
<1>4. ASSUME NEW x \in DOMAIN store, x \notin left, ~(store[x].expires < clock)
      PROVE  ~(Cardinality(live) < StoreMax) /\ x \in live /\ \A y \in live : store[x].expires =< store[y].expires
  <2>1. store[x].expires \in Nat
    BY StoreType DEF Ticket
  <2>2. x \in live
    BY <1>4, <2>1 DEF Live
  <2> HIDE DEF live
  <2>3. ~(Cardinality(live) < StoreMax) /\ x \in oldest
    BY <1>4, <2>2
  <2> QED BY <2>2, <2>3
<1> HIDE DEF left, oldest
<1> QED BY <1>2, <1>3, <1>4

\* Tickets that are newer stay newer, and there come only more of them.
LEMMA NewerGrow ==
  ASSUME NEW T, NEW U, T \subseteq U, IsFiniteSet(U), NEW t
  PROVE  /\ NewerOf(T, t) \subseteq NewerOf(U, t) /\ IsFiniteSet(NewerOf(U, t))
         /\ Cardinality(NewerOf(T, t)) \in Nat /\ Cardinality(NewerOf(U, t)) \in Nat
         /\ Cardinality(NewerOf(T, t)) <= Cardinality(NewerOf(U, t))
<1>1. NewerOf(T, t) \in SUBSET NewerOf(U, t) /\ NewerOf(U, t) \in SUBSET U
  BY DEF NewerOf
<1>2. IsFiniteSet(NewerOf(U, t))
  BY <1>1, FS_Subset
<1>3. IsFiniteSet(NewerOf(T, t)) /\ Cardinality(NewerOf(T, t)) <= Cardinality(NewerOf(U, t))
  BY <1>1, <1>2, FS_Subset
<1> QED BY <1>1, <1>2, <1>3, FS_CardinalityType

\* A new ticket differs from all there were.
LEMMA TicketMade ==
  ASSUME NEW T, NEW now \in Nat, MadeOf(T, now), NEW kind \in {"code", "poll"}, NEW name \in SignIns \cup Polls
  PROVE  MadeOf(T \cup {<<kind, name, now>>}, now + 1)
<1>1. IsFiniteSet(T \cup {<<kind, name, now>>})
  BY FS_AddElement DEF MadeOf
<1>2. \A t \in T : t[3] \in Nat /\ t[3] < now
  BY DEF MadeOf
<1>3. \A t \in T \cup {<<kind, name, now>>} : t[3] < now + 1
  BY <1>2
<1>4. \A t, u \in T \cup {<<kind, name, now>>} : t[3] = u[3] => t = u
  BY <1>2 DEF MadeOf
<1> QED BY <1>1, <1>3, <1>4 DEF MadeOf

\* What a full store throws out has been followed by as many tickets as the store holds.
LEMMA ThrownOut ==
  ASSUME NEW T, clock \in Nat, MadeOf(T, clock), NEW H, NEW store, NEW kind \in {"code", "poll"}, NEW ttl \in Nat,
         StoreOf(store, kind, ttl, T \ H), NEW t \in T, t[1] = kind, HeldIn(store, ttl, t),
         Cardinality(Live(store)) >= StoreMax, t[2] \in Live(store),
         \A y \in Live(store) : store[t[2]].expires =< store[y].expires,
         NEW name \in SignIns \cup Polls
  PROVE  Cardinality(NewerOf(T \cup {<<kind, name, clock>>}, t)) >= StoreMax
<1> DEFINE ticket(y) == <<kind, y, store[y].expires - ttl>>
           others    == Live(store) \ {t[2]}
           new       == <<kind, name, clock>>
           U         == T \cup {new}
           older     == NewerOf(U, t) \ {new}
<1>1. IsFiniteSet(Live(store)) /\ IsFiniteSet(others) /\ Cardinality(others) = Cardinality(Live(store)) - 1
  <2>1. IsFiniteSet(Live(store))
    <3>1. Live(store) \in SUBSET (DOMAIN store)
      BY DEF Live
    <3> QED BY <3>1, FS_Subset DEF StoreOf
  <2> QED BY <2>1, FS_RemoveElement
<1>2. IsFiniteSet(U) /\ IsFiniteSet(NewerOf(U, t)) /\ IsFiniteSet(older)
  <2>1. IsFiniteSet(U)
    BY FS_AddElement DEF MadeOf
  <2>2. IsFiniteSet(NewerOf(U, t))
    BY <2>1, NewerGrow
  <2> QED BY <2>1, <2>2, FS_RemoveElement
<1>3. t = <<t[1], t[2], t[3]>> /\ t[3] \in Nat /\ t[3] < clock
  BY DEF MadeOf
<1>4. new \in NewerOf(U, t)
  BY <1>3 DEF NewerOf
<1>5. \A y \in DOMAIN store : store[y].expires \in Nat /\ store[y].expires >= ttl /\ ticket(y) \in T
  <2>1. \A y \in DOMAIN store : store[y].expires \in Nat
    BY StoreType DEF StoreOf, Ticket
  <2> QED BY <2>1 DEF StoreOf
<1>6. \A y \in others : ticket(y) \in older
  <2> SUFFICES ASSUME NEW y \in others PROVE ticket(y) \in older
    OBVIOUS
  <2>1. y \in DOMAIN store /\ t[2] \in DOMAIN store /\ y # t[2]
    BY DEF Live
  <2>2. store[t[2]].expires = t[3] + ttl /\ store[t[2]].expires =< store[y].expires
    BY DEF HeldIn
  <2>3. store[y].expires - ttl >= t[3]
    <3>1. store[y].expires \in Nat /\ store[y].expires >= t[3] + ttl
      BY <1>5, <2>1, <2>2
    <3> QED BY <1>3, <3>1
  <2>4. ticket(y) # t
    BY <1>3, <2>1
  <2>5. ticket(y) \in T /\ ticket(y)[3] = store[y].expires - ttl /\ ticket(y)[1] = kind
    BY <1>5, <2>1
  <2> HIDE DEF ticket
  <2>6. ticket(y)[3] # t[3] /\ ticket(y)[3] < clock /\ ticket(y)[3] \in Nat
    BY <2>4, <2>5 DEF MadeOf
  <2>7. ticket(y)[3] > t[3]
    BY <1>3, <2>3, <2>5, <2>6
  <2>8. ticket(y) # new
    BY <2>6
  <2> QED BY <2>5, <2>7, <2>8 DEF NewerOf
<1>7. \A y, z \in others : ticket(y) = ticket(z) => y = z
  OBVIOUS
<1> HIDE DEF ticket, others, older
<1>8. [y \in others |-> ticket(y)] \in Injection(others, older)
  BY <1>6, <1>7 DEF Injection, IsInjective
<1>9. Cardinality(others) <= Cardinality(older)
  BY <1>2, <1>8, FS_Injection
<1>10. Cardinality(older) = Cardinality(NewerOf(U, t)) - 1
  BY <1>2, <1>4, FS_RemoveElement DEF older
<1>11. Cardinality(Live(store)) \in Nat /\ Cardinality(NewerOf(U, t)) \in Nat /\ StoreMax \in Nat
  BY <1>1, <1>2, FS_CardinalityType, AccountsAssumption
<1> QED BY <1>1, <1>9, <1>10, <1>11

\* What need not be there need not be there later.
LEMMA StaysKept ==
  ASSUME NEW T, NEW U, T \subseteq U, IsFiniteSet(U), NEW now \in Nat, NEW then \in Nat, now <= then,
         NEW ttl \in Nat, NEW t \in T, t[3] \in Nat, NEW store, NEW after,
         KeptIn(store, ttl, now, T, t), HeldIn(store, ttl, t) => KeptIn(after, ttl, then, U, t)
  PROVE  KeptIn(after, ttl, then, U, t)
<1>1. CASE HeldIn(store, ttl, t)
  BY <1>1
<1>2. CASE now > t[3] + ttl
  <2>1. then > t[3] + ttl
    BY <1>2
  <2> QED BY <2>1 DEF KeptIn
<1>3. CASE Cardinality(NewerOf(T, t)) >= StoreMax
  <2>1. Cardinality(NewerOf(U, t)) >= StoreMax
    <3>1. /\ Cardinality(NewerOf(T, t)) \in Nat /\ Cardinality(NewerOf(U, t)) \in Nat
          /\ Cardinality(NewerOf(T, t)) <= Cardinality(NewerOf(U, t))
      BY NewerGrow
    <3>2. StoreMax \in Nat
      BY AccountsAssumption
    <3> QED BY <1>3, <3>1, <3>2
  <2> QED BY <2>1 DEF KeptIn
<1>4. CASE \E u \in NewerOf(T, t) : u[2] = t[2]
  BY <1>4, NewerGrow DEF KeptIn
<1> QED BY <1>1, <1>2, <1>3, <1>4 DEF KeptIn

\* A ticket comes into its store.
LEMMA StoreFills ==
  ASSUME NEW T, clock \in Nat, MadeOf(T, clock), NEW H \in SUBSET T, NEW kind \in {"code", "poll"}, NEW ttl \in Nat,
         NEW store, StoreOf(store, kind, ttl, T \ H), NEW name \in SignIns \cup Polls,
         NEW ticket \in Ticket, ticket.expires = clock + ttl
  PROVE  /\ StoreOf(With(store, name, ticket), kind, ttl, (T \cup {<<kind, name, clock>>}) \ H)
         /\ StoreKeeps(store, kind, ttl, clock, T, T \ H) =>
               StoreKeeps(With(store, name, ticket), kind, ttl, clock + 1, T \cup {<<kind, name, clock>>},
                          (T \cup {<<kind, name, clock>>}) \ H)
<1> DEFINE new   == <<kind, name, clock>>
           U     == T \cup {new}
           after == With(store, name, ticket)
<1>0. Store(store) /\ IsFiniteSet(DOMAIN store)
  BY DEF StoreOf
<1>1. /\ DOMAIN Room(store) \subseteq DOMAIN store /\ Store(Room(store))
      /\ \A x \in DOMAIN Room(store) : Room(store)[x] = store[x]
  BY <1>0, RoomLeft
<1>2. /\ DOMAIN after = DOMAIN Room(store) \cup {name} /\ after[name] = ticket
      /\ \A x \in DOMAIN Room(store) : x # name => after[x] = store[x]
  BY <1>1 DEF With
<1>3. \A t \in T : t = <<t[1], t[2], t[3]>> /\ t[3] \in Nat /\ t[3] < clock
  BY DEF MadeOf
<1>4. new \notin T /\ new \in U \ H
  BY <1>3
<1>5. Store(after) /\ IsFiniteSet(DOMAIN after)
  <2>1. Store(after)
    <3>1. after = [x \in DOMAIN after |-> after[x]]
      BY DEF With
    <3>2. \A x \in DOMAIN after : after[x] \in Ticket /\ x \in SignIns \cup Polls
      BY <1>1, <1>2, StoreType
    <3> HIDE DEF after
    <3> QED BY <3>1, <3>2 DEF Store
  <2>2. IsFiniteSet(DOMAIN Room(store))
    BY <1>0, <1>1, FS_Subset
  <2> QED BY <1>2, <2>1, <2>2, FS_AddElement
<1> HIDE DEF after
<1>6. StoreOf(after, kind, ttl, U \ H)
  <2>1. \A x \in DOMAIN store : store[x].expires >= ttl /\ <<kind, x, store[x].expires - ttl>> \in T \ H
    BY DEF StoreOf
  <2>2. clock + ttl >= ttl /\ (clock + ttl) - ttl = clock
    OBVIOUS
  <2>3. \A x \in DOMAIN after : after[x].expires >= ttl /\ <<kind, x, after[x].expires - ttl>> \in U \ H
    <3> SUFFICES ASSUME NEW x \in DOMAIN after
                 PROVE  after[x].expires >= ttl /\ <<kind, x, after[x].expires - ttl>> \in U \ H
      OBVIOUS
    <3>1. CASE x = name
      BY <1>2, <1>4, <2>2, <3>1
    <3>2. CASE x # name
      BY <1>1, <1>2, <2>1, <3>2
    <3> QED BY <3>1, <3>2
  <2> QED BY <1>5, <2>3 DEF StoreOf
<1>7. IsFiniteSet(U)
  BY FS_AddElement DEF MadeOf
<1>8. ASSUME StoreKeeps(store, kind, ttl, clock, T, T \ H), NEW t \in U \ H, t[1] = kind
      PROVE  KeptIn(after, ttl, clock + 1, U, t)
  <2>1. CASE t = new
    BY <1>2, <2>1 DEF KeptIn, HeldIn
  <2>2. CASE t # new
    <3>1. t \in T /\ t[3] \in Nat /\ t[3] < clock /\ KeptIn(store, ttl, clock, T, t)
      BY <1>3, <1>8, <2>2 DEF StoreKeeps
    <3>2. ASSUME HeldIn(store, ttl, t) PROVE KeptIn(after, ttl, clock + 1, U, t)
      <4>1. CASE t[2] = name
        <5>1. new \in NewerOf(U, t) /\ new[2] = t[2]
          BY <1>8, <3>1, <4>1 DEF NewerOf
        <5> QED BY <5>1 DEF KeptIn
      <4>2. CASE t[2] # name /\ t[2] \in DOMAIN Room(store)
        <5>1. HeldIn(after, ttl, t)
          BY <1>1, <1>2, <3>2, <4>2 DEF HeldIn
        <5> QED BY <5>1 DEF KeptIn
      <4>3. CASE t[2] \notin DOMAIN Room(store)
        <5>1. t[2] \in DOMAIN store \ DOMAIN Room(store) /\ store[t[2]].expires = t[3] + ttl
          BY <3>2, <4>3 DEF HeldIn
        <5>2. CASE store[t[2]].expires < clock
          <6>1. clock + 1 > t[3] + ttl
            BY <3>1, <5>1, <5>2
          <6> QED BY <6>1 DEF KeptIn
        <5>3. CASE /\ ~(Cardinality(Live(store)) < StoreMax) /\ t[2] \in Live(store)
                   /\ \A y \in Live(store) : store[t[2]].expires =< store[y].expires
          <6>1. Cardinality(Live(store)) \in Nat /\ StoreMax \in Nat
            <7>1. Live(store) \in SUBSET (DOMAIN store)
              BY DEF Live
            <7> QED BY <1>0, <7>1, FS_Subset, FS_CardinalityType, AccountsAssumption
          <6>2. Cardinality(Live(store)) >= StoreMax
            BY <5>3, <6>1
          <6>3. Cardinality(NewerOf(U, t)) >= StoreMax
            BY <1>8, <3>1, <3>2, <5>3, <6>2, ThrownOut
          <6> QED BY <6>3 DEF KeptIn
        <5> QED BY <1>0, <5>1, <5>2, <5>3, RoomLeft
      <4> QED BY <4>1, <4>2, <4>3
    <3> QED BY <1>7, <3>1, <3>2, StaysKept
  <2> QED BY <2>1, <2>2
<1> QED BY <1>6, <1>8 DEF StoreKeeps, after

\* The other store, and time.
LEMMA OtherMade ==
  ASSUME NEW T, NEW U, T \subseteq U, IsFiniteSet(U), NEW H, NEW kind, NEW ttl \in Nat, NEW store,
         NEW now \in Nat, NEW then \in Nat, now <= then, \A t \in T : t[3] \in Nat,
         StoreOf(store, kind, ttl, T \ H), \A t \in U \ T : t[1] # kind
  PROVE  /\ StoreOf(store, kind, ttl, U \ H)
         /\ StoreKeeps(store, kind, ttl, now, T, T \ H) => StoreKeeps(store, kind, ttl, then, U, U \ H)
<1>1. StoreOf(store, kind, ttl, U \ H)
  BY DEF StoreOf
<1>2. ASSUME StoreKeeps(store, kind, ttl, now, T, T \ H), NEW t \in U \ H, t[1] = kind
      PROVE  KeptIn(store, ttl, then, U, t)
  <2>1. t \in T /\ t[3] \in Nat /\ KeptIn(store, ttl, now, T, t)
    BY <1>2 DEF StoreKeeps
  <2>2. HeldIn(store, ttl, t) => KeptIn(store, ttl, then, U, t)
    BY DEF KeptIn
  <2> QED BY <2>1, <2>2, StaysKept
<1> QED BY <1>1, <1>2 DEF StoreKeeps

\* A ticket leaves its store: handed out, or expired.
LEMMA TicketLeaves ==
  ASSUME NEW T, NEW now \in Nat, MadeOf(T, now), NEW H, NEW kind, NEW ttl \in Nat, NEW store,
         StoreOf(store, kind, ttl, T \ H), NEW k \in DOMAIN store, NEW G,
         \/ G = H \cup {<<kind, k, store[k].expires - ttl>>}
         \/ G = H /\ store[k].expires < now
  PROVE  /\ StoreOf(Restrict(store, DOMAIN store \ {k}), kind, ttl, T \ G)
         /\ StoreKeeps(store, kind, ttl, now, T, T \ H) =>
               StoreKeeps(Restrict(store, DOMAIN store \ {k}), kind, ttl, now, T, T \ G)
<1> DEFINE after == Restrict(store, DOMAIN store \ {k})
           rest  == DOMAIN store \ {k}
<1>1. Store(store) /\ IsFiniteSet(DOMAIN store)
  BY DEF StoreOf
<1>2. rest \in SUBSET (DOMAIN store)
  OBVIOUS
<1>3. Store(after) /\ DOMAIN after = rest /\ \A x \in rest : after[x] = store[x]
  BY <1>1, <1>2, StoreType
<1>4. IsFiniteSet(rest)
  BY <1>1, FS_RemoveElement
<1>5. \A x \in DOMAIN store : store[x].expires \in Nat /\ store[x].expires >= ttl /\ <<kind, x, store[x].expires - ttl>> \in T \ H
  BY <1>1, StoreType DEF StoreOf, Ticket
<1> HIDE DEF after
<1>6. StoreOf(after, kind, ttl, T \ G)
  BY <1>3, <1>4, <1>5 DEF StoreOf
<1>7. ASSUME StoreKeeps(store, kind, ttl, now, T, T \ H), NEW t \in T \ G, t[1] = kind
      PROVE  KeptIn(after, ttl, now, T, t)
  <2>1. t \in T /\ t \notin H /\ t[3] \in Nat /\ t = <<t[1], t[2], t[3]>> /\ KeptIn(store, ttl, now, T, t)
    BY <1>7 DEF StoreKeeps, MadeOf
  <2>2. ASSUME HeldIn(store, ttl, t) PROVE KeptIn(after, ttl, now, T, t)
    <3>1. t[2] \in DOMAIN store /\ store[t[2]].expires = t[3] + ttl
      BY <2>2 DEF HeldIn
    <3>2. CASE t[2] # k
      BY <1>3, <3>1, <3>2 DEF KeptIn, HeldIn
    <3>3. CASE t[2] = k
      <4>1. t = <<kind, k, store[k].expires - ttl>>
        <5>1. store[k].expires - ttl = t[3]
          BY <2>1, <3>1, <3>3
        <5> QED BY <1>7, <2>1, <3>3, <5>1
      <4>2. now > t[3] + ttl
        BY <1>7, <2>1, <3>1, <3>3, <4>1
      <4> QED BY <4>2 DEF KeptIn
    <3> QED BY <3>2, <3>3
  <2>3. IsFiniteSet(T) /\ now <= now
    BY DEF MadeOf
  <2> QED BY <2>1, <2>2, <2>3, StaysKept
<1> QED BY <1>6, <1>7 DEF StoreKeeps, after

\* The other store when one is handed out.
LEMMA OtherHanded ==
  ASSUME NEW T, NEW H, NEW t, NEW kind, t[1] # kind, NEW ttl, NEW store, NEW now,
         StoreOf(store, kind, ttl, T \ H)
  PROVE  /\ StoreOf(store, kind, ttl, T \ (H \cup {t}))
         /\ StoreKeeps(store, kind, ttl, now, T, T \ H) => StoreKeeps(store, kind, ttl, now, T, T \ (H \cup {t}))
<1>1. StoreOf(store, kind, ttl, T \ (H \cup {t}))
  BY DEF StoreOf
<1> QED BY <1>1 DEF StoreKeeps

-----------------------------------------------------------------------------

\* The stores begin empty.
LEMMA StoresBegin == AccountsInit => StoresTrue
<1> SUFFICES ASSUME AccountsInit PROVE StoresTrue
  OBVIOUS
<1> USE DEF AccountsInit
<1>1. IsFiniteSet({})
  BY FS_EmptySet
<1>2. MadeOf(made, clock)
  BY <1>1 DEF MadeOf
<1>3. DOMAIN Empty = {} /\ Store(Empty)
  BY DEF Empty, Store
<1>4. StoreOf(codes, "code", CodeTTL, made \ handed) /\ StoreOf(loginPolls, "poll", PollTTL, made \ handed)
  BY <1>1, <1>3 DEF StoreOf
<1> QED BY <1>2, <1>4 DEF StoresTrue, StoreKeeps

\* There are no rows, no codes and no tokens to begin with.
LEMMA AccountsBegins == AccountsInit => AccountsTypeOK /\ RowsTrue
<1> SUFFICES ASSUME AccountsInit PROVE AccountsTypeOK /\ RowsTrue
  OBVIOUS
<1> USE DEF AccountsInit
<1>1. DOMAIN Empty = {} /\ Store(Empty)
  BY DEF Empty, Store
<1>2. AccountsTypeOK
  BY <1>1, AccountsAssumption DEF AccountsTypeOK
<1>3. RowsTrue
  BY <1>1 DEF RowsTrue, UsersTrue, SaveIn
<1> QED BY <1>2, <1>3

\* The stores after every step.
LEMMA StoresStep == AccountsTypeOK /\ RowsTrue /\ StoresTrue /\ [AccountsNext]_accountVars => StoresTrue'
<1> SUFFICES ASSUME AccountsTypeOK, RowsTrue, StoresTrue, [AccountsNext]_accountVars PROVE StoresTrue'
  OBVIOUS
<1> USE AccountsAssumption
<1>0. clock \in Nat /\ handed \in SUBSET made /\ MadeOf(made, clock)
  BY DEF AccountsTypeOK, StoresTrue
<1>a. IsFiniteSet(made) /\ \A t \in made : t[3] \in Nat
  BY <1>0 DEF MadeOf
<1>1. CASE UNCHANGED <<tickets, crashes>>
  BY <1>1 DEF StoresTrue, tickets
<1>2. ASSUME NEW c \in SignIns, MakeCode(c) PROVE StoresTrue'
  <2> DEFINE ticket == [user |-> account[c].id, expires |-> clock + CodeTTL]
             new    == <<"code", c, clock>>
  <2>1. /\ codes' = With(codes, c, ticket) /\ made' = made \cup {new} /\ clock' = clock + 1
        /\ UNCHANGED <<loginPolls, handed, crashes>> /\ account[c] \in User
    BY <1>2 DEF MakeCode, RowsTrue, SaveIn, GoTo
  <2>2. ticket \in Ticket /\ ticket.expires = clock + CodeTTL
    BY <1>0, <2>1 DEF Ticket, User
  <2>3. MadeOf(made', clock')
    BY <1>0, <2>1, TicketMade
  <2> HIDE DEF ticket
  <2>4. /\ StoreOf(codes', "code", CodeTTL, made' \ handed')
        /\ StoreKeeps(codes, "code", CodeTTL, clock, made, made \ handed) =>
              StoreKeeps(codes', "code", CodeTTL, clock', made', made' \ handed')
    BY <1>0, <2>1, <2>2, StoreFills DEF StoresTrue
  <2>5. /\ StoreOf(loginPolls', "poll", PollTTL, made' \ handed')
        /\ StoreKeeps(loginPolls, "poll", PollTTL, clock, made, made \ handed) =>
              StoreKeeps(loginPolls', "poll", PollTTL, clock', made', made' \ handed')
    <3>1. IsFiniteSet(made \cup {new}) /\ \A t \in (made \cup {new}) \ made : t[1] # "poll"
      <4>1. IsFiniteSet(made \cup {new})
        BY <1>a, FS_AddElement
      <4>2. new[1] # "poll"
        OBVIOUS
      <4> QED BY <4>1, <4>2
    <3>2. clock + 1 \in Nat /\ clock <= clock + 1
      BY <1>0
    <3> QED BY <1>0, <1>a, <2>1, <3>1, <3>2, OtherMade DEF StoresTrue
  <2> QED BY <2>1, <2>3, <2>4, <2>5 DEF StoresTrue
<1>3. ASSUME NEW c \in SignIns, Complete(c) PROVE StoresTrue'
  <2> DEFINE name == form[c].poll
             new  == <<"poll", name, clock>>
  <2>0. name \in Polls
    BY DEF AccountsTypeOK, Form
  <2>1. PICK s \in signed : loginPolls' = With(loginPolls, name, [user |-> s[2], expires |-> clock + PollTTL])
    BY <1>3 DEF Complete
  <2> DEFINE ticket == [user |-> s[2], expires |-> clock + PollTTL]
  <2>2. /\ loginPolls' = With(loginPolls, name, ticket) /\ made' = made \cup {new} /\ clock' = clock + 1
        /\ UNCHANGED <<codes, handed, crashes>>
    BY <1>3, <2>1 DEF Complete
  <2>3. ticket \in Ticket /\ ticket.expires = clock + PollTTL
    <3>1. s[2] \in SignIns
      BY DEF AccountsTypeOK
    <3> QED BY <1>0, <3>1 DEF Ticket
  <2>4. MadeOf(made', clock')
    BY <1>0, <2>0, <2>2, TicketMade
  <2> HIDE DEF ticket
  <2>5. /\ StoreOf(loginPolls', "poll", PollTTL, made' \ handed')
        /\ StoreKeeps(loginPolls, "poll", PollTTL, clock, made, made \ handed) =>
              StoreKeeps(loginPolls', "poll", PollTTL, clock', made', made' \ handed')
    <3> HIDE DEF name
    <3> QED BY <1>0, <2>0, <2>2, <2>3, StoreFills DEF StoresTrue
  <2>6. /\ StoreOf(codes', "code", CodeTTL, made' \ handed')
        /\ StoreKeeps(codes, "code", CodeTTL, clock, made, made \ handed) =>
              StoreKeeps(codes', "code", CodeTTL, clock', made', made' \ handed')
    <3>1. IsFiniteSet(made \cup {new}) /\ \A t \in (made \cup {new}) \ made : t[1] # "code"
      <4>1. IsFiniteSet(made \cup {new})
        BY <1>a, FS_AddElement
      <4>2. new[1] # "code"
        OBVIOUS
      <4> QED BY <4>1, <4>2
    <3>2. clock + 1 \in Nat /\ clock <= clock + 1
      BY <1>0
    <3> QED BY <1>0, <1>a, <2>2, <3>1, <3>2, OtherMade DEF StoresTrue
  <2> QED BY <2>2, <2>4, <2>5, <2>6 DEF StoresTrue
<1>4. ASSUME NEW c \in SignIns, Exchange(c) PROVE StoresTrue'
  <2> DEFINE k    == form[c].code
             gone == <<"code", k, codes[k].expires - CodeTTL>>
  <2>1. /\ k \in DOMAIN codes /\ codes' = Restrict(codes, DOMAIN codes \ {k}) /\ handed' = handed \cup {gone}
        /\ UNCHANGED <<loginPolls, clock, made, crashes>>
    BY <1>4 DEF Exchange
  <2> HIDE DEF k
  <2>2. /\ StoreOf(codes', "code", CodeTTL, made' \ handed')
        /\ StoreKeeps(codes, "code", CodeTTL, clock, made, made \ handed) =>
              StoreKeeps(codes', "code", CodeTTL, clock', made', made' \ handed')
    BY <1>0, <2>1, TicketLeaves DEF StoresTrue
  <2>3. /\ StoreOf(loginPolls', "poll", PollTTL, made' \ handed')
        /\ StoreKeeps(loginPolls, "poll", PollTTL, clock, made, made \ handed) =>
              StoreKeeps(loginPolls', "poll", PollTTL, clock', made', made' \ handed')
    BY <2>1, OtherHanded DEF StoresTrue
  <2> QED BY <1>0, <2>1, <2>2, <2>3 DEF StoresTrue
<1>5. ASSUME NEW c \in SignIns, PollReady(c) PROVE StoresTrue'
  <2> DEFINE k    == form[c].poll
             gone == <<"poll", k, loginPolls[k].expires - PollTTL>>
  <2>1. /\ k \in DOMAIN loginPolls /\ loginPolls' = Restrict(loginPolls, DOMAIN loginPolls \ {k}) /\ handed' = handed \cup {gone}
        /\ UNCHANGED <<codes, clock, made, crashes>>
    BY <1>5 DEF PollReady
  <2> HIDE DEF k
  <2>2. /\ StoreOf(loginPolls', "poll", PollTTL, made' \ handed')
        /\ StoreKeeps(loginPolls, "poll", PollTTL, clock, made, made \ handed) =>
              StoreKeeps(loginPolls', "poll", PollTTL, clock', made', made' \ handed')
    BY <1>0, <2>1, TicketLeaves DEF StoresTrue
  <2>3. /\ StoreOf(codes', "code", CodeTTL, made' \ handed')
        /\ StoreKeeps(codes, "code", CodeTTL, clock, made, made \ handed) =>
              StoreKeeps(codes', "code", CodeTTL, clock', made', made' \ handed')
    BY <2>1, OtherHanded DEF StoresTrue
  <2> QED BY <1>0, <2>1, <2>2, <2>3 DEF StoresTrue
<1>6. ASSUME NEW c \in SignIns, CodeRefused(c) PROVE StoresTrue'
  <2> DEFINE k == form[c].code
  <2>1. /\ codes' = Restrict(codes, DOMAIN codes \ {k}) /\ (k \in DOMAIN codes => codes[k].expires < clock)
        /\ UNCHANGED <<loginPolls, clock, made, handed, crashes>>
    BY <1>6 DEF CodeRefused
  <2> HIDE DEF k
  <2>2. /\ StoreOf(codes', "code", CodeTTL, made \ handed)
        /\ StoreKeeps(codes, "code", CodeTTL, clock, made, made \ handed) =>
              StoreKeeps(codes', "code", CodeTTL, clock, made, made \ handed)
    <3>1. CASE k \in DOMAIN codes
      BY <1>0, <2>1, <3>1, TicketLeaves DEF StoresTrue
    <3>2. CASE k \notin DOMAIN codes
      <4>1. codes' = codes
        BY <2>1, <3>2 DEF Restrict, AccountsTypeOK, Store
      <4> QED BY <4>1 DEF StoresTrue
    <3> QED BY <3>1, <3>2
  <2> QED BY <1>0, <2>1, <2>2 DEF StoresTrue
<1>7. ASSUME NEW c \in SignIns, PollExpired(c) PROVE StoresTrue'
  <2> DEFINE k == form[c].poll
  <2>1. /\ k \in DOMAIN loginPolls /\ loginPolls' = Restrict(loginPolls, DOMAIN loginPolls \ {k})
        /\ loginPolls[k].expires < clock /\ UNCHANGED <<codes, clock, made, handed, crashes>>
    BY <1>7 DEF PollExpired
  <2> HIDE DEF k
  <2>2. /\ StoreOf(loginPolls', "poll", PollTTL, made \ handed)
        /\ StoreKeeps(loginPolls, "poll", PollTTL, clock, made, made \ handed) =>
              StoreKeeps(loginPolls', "poll", PollTTL, clock, made, made \ handed)
    BY <1>0, <2>1, TicketLeaves DEF StoresTrue
  <2> QED BY <1>0, <2>1, <2>2 DEF StoresTrue
<1>8. CASE TimePasses
  <2>1. clock' = clock + 1 /\ clock' \in Nat /\ clock <= clock' /\ UNCHANGED <<codes, loginPolls, made, handed, crashes>>
    BY <1>0, <1>8 DEF TimePasses
  <2>2. MadeOf(made', clock')
    BY <1>0, <1>a, <2>1 DEF MadeOf
  <2>3. /\ StoreOf(codes', "code", CodeTTL, made' \ handed')
        /\ StoreKeeps(codes, "code", CodeTTL, clock, made, made \ handed) =>
              StoreKeeps(codes', "code", CodeTTL, clock', made', made' \ handed')
    BY <1>0, <1>a, <2>1, OtherMade DEF StoresTrue
  <2>4. /\ StoreOf(loginPolls', "poll", PollTTL, made' \ handed')
        /\ StoreKeeps(loginPolls, "poll", PollTTL, clock, made, made \ handed) =>
              StoreKeeps(loginPolls', "poll", PollTTL, clock', made', made' \ handed')
    BY <1>0, <1>a, <2>1, OtherMade DEF StoresTrue
  <2> QED BY <2>1, <2>2, <2>3, <2>4 DEF StoresTrue
<1>9. CASE LoseStores
  <2>1. codes' = Empty /\ loginPolls' = Empty /\ crashes' = crashes + 1 /\ UNCHANGED <<clock, made, handed>>
    BY <1>9 DEF LoseStores
  <2>2. DOMAIN Empty = {} /\ Store(Empty)
    BY DEF Empty, Store
  <2>3. crashes' # 0
    BY <2>1 DEF AccountsTypeOK
  <2>4. StoreOf(Empty, "code", CodeTTL, made \ handed) /\ StoreOf(Empty, "poll", PollTTL, made \ handed)
    BY <2>2, FS_EmptySet DEF StoreOf
  <2> QED BY <1>0, <2>1, <2>3, <2>4 DEF StoresTrue
<1>10. ASSUME NEW c \in SignIns,
             \/ MailTaken(c) \/ MailFree(c) \/ Login(c) \/ LoginFails(c)
             \/ FindGoogle(c) \/ NoGoogle(c) \/ FindMail(c) \/ SaveUser(c) \/ SaveFails(c)
             \/ SteamInvalid(c) \/ FindSteam(c) \/ PollNotReady(c)
       PROVE UNCHANGED <<tickets, crashes>>
  BY <1>10 DEF MailTaken, MailFree, Login, LoginFails, FindGoogle, NoGoogle, FindMail, SaveUser, SaveFails,
               SteamInvalid, FindSteam, PollNotReady, Deny
<1>11. CASE UNCHANGED accountVars
  BY <1>1, <1>11 DEF accountVars, tickets
<1> QED BY <1>1, <1>2, <1>3, <1>4, <1>5, <1>6, <1>7, <1>8, <1>9, <1>10, <1>11 DEF AccountsNext

\* The types after every step; those of the stores are known.
LEMMA AccountsTypeStep ==
  AccountsTypeOK /\ RowsTrue /\ StoresTrue /\ StoresTrue' /\ [AccountsNext]_accountVars => AccountsTypeOK'
<1> SUFFICES ASSUME AccountsTypeOK, RowsTrue, StoresTrue, StoresTrue', [AccountsNext]_accountVars PROVE AccountsTypeOK'
  OBVIOUS
<1>1. Store(codes') /\ Store(loginPolls')
  BY DEF StoresTrue, StoreOf
<1>2. handed' \subseteq made' /\ handed' \subseteq {"code", "poll"} \X (SignIns \cup Polls) \X Nat
  <2>1. made' \subseteq {"code", "poll"} \X (SignIns \cup Polls) \X Nat /\ handed \subseteq made
    BY DEF StoresTrue, MadeOf, AccountsTypeOK
  <2>2. handed' \subseteq made'
    <3>1. ASSUME NEW c \in SignIns, Exchange(c) PROVE handed' \subseteq made'
      <4>1. handed' = handed \cup {<<"code", form[c].code, codes[form[c].code].expires - CodeTTL>>} /\ made' = made
            /\ form[c].code \in DOMAIN codes
        BY <3>1 DEF Exchange
      <4> QED BY <2>1, <4>1 DEF StoresTrue, StoreOf
    <3>2. ASSUME NEW c \in SignIns, PollReady(c) PROVE handed' \subseteq made'
      <4>1. handed' = handed \cup {<<"poll", form[c].poll, loginPolls[form[c].poll].expires - PollTTL>>} /\ made' = made
            /\ form[c].poll \in DOMAIN loginPolls
        BY <3>2 DEF PollReady
      <4> QED BY <2>1, <4>1 DEF StoresTrue, StoreOf
    <3>3. ASSUME handed' = handed, made \subseteq made' PROVE handed' \subseteq made'
      BY <2>1, <3>3
    <3>4. ASSUME NEW c \in SignIns,
                 \/ MailTaken(c) \/ MailFree(c) \/ Login(c) \/ LoginFails(c)
                 \/ FindGoogle(c) \/ NoGoogle(c) \/ FindMail(c) \/ SaveUser(c) \/ SaveFails(c)
                 \/ SteamInvalid(c) \/ FindSteam(c) \/ MakeCode(c) \/ CodeRefused(c)
                 \/ Complete(c) \/ PollNotReady(c) \/ PollExpired(c)
          PROVE  handed' = handed /\ made \subseteq made'
      BY <3>4 DEF MailTaken, MailFree, Login, LoginFails, FindGoogle, NoGoogle, FindMail, SaveUser, SaveFails,
                  SteamInvalid, FindSteam, MakeCode, CodeRefused, Complete, PollNotReady, PollExpired, Deny, tickets
    <3>5. CASE TimePasses \/ LoseStores \/ UNCHANGED accountVars
      BY <2>1, <3>5 DEF TimePasses, LoseStores, accountVars
    <3> QED BY <3>1, <3>2, <3>3, <3>4, <3>5 DEF AccountsNext
  <2> QED BY <2>1, <2>2
<1> HIDE DEF Store
<1>3. ASSUME users' \subseteq User, form' \in Scripts,
             pos' \in [SignIns -> {"new", "mail", "save", "done", "refused"}],
             account' \in [SignIns -> User \cup {Nothing}], clock' \in Nat,
             signed' \subseteq SignIns \X SignIns, crashes' \in 0..MaxCrashes
      PROVE  AccountsTypeOK'
  BY <1>1, <1>2, <1>3 DEF AccountsTypeOK
<1>4. form \in [SignIns -> Form] /\ MailOf \in [Googles -> Emails \cup {Nothing}]
  BY AccountsAssumption DEF AccountsTypeOK
<1>5. ASSUME NEW c \in SignIns, pos[c] = "save" PROVE account[c] \in User /\ account[c].id \in SignIns
  BY <1>5 DEF RowsTrue, SaveIn, User
<1>6. ASSUME NEW u \in User, NEW c \in SignIns PROVE Linked(c, u) \in User
  BY <1>4 DEF Linked, User, Form
<1>7. ASSUME NEW c \in SignIns
      PROVE  /\ [id |-> c, email |-> form[c].email, google |-> Nothing, steam |-> Nothing] \in User
             /\ [id |-> c, email |-> MailOf[form[c].google], google |-> Nothing, steam |-> Nothing] \in User
             /\ [id |-> c, email |-> Nothing, google |-> Nothing, steam |-> form[c].steam] \in User
  BY <1>4 DEF User, Form
<1>8. \A k \in DOMAIN codes : codes[k].user \in SignIns
  BY StoreType DEF AccountsTypeOK, Ticket
<1>9. \A k \in DOMAIN loginPolls : loginPolls[k].user \in SignIns
  BY StoreType DEF AccountsTypeOK, Ticket
<1>10. ASSUME NEW c \in SignIns, MailTaken(c) \/ LoginFails(c) \/ SteamInvalid(c) \/ SaveFails(c) \/ PollNotReady(c)
       PROVE  AccountsTypeOK'
  BY <1>3, <1>10 DEF AccountsTypeOK, MailTaken, LoginFails, SteamInvalid, SaveFails, PollNotReady, Deny, GoTo, tickets
<1>11. ASSUME NEW c \in SignIns, MailFree(c) PROVE AccountsTypeOK'
  BY <1>3, <1>7, <1>11 DEF AccountsTypeOK, MailFree, GoTo, tickets
<1>12. ASSUME NEW c \in SignIns, Login(c) PROVE AccountsTypeOK'
  <2>1. \A u \in users : u.id \in SignIns
    BY DEF AccountsTypeOK, User
  <2> QED BY <1>3, <1>12, <2>1 DEF AccountsTypeOK, Login, SignIn, GoTo, tickets, ByMail
<1>13. ASSUME NEW c \in SignIns, FindGoogle(c) PROVE AccountsTypeOK'
  <2>1. PICK u \in ByGoogle(form[c].google) : account' = [account EXCEPT ![c] = Linked(c, u)]
    BY <1>13 DEF FindGoogle
  <2>2. Linked(c, u) \in User
    BY <1>6 DEF ByGoogle, AccountsTypeOK
  <2> QED BY <1>3, <1>13, <2>1, <2>2 DEF AccountsTypeOK, FindGoogle, GoTo, tickets
<1>14. ASSUME NEW c \in SignIns, NoGoogle(c) PROVE AccountsTypeOK'
  BY <1>3, <1>14 DEF AccountsTypeOK, NoGoogle, GoTo, tickets
<1>15. ASSUME NEW c \in SignIns, FindMail(c) PROVE AccountsTypeOK'
  <2>1. PICK u \in User : account' = [account EXCEPT ![c] = Linked(c, u)]
    BY <1>7, <1>15 DEF FindMail, ByMail, AccountsTypeOK
  <2>2. Linked(c, u) \in User
    BY <1>6
  <2> QED BY <1>3, <1>15, <2>1, <2>2 DEF AccountsTypeOK, FindMail, GoTo, tickets
<1>16. ASSUME NEW c \in SignIns, SaveUser(c) PROVE AccountsTypeOK'
  <2>1. pos[c] = "save"
    BY <1>16 DEF SaveUser, GoTo
  <2> QED BY <1>3, <1>5, <1>16, <2>1 DEF AccountsTypeOK, SaveUser, Saved, SignIn, GoTo, tickets
<1>17. ASSUME NEW c \in SignIns, FindSteam(c) PROVE AccountsTypeOK'
  <2>1. PICK u \in User : account' = [account EXCEPT ![c] = u]
    BY <1>7, <1>17 DEF FindSteam, BySteam, AccountsTypeOK
  <2> QED BY <1>3, <1>17, <2>1 DEF AccountsTypeOK, FindSteam, GoTo, tickets
<1>18. ASSUME NEW c \in SignIns, MakeCode(c) PROVE AccountsTypeOK'
  <2>1. pos[c] = "save"
    BY <1>18 DEF MakeCode, GoTo
  <2> QED BY <1>3, <1>5, <1>18, <2>1 DEF AccountsTypeOK, MakeCode, Saved, GoTo
<1>19. ASSUME NEW c \in SignIns, Exchange(c) \/ CodeRefused(c) \/ Complete(c) \/ PollExpired(c) \/ PollReady(c)
       PROVE  AccountsTypeOK'
  <2>1. UNCHANGED <<users, form, account, crashes>> /\ clock' \in Nat
    BY <1>19 DEF AccountsTypeOK, Exchange, CodeRefused, Complete, PollExpired, PollReady
  <2>2. pos' \in [SignIns -> {"new", "mail", "save", "done", "refused"}]
    BY <1>19 DEF AccountsTypeOK, Exchange, CodeRefused, Complete, PollExpired, PollReady, GoTo
  <2>3. signed' \subseteq SignIns \X SignIns
    BY <1>8, <1>9, <1>19 DEF AccountsTypeOK, Exchange, CodeRefused, Complete, PollExpired, PollReady, SignIn
  <2> QED BY <1>3, <2>1, <2>2, <2>3 DEF AccountsTypeOK
<1>20. CASE TimePasses
  BY <1>3, <1>20 DEF AccountsTypeOK, TimePasses
<1>21. CASE LoseStores
  BY <1>3, <1>21, AccountsAssumption DEF AccountsTypeOK, LoseStores
<1>22. CASE UNCHANGED accountVars
  BY <1>3, <1>22 DEF AccountsTypeOK, accountVars
<1> QED BY <1>10, <1>11, <1>12, <1>13, <1>14, <1>15, <1>16, <1>17, <1>18, <1>19, <1>20, <1>21, <1>22 DEF AccountsNext

\* Who has read a row, or holds a token or a code of it, finds it again.
LEMMA RowsFrame ==
  ASSUME AccountsTypeOK, RowsTrue, RowsKept, form' = form, NEW c \in SignIns,
         \A d \in SignIns \ {c} : pos'[d] = pos[d] /\ account'[d] = account[d],
         UsersTrue', SaveIn(users', c, pos'[c], account'[c]),
         \A s \in signed' \ signed : TokenIn(users', s),
         \A k \in DOMAIN codes' : (k \in DOMAIN codes /\ codes'[k] = codes[k]) \/ CodeIn(users', k, codes'[k].user)
  PROVE  RowsTrue'
<1>1. ASSUME NEW d \in SignIns PROVE SaveIn(users', d, pos'[d], account'[d])
  <2>1. CASE d # c
    <3>1. pos'[d] = pos[d] /\ account'[d] = account[d] /\ SaveIn(users, d, pos[d], account[d])
      BY <2>1 DEF RowsTrue
    <3>2. (\E v \in users : SameRow(v, account[d])) => \E v \in users' : SameRow(v, account[d])
      BY DEF RowsKept, SameRow
    <3> QED BY <3>1, <3>2 DEF SaveIn
  <2> QED BY <2>1
<1>2. ASSUME NEW s \in signed' PROVE TokenIn(users', s)
  <2>1. CASE s \in signed
    BY <2>1 DEF RowsTrue, TokenIn, RowsKept, SameRow
  <2> QED BY <2>1
<1>3. ASSUME NEW k \in DOMAIN codes' PROVE CodeIn(users', k, codes'[k].user)
  <2>1. CASE k \in DOMAIN codes /\ codes'[k] = codes[k]
    BY <2>1 DEF RowsTrue, CodeIn, RowsKept, SameRow
  <2> QED BY <2>1
<1>4. \A d \in SignIns : SaveIn(users, d, pos[d], account[d])'
  BY <1>1 DEF SaveIn, Is, MailAsked
<1>5. \A s \in signed' : TokenIn(users, s)'
  BY <1>2 DEF TokenIn, Is, MailAsked, SteamAsked
<1>6. \A k \in DOMAIN codes' : CodeIn(users, k, codes[k].user)'
  BY <1>3 DEF CodeIn
<1> QED BY <1>4, <1>5, <1>6 DEF RowsTrue

\* A row that is saved is new, or takes the place of the one it was read from.
LEMMA Saving ==
  ASSUME AccountsTypeOK, RowsTrue, NEW c \in SignIns, pos[c] = "save", ~Clashes(account[c]),
         users' = Saved(account[c]), pos' = [pos EXCEPT ![c] = "done"]
  PROVE  UsersTrue' /\ RowsKept /\ account[c] \in users'
<1> DEFINE row == account[c]
<1>1. /\ row \in User /\ RowTrue(row) /\ (row.id = c \/ \E v \in users : SameRow(v, row))
      /\ UsersTrue
  BY DEF RowsTrue, SaveIn
<1>2. users' = {v \in users : v.id # row.id} \cup {row}
  BY DEF Saved
<1>3. \A v \in users : v.id # row.id =>
          /\ ~(row.email # Nothing /\ v.email = row.email) /\ ~(row.steam # Nothing /\ v.steam = row.steam)
          /\ ~(row.google # Nothing /\ v.google = row.google)
  BY DEF Clashes
<1>4. \A v \in users : pos[v.id] = "done" /\ v.id \in SignIns
  BY <1>1 DEF UsersTrue, AccountsTypeOK, User
<1> HIDE DEF row
<1>5. \A v \in users : v.id = row.id => SameRow(row, v)
  <2> SUFFICES ASSUME NEW v \in users, v.id = row.id PROVE SameRow(row, v)
    OBVIOUS
  <2>1. row.id # c
    BY <1>4
  <2>2. PICK w \in users : SameRow(w, row)
    BY <1>1, <2>1
  <2>3. w = v
    BY <1>1, <2>2 DEF UsersTrue, SameRow
  <2> QED BY <2>2, <2>3 DEF SameRow
<1>6. RowsKept
  BY <1>2, <1>5 DEF RowsKept, SameRow
<1>7. \A u \in users' : RowTrue(u) /\ pos'[u.id] = "done"
  <2>1. \A v \in users : RowTrue(v) /\ pos'[v.id] = "done"
    BY <1>1, <1>4 DEF UsersTrue, AccountsTypeOK
  <2>2. pos'[row.id] = "done"
    BY <1>1, <2>1 DEF AccountsTypeOK, SameRow
  <2> QED BY <1>1, <1>2, <2>1, <2>2
<1>8. \A u, v \in users' : u.id = v.id => u = v
  BY <1>1, <1>2 DEF UsersTrue
<1>9. \A u, v \in users' : u.email # Nothing /\ u.email = v.email => u = v
  BY <1>1, <1>2, <1>3 DEF UsersTrue
<1>10. \A u, v \in users' : u.steam # Nothing /\ u.steam = v.steam => u = v
  BY <1>1, <1>2, <1>3 DEF UsersTrue
<1>11. \A u, v \in users' : u.google # Nothing /\ u.google = v.google => u = v
  BY <1>1, <1>2, <1>3 DEF UsersTrue
<1>12. UsersTrue'
  BY <1>7, <1>8, <1>9, <1>10, <1>11 DEF UsersTrue, RowTrue
<1> QED BY <1>2, <1>6, <1>12 DEF row

\* Ways to go on that leave the rows alone.
LEMMA RowsAlone ==
  ASSUME AccountsTypeOK, RowsTrue, users' = users, NEW c \in SignIns,
         pos' \in [SignIns -> {"new", "mail", "save", "done", "refused"}],
         \A d \in SignIns \ {c} : pos'[d] = pos[d], pos[c] # "done" \/ pos'[c] = "done"
  PROVE  UsersTrue' /\ RowsKept
<1>1. RowsKept
  BY DEF RowsKept, SameRow
<1>2. UsersTrue'
  BY DEF UsersTrue, RowsTrue, AccountsTypeOK, User, RowTrue
<1> QED BY <1>1, <1>2

\* Users, tokens and codes after every step.
LEMMA RowsStep == AccountsTypeOK /\ RowsTrue /\ StoresTrue /\ [AccountsNext]_accountVars => RowsTrue'
<1> SUFFICES ASSUME AccountsTypeOK, RowsTrue, StoresTrue, [AccountsNext]_accountVars PROVE RowsTrue'
  OBVIOUS
<1>0. /\ UsersTrue /\ users \subseteq User /\ form \in [SignIns -> Form] /\ MailOf \in [Googles -> Emails \cup {Nothing}]
      /\ pos \in [SignIns -> {"new", "mail", "save", "done", "refused"}] /\ account \in [SignIns -> User \cup {Nothing}]
      /\ signed \subseteq SignIns \X SignIns
      /\ Nothing \notin Emails \cup Googles \cup Steams
  BY AccountsAssumption DEF RowsTrue, AccountsTypeOK
<1>k. \A c \in SignIns : form[c].email \in Emails /\ form[c].google \in Googles /\ form[c].steam \in Steams /\ form[c].code \in SignIns
  BY <1>0 DEF Form
<1>1. ASSUME NEW c \in SignIns, UNCHANGED <<users, form, account, signed>>,
             pos[c] # "done", pos' = [pos EXCEPT ![c] = pos'[c]], pos'[c] \in {"mail", "done", "refused"},
             pos'[c] = "mail" => Is(c, "google"),
             \A k \in DOMAIN codes' : k \in DOMAIN codes /\ codes'[k] = codes[k]
      PROVE  RowsTrue'
  <2>1. /\ \A d \in SignIns \ {c} : pos'[d] = pos[d] /\ account'[d] = account[d]
        /\ pos' \in [SignIns -> {"new", "mail", "save", "done", "refused"}]
    BY <1>0, <1>1
  <2>2. UsersTrue' /\ RowsKept
    BY <1>1, <2>1, RowsAlone
  <2>3. SaveIn(users', c, pos'[c], account'[c])
    BY <1>1 DEF SaveIn
  <2> QED BY <1>1, <2>1, <2>2, <2>3, RowsFrame
<1>2. ASSUME NEW c \in SignIns, NEW row, UNCHANGED <<users, form, codes, signed>>,
             pos[c] # "done", pos' = [pos EXCEPT ![c] = "save"], account' = [account EXCEPT ![c] = row],
             SaveIn(users, c, "save", row)
      PROVE  RowsTrue'
  <2>1. /\ \A d \in SignIns \ {c} : pos'[d] = pos[d] /\ account'[d] = account[d]
        /\ pos' \in [SignIns -> {"new", "mail", "save", "done", "refused"}]
    BY <1>0, <1>2
  <2>2. UsersTrue' /\ RowsKept
    BY <1>2, <2>1, RowsAlone
  <2>3. SaveIn(users', c, pos'[c], account'[c])
    BY <1>0, <1>2
  <2> QED BY <1>2, <2>1, <2>2, <2>3, RowsFrame
<1>3. ASSUME NEW c \in SignIns, MailTaken(c) \/ LoginFails(c) \/ SteamInvalid(c) \/ SaveFails(c) \/ PollNotReady(c)
      PROVE  RowsTrue'
  <2>1. pos[c] # "done" /\ pos' = [pos EXCEPT ![c] = "refused"] /\ UNCHANGED <<users, form, account, signed, codes>>
    BY <1>3 DEF MailTaken, LoginFails, SteamInvalid, SaveFails, PollNotReady, Deny, GoTo, tickets
  <2>2. pos'[c] = "refused"
    BY <1>0, <2>1
  <2> QED BY <1>1, <2>1, <2>2
<1>4. ASSUME NEW c \in SignIns, NoGoogle(c) PROVE RowsTrue'
  <2>1. pos[c] # "done" /\ pos' = [pos EXCEPT ![c] = "mail"] /\ UNCHANGED <<users, form, account, signed, codes>> /\ Is(c, "google")
    BY <1>4 DEF NoGoogle, GoTo, tickets
  <2>2. pos'[c] = "mail"
    BY <1>0, <2>1
  <2> QED BY <1>1, <2>1, <2>2
<1>5. ASSUME NEW c \in SignIns, CodeRefused(c) \/ Complete(c) \/ PollExpired(c) PROVE RowsTrue'
  <2>1. pos[c] # "done" /\ UNCHANGED <<users, form, account, signed>>
    BY <1>5 DEF CodeRefused, Complete, PollExpired, GoTo
  <2>2. pos' = [pos EXCEPT ![c] = pos'[c]] /\ pos'[c] \in {"done", "refused"}
    BY <1>0, <1>5 DEF CodeRefused, Complete, PollExpired, GoTo
  <2>3. \A k \in DOMAIN codes' : k \in DOMAIN codes /\ codes'[k] = codes[k]
    BY <1>5 DEF CodeRefused, Complete, PollExpired, Restrict
  <2> QED BY <1>1, <2>1, <2>2, <2>3
<1>6. ASSUME NEW c \in SignIns, MailFree(c) PROVE RowsTrue'
  <2> DEFINE row == [id |-> c, email |-> form[c].email, google |-> Nothing, steam |-> Nothing]
  <2>1. /\ pos[c] # "done" /\ pos' = [pos EXCEPT ![c] = "save"] /\ UNCHANGED <<users, form, signed, codes>>
        /\ Is(c, "register") /\ account' = [account EXCEPT ![c] = row]
    BY <1>6 DEF MailFree, GoTo, tickets
  <2>2. row \in User /\ RowTrue(row)
    BY <1>0, <1>k DEF User, RowTrue
  <2>3. SaveIn(users, c, "save", row)
    BY <2>1, <2>2 DEF SaveIn, Is, MailAsked
  <2> HIDE DEF row
  <2> QED BY <1>2, <2>1, <2>3
<1>7. ASSUME NEW c \in SignIns, NEW u \in User, RowTrue(u), u.email = MailAsked(c), Is(c, "google"),
             u.id = c \/ \E v \in users : SameRow(v, u),
             u.email = Nothing => u.id = c \/ u.google = form[c].google
      PROVE  SaveIn(users, c, "save", Linked(c, u))
  <2>1. /\ Linked(c, u).id = u.id /\ Linked(c, u).email = u.email /\ Linked(c, u).steam = u.steam
        /\ Linked(c, u).google = form[c].google /\ Linked(c, u) \in User
    BY <1>k DEF Linked, User
  <2>2. u.email = MailOf[form[c].google] /\ form[c].kind = "google"
    BY <1>7 DEF MailAsked, Is
  <2>3. RowTrue(Linked(c, u))
    BY <1>7, <2>1, <2>2 DEF RowTrue
  <2>4. Linked(c, u).id = c \/ \E v \in users : SameRow(v, Linked(c, u))
    BY <1>7, <2>1 DEF SameRow
  <2> QED BY <1>7, <2>1, <2>2, <2>3, <2>4 DEF SaveIn, Is
<1>8. ASSUME NEW c \in SignIns, FindGoogle(c) PROVE RowsTrue'
  <2>1. /\ pos[c] # "done" /\ pos' = [pos EXCEPT ![c] = "save"] /\ UNCHANGED <<users, form, signed, codes>> /\ Is(c, "google")
    BY <1>8 DEF FindGoogle, GoTo, tickets
  <2>2. PICK u \in ByGoogle(form[c].google) : account' = [account EXCEPT ![c] = Linked(c, u)]
    BY <1>8 DEF FindGoogle
  <2>3. u \in users /\ u \in User /\ RowTrue(u) /\ u.google = form[c].google
    BY <1>0 DEF ByGoogle, UsersTrue
  <2>4. u.email = MailAsked(c)
    BY <1>0, <1>k, <2>1, <2>3 DEF RowTrue, MailAsked
  <2>5. \E v \in users : SameRow(v, u)
    BY <2>3 DEF SameRow
  <2>6. SaveIn(users, c, "save", Linked(c, u))
    BY <1>7, <2>1, <2>3, <2>4, <2>5
  <2> QED BY <1>2, <2>1, <2>2, <2>6
<1>9. ASSUME NEW c \in SignIns, FindMail(c) PROVE RowsTrue'
  <2> DEFINE address == MailOf[form[c].google]
             new     == [id |-> c, email |-> address, google |-> Nothing, steam |-> Nothing]
  <2>1. /\ pos[c] = "mail" /\ pos' = [pos EXCEPT ![c] = "save"] /\ UNCHANGED <<users, form, signed, codes>>
    BY <1>9 DEF FindMail, GoTo, tickets
  <2>2. Is(c, "google") /\ MailAsked(c) = address /\ address \in Emails \cup {Nothing}
    <3>1. Is(c, "google")
      BY <2>1 DEF RowsTrue, SaveIn
    <3> QED BY <1>0, <1>k, <3>1 DEF MailAsked
  <2>3. PICK u \in (IF address = Nothing THEN {} ELSE ByMail(address)) \cup {new} :
            account' = [account EXCEPT ![c] = Linked(c, u)]
    BY <1>9 DEF FindMail
  <2>4. /\ u \in User /\ RowTrue(u) /\ u.email = address /\ (u.id = c \/ \E v \in users : SameRow(v, u))
        /\ u.email = Nothing => u.id = c
    <3>1. CASE address # Nothing /\ u \in ByMail(address)
      BY <1>0, <3>1 DEF ByMail, UsersTrue, SameRow
    <3>2. CASE u = new
      <4>1. new \in User /\ RowTrue(new)
        BY <1>0, <2>2 DEF User, RowTrue
      <4> QED BY <3>2, <4>1
    <3> QED BY <2>3, <3>1, <3>2
  <2>5. SaveIn(users, c, "save", Linked(c, u))
    BY <1>7, <2>2, <2>4
  <2> QED BY <1>2, <2>1, <2>3, <2>5
<1>10. ASSUME NEW c \in SignIns, FindSteam(c) PROVE RowsTrue'
  <2> DEFINE new == [id |-> c, email |-> Nothing, google |-> Nothing, steam |-> form[c].steam]
  <2>1. /\ pos[c] # "done" /\ pos' = [pos EXCEPT ![c] = "save"] /\ UNCHANGED <<users, form, signed, codes>> /\ Is(c, "steam")
    BY <1>10 DEF FindSteam, GoTo, tickets
  <2>2. PICK u \in IF BySteam(form[c].steam) # {} THEN BySteam(form[c].steam) ELSE {new} : account' = [account EXCEPT ![c] = u]
    BY <1>10 DEF FindSteam
  <2>3. u \in User /\ RowTrue(u) /\ u.steam = form[c].steam /\ (u.id = c \/ \E v \in users : SameRow(v, u))
    <3>1. CASE u \in BySteam(form[c].steam)
      BY <1>0, <3>1 DEF BySteam, UsersTrue, SameRow
    <3>2. CASE u = new
      <4>1. new \in User /\ RowTrue(new)
        BY <1>0, <1>k DEF User, RowTrue
      <4> QED BY <3>2, <4>1
    <3> QED BY <2>2, <3>1, <3>2
  <2>4. SaveIn(users, c, "save", u)
    BY <2>1, <2>3 DEF SaveIn, Is
  <2> QED BY <1>2, <2>1, <2>2, <2>4
<1>11. ASSUME NEW c \in SignIns, Login(c) PROVE RowsTrue'
  <2>1. /\ pos[c] = "new" /\ pos' = [pos EXCEPT ![c] = "done"] /\ UNCHANGED <<users, form, account, codes>> /\ Is(c, "login")
    BY <1>11 DEF Login, GoTo, tickets
  <2>2. PICK u \in ByMail(form[c].email) : signed' = signed \cup {<<c, u.id>>}
    BY <1>11 DEF Login, SignIn
  <2>3. TokenIn(users, <<c, u.id>>)
    BY <1>0, <1>k, <2>1 DEF TokenIn, ByMail, Is, MailAsked
  <2>4. /\ \A d \in SignIns \ {c} : pos'[d] = pos[d] /\ account'[d] = account[d]
        /\ pos' \in [SignIns -> {"new", "mail", "save", "done", "refused"}] /\ pos'[c] = "done"
    BY <1>0, <2>1
  <2>5. UsersTrue' /\ RowsKept
    BY <2>1, <2>4, RowsAlone
  <2>6. SaveIn(users', c, pos'[c], account'[c])
    BY <2>4 DEF SaveIn
  <2>7. \A s \in signed' \ signed : TokenIn(users', s)
    BY <2>1, <2>2, <2>3
  <2> QED BY <2>1, <2>4, <2>5, <2>6, <2>7, RowsFrame
<1>12. ASSUME NEW c \in SignIns, Exchange(c) PROVE RowsTrue'
  <2>1. /\ pos[c] = "new" /\ pos' = [pos EXCEPT ![c] = "done"] /\ UNCHANGED <<users, form, account>> /\ Is(c, "exchange")
        /\ form[c].code \in DOMAIN codes /\ signed' = signed \cup {<<c, codes[form[c].code].user>>}
        /\ codes' = Restrict(codes, DOMAIN codes \ {form[c].code})
    BY <1>12 DEF Exchange, SignIn, GoTo
  <2>2. CodeIn(users, form[c].code, codes[form[c].code].user)
    BY <2>1 DEF RowsTrue
  <2>3. TokenIn(users, <<c, codes[form[c].code].user>>)
    BY <2>1, <2>2 DEF TokenIn, CodeIn, Is, SteamAsked
  <2>4. /\ \A d \in SignIns \ {c} : pos'[d] = pos[d] /\ account'[d] = account[d]
        /\ pos' \in [SignIns -> {"new", "mail", "save", "done", "refused"}] /\ pos'[c] = "done"
    BY <1>0, <2>1
  <2>5. UsersTrue' /\ RowsKept
    BY <2>1, <2>4, RowsAlone
  <2>6. SaveIn(users', c, pos'[c], account'[c])
    BY <2>4 DEF SaveIn
  <2>7. \A s \in signed' \ signed : TokenIn(users', s)
    BY <2>1, <2>3
  <2>8. \A k \in DOMAIN codes' : k \in DOMAIN codes /\ codes'[k] = codes[k]
    BY <2>1 DEF Restrict
  <2> QED BY <2>1, <2>4, <2>5, <2>6, <2>7, <2>8, RowsFrame
<1>13. ASSUME NEW c \in SignIns, PollReady(c) PROVE RowsTrue'
  <2> DEFINE s == <<c, loginPolls[form[c].poll].user>>
  <2>1. /\ pos[c] = "new" /\ pos' = [pos EXCEPT ![c] = "done"] /\ UNCHANGED <<users, form, account, codes>> /\ Is(c, "poll")
        /\ signed' \in {signed, signed \cup {s}}
    BY <1>13 DEF PollReady, GoTo
  <2>2. TokenIn(users, s)
    BY <2>1 DEF TokenIn, Is
  <2>3. /\ \A d \in SignIns \ {c} : pos'[d] = pos[d] /\ account'[d] = account[d]
        /\ pos' \in [SignIns -> {"new", "mail", "save", "done", "refused"}] /\ pos'[c] = "done"
    BY <1>0, <2>1
  <2>4. UsersTrue' /\ RowsKept
    BY <2>1, <2>3, RowsAlone
  <2>5. SaveIn(users', c, pos'[c], account'[c])
    BY <2>3 DEF SaveIn
  <2> HIDE DEF s
  <2>6. \A t \in signed' \ signed : TokenIn(users', t)
    BY <2>1, <2>2
  <2> QED BY <2>1, <2>3, <2>4, <2>5, <2>6, RowsFrame
<1>14. ASSUME NEW c \in SignIns, pos[c] = "save", pos' = [pos EXCEPT ![c] = "done"], UNCHANGED <<form, account>>,
              ~Clashes(account[c]), users' = Saved(account[c]),
              \A s \in signed' \ signed : TokenIn(users', s),
              \A k \in DOMAIN codes' : (k \in DOMAIN codes /\ codes'[k] = codes[k]) \/ CodeIn(users', k, codes'[k].user)
       PROVE  RowsTrue'
  <2>1. UsersTrue' /\ RowsKept
    BY <1>14, Saving
  <2>2. /\ \A d \in SignIns \ {c} : pos'[d] = pos[d] /\ account'[d] = account[d]
        /\ pos'[c] = "done"
    BY <1>0, <1>14
  <2>3. SaveIn(users', c, pos'[c], account'[c])
    BY <2>2 DEF SaveIn
  <2> QED BY <1>14, <2>1, <2>2, <2>3, RowsFrame
<1>15. ASSUME NEW c \in SignIns, SaveUser(c) PROVE RowsTrue'
  <2>1. /\ pos[c] = "save" /\ pos' = [pos EXCEPT ![c] = "done"] /\ UNCHANGED <<form, account, codes>> /\ ~Is(c, "steam")
        /\ ~Clashes(account[c]) /\ users' = Saved(account[c]) /\ signed' = signed \cup {<<c, account[c].id>>}
    BY <1>15 DEF SaveUser, SignIn, GoTo, tickets
  <2>2. account[c] \in users'
    BY <2>1, Saving
  <2>3. /\ form[c].kind \in {"register", "google"} /\ account[c].email = MailAsked(c)
        /\ account[c].email = Nothing => account[c].google = form[c].google
    <3>1. form[c].kind \in {"register", "google"} /\ account[c].email = MailAsked(c)
      BY <2>1 DEF RowsTrue, SaveIn, Is
    <3>2. form[c].kind = "register" => MailAsked(c) # Nothing
      BY <1>0, <1>k DEF MailAsked, Is
    <3> QED BY <2>1, <3>1, <3>2 DEF RowsTrue, SaveIn, Is
  <2>4. TokenIn(users', <<c, account[c].id>>)
    BY <2>2, <2>3 DEF TokenIn, Is
  <2> QED BY <1>14, <2>1, <2>4
<1>16. ASSUME NEW c \in SignIns, MakeCode(c) PROVE RowsTrue'
  <2> DEFINE ticket == [user |-> account[c].id, expires |-> clock + CodeTTL]
  <2>1. /\ pos[c] = "save" /\ pos' = [pos EXCEPT ![c] = "done"] /\ UNCHANGED <<form, account, signed>> /\ Is(c, "steam")
        /\ ~Clashes(account[c]) /\ users' = Saved(account[c]) /\ codes' = With(codes, c, ticket)
    BY <1>16 DEF MakeCode, GoTo
  <2>2. account[c] \in users'
    BY <2>1, Saving
  <2>3. account[c].steam = form[c].steam
    BY <2>1 DEF RowsTrue, SaveIn
  <2>4. CodeIn(users', c, ticket.user)
    BY <2>2, <2>3 DEF CodeIn
  <2>5. DOMAIN Room(codes) \subseteq DOMAIN codes /\ \A x \in DOMAIN Room(codes) : Room(codes)[x] = codes[x]
    BY RoomLeft DEF AccountsTypeOK
  <2> HIDE DEF ticket
  <2>6. \A k \in DOMAIN codes' : (k \in DOMAIN codes /\ codes'[k] = codes[k]) \/ CodeIn(users', k, codes'[k].user)
    BY <2>1, <2>4, <2>5 DEF With
  <2> QED BY <1>14, <2>1, <2>6
<1>17. CASE TimePasses \/ UNCHANGED accountVars
  <2>1. UNCHANGED <<users, form, pos, account, codes, signed>>
    BY <1>17 DEF TimePasses, accountVars
  <2>2. UsersTrue'
    BY <1>0, <2>1 DEF UsersTrue, RowTrue
  <2> QED BY <2>1, <2>2 DEF RowsTrue, SaveIn, TokenIn, CodeIn, Is, MailAsked, SteamAsked
<1>18. CASE LoseStores
  <2>1. /\ UNCHANGED <<users, form, account, signed>> /\ DOMAIN codes' = {}
        /\ pos' = [c \in SignIns |-> IF pos[c] \in {"mail", "save"} THEN "refused" ELSE pos[c]]
    BY <1>18 DEF LoseStores, Empty
  <2>2. UsersTrue'
    BY <1>0, <2>1 DEF UsersTrue, RowTrue, User
  <2>3. \A c \in SignIns : pos'[c] \notin {"mail", "save"}
    BY <2>1
  <2> QED BY <2>1, <2>2, <2>3 DEF RowsTrue, SaveIn, TokenIn, Is, MailAsked, SteamAsked
<1> QED BY <1>3, <1>4, <1>5, <1>6, <1>8, <1>9, <1>10, <1>11, <1>12, <1>13, <1>15, <1>16, <1>17, <1>18 DEF AccountsNext

\* The inductive invariant of the sign-ins (backend/routers/web_auth.py).
THEOREM AccountsInvariant == AccountsSpec => []AccountsInv
<1>1. AccountsInit => AccountsInv
  BY AccountsBegins, StoresBegin DEF AccountsInv
<1>2. AccountsInv /\ [AccountsNext]_accountVars => AccountsInv'
  BY AccountsTypeStep, RowsStep, StoresStep DEF AccountsInv
<1> QED BY <1>1, <1>2, PTL DEF AccountsSpec

\* For any requests, of any number of persons: who signs in again gets the token of one and the same user, and a
\* code or a completed poll is handed out once, and not lost but to time, its own renewal or StoreMax newer ones.
THEOREM LoginsAreSound == AccountsSpec => []LoginsSound
<1>1. AccountsInv => LoginsSound
  <2> SUFFICES ASSUME AccountsInv PROVE LoginsSound
    OBVIOUS
  <2>0. AccountsTypeOK /\ RowsTrue /\ StoresTrue /\ UsersTrue
    BY DEF AccountsInv, RowsTrue
  <2>1. ASSUME NEW s \in signed, NEW t \in signed, Same(s[1], t[1]) PROVE s[2] = t[2]
    <3>1. TokenIn(users, s) /\ TokenIn(users, t) /\ s[1] \in SignIns /\ t[1] \in SignIns
      BY <2>0 DEF RowsTrue, AccountsTypeOK
    <3>2. Nothing \notin Emails \cup Steams /\ form \in [SignIns -> Form] /\ MailOf \in [Googles -> Emails \cup {Nothing}]
      BY <2>0, AccountsAssumption DEF AccountsTypeOK
    <3>3. form[s[1]].google # Nothing
      BY <3>1, <3>2, AccountsAssumption DEF Form
    <3>4. Is(s[1], "exchange") => SteamAsked(s[1]) # Nothing
      BY <3>1, <3>2 DEF SteamAsked, Form
    <3>5. CASE /\ {form[s[1]].kind, form[t[1]].kind} \subseteq {"register", "login", "google"}
               /\ MailAsked(s[1]) = MailAsked(t[1])
               /\ MailAsked(s[1]) = Nothing => form[s[1]].google = form[t[1]].google
      <4>1. PICK u \in users : /\ u.id = s[2] /\ u.email = MailAsked(s[1])
                               /\ u.email = Nothing => u.google = form[s[1]].google
        BY <3>1, <3>5 DEF TokenIn
      <4>2. PICK v \in users : /\ v.id = t[2] /\ v.email = MailAsked(s[1])
                               /\ v.email = Nothing => v.google = form[s[1]].google
        BY <3>1, <3>5 DEF TokenIn
      <4> QED BY <2>0, <3>3, <4>1, <4>2 DEF UsersTrue
    <3>6. CASE Is(s[1], "exchange") /\ Is(t[1], "exchange") /\ SteamAsked(s[1]) = SteamAsked(t[1])
      <4>1. PICK u \in users : u.id = s[2] /\ u.steam = SteamAsked(s[1])
        BY <3>1, <3>6 DEF TokenIn
      <4>2. PICK v \in users : v.id = t[2] /\ v.steam = SteamAsked(s[1])
        BY <3>1, <3>6 DEF TokenIn
      <4> QED BY <2>0, <3>4, <3>6, <4>1, <4>2 DEF UsersTrue
    <3> QED BY <2>1, <3>5, <3>6 DEF Same
  <2>2. \A t \in made : /\ t = <<t[1], t[2], t[3]>> /\ t[1] \in {"code", "poll"} /\ t[3] \in Nat
    BY <2>0 DEF StoresTrue, MadeOf
  <2>3. ASSUME NEW t \in made, t \in handed, Held(t) PROVE FALSE
    <3>1. \A x \in DOMAIN codes : <<"code", x, codes[x].expires - CodeTTL>> \notin handed
      BY <2>0 DEF StoresTrue, StoreOf
    <3>2. \A x \in DOMAIN loginPolls : <<"poll", x, loginPolls[x].expires - PollTTL>> \notin handed
      BY <2>0 DEF StoresTrue, StoreOf
    <3>3. CodeTTL \in Nat /\ PollTTL \in Nat
      BY AccountsAssumption
    <3>4. CASE t[1] = "code"
      <4>1. t[2] \in DOMAIN codes /\ codes[t[2]].expires - CodeTTL = t[3]
        BY <2>2, <2>3, <3>3, <3>4 DEF Held
      <4> QED BY <2>2, <2>3, <3>1, <3>4, <4>1
    <3>5. CASE t[1] = "poll"
      <4>1. t[2] \in DOMAIN loginPolls /\ loginPolls[t[2]].expires - PollTTL = t[3]
        BY <2>2, <2>3, <3>3, <3>5 DEF Held
      <4> QED BY <2>2, <2>3, <3>2, <3>5, <4>1
    <3> QED BY <2>2, <3>4, <3>5
  <2>4. ASSUME crashes = 0, NEW t \in made \ handed
        PROVE  \/ Held(t) \/ clock > t[3] + TTL(t) \/ Cardinality(Later(t)) >= StoreMax
               \/ \E u \in Later(t) : u[2] = t[2]
    <3>1. Later(t) = NewerOf(made, t)
      BY DEF Later, NewerOf
    <3>2. CASE t[1] = "code"
      BY <2>0, <2>4, <3>1, <3>2 DEF StoresTrue, StoreKeeps, KeptIn, HeldIn, Held, TTL
    <3>3. CASE t[1] = "poll"
      BY <2>0, <2>4, <3>1, <3>3 DEF StoresTrue, StoreKeeps, KeptIn, HeldIn, Held, TTL
    <3> QED BY <2>2, <3>2, <3>3
  <2> QED BY <2>0, <2>1, <2>3, <2>4 DEF LoginsSound
<1> QED BY <1>1, AccountsInvariant, PTL

=============================================================================
