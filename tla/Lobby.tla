-------------------------------- MODULE Lobby --------------------------------
(***************************************************************************)
(* One lobby (backend/routers/lobby.py): who is in it, in which role, its  *)
(* invite code, its name and its seasons.                                  *)
(*                                                                         *)
(* A call is a request under way.  It reads its caller's role, the lobby   *)
(* and the member it concerns in statements of their own and then writes,  *)
(* while other calls do the same; an UPDATE or DELETE finds its row by     *)
(* primary key.  The lobby's creator never changes.                        *)
(***************************************************************************)
EXTENDS Naturals, FiniteSets

CONSTANTS Users, Creator,
          Calls,      \* requests
          Founding,   \* the request that created the lobby
          Codes,      \* invite codes
          LobbyScripts,   \* what the requests may ask, together
          NoMember    \* no row

Rank == [guest |-> 0, member |-> 1, moderator |-> 2, admin |-> 3]
Member == [id : Calls \cup {Founding}, user : Users, role : {"member", "moderator", "admin"}]
Kinds == {"join", "joinByCode", "leave", "setRole", "kick", "rename", "reset", "season", "show"}
Op == [kind : Kinds, user : Users, target : Users, arg : Codes \cup DOMAIN Rank]

ASSUME LobbyAssumption ==
    /\ Creator \in Users /\ Founding \notin Calls /\ NoMember \notin Member
    /\ LobbyScripts \subseteq [Calls -> Op]

VARIABLES
    members,    \* lobby_members
    invite,     \* the lobby's invite code
    namedBy,    \* who named it last
    seasons,    \* the calls that created its seasons
    op,         \* what each call asks
    phase,      \* what its handler does next
    found,      \* the member it has loaded
    outcome,    \* what it was answered, or the code it was shown
    appointed   \* history: ids of the rows an admin has made moderator

lobbyVars == <<members, invite, namedBy, seasons, op, phase, found, outcome, appointed>>

Replies == {"none", "ok", "already", "400", "403", "404", "500"} \cup Codes

LobbyTypeOK ==
    /\ members \subseteq Member /\ IsFiniteSet(members)
    /\ invite \in Codes /\ namedBy \in Users /\ seasons \subseteq Calls
    /\ op \in [Calls -> Op]
    /\ phase \in [Calls -> {"new", "own", "insert", "load", "write", "done"}]
    /\ found \in [Calls -> Member \cup {NoMember}]
    /\ outcome \in [Calls -> Replies]
    /\ appointed \subseteq Calls \cup {Founding}

\* create_lobby: the lobby and its admin in one transaction.
LobbyInit ==
    /\ members = {[id |-> Founding, user |-> Creator, role |-> "admin"]}
    /\ invite \in Codes /\ namedBy = Creator /\ seasons = {}
    /\ op \in LobbyScripts
    /\ phase = [c \in Calls |-> "new"]
    /\ found = [c \in Calls |-> NoMember]
    /\ outcome = [c \in Calls |-> "none"]
    /\ appointed = {}

RowsOf(u) == {m \in members : m.user = u}
RowOf(u)  == IF RowsOf(u) = {} THEN NoMember ELSE CHOOSE m \in RowsOf(u) : TRUE
RoleOf(u) == IF RowsOf(u) = {} THEN "guest" ELSE RowOf(u).role
Enough(u, least) == Rank[RoleOf(u)] >= Rank[least]

Pass(c, from, to) == phase[c] = from /\ phase' = [phase EXCEPT ![c] = to]
Tell(c, what) == outcome' = [outcome EXCEPT ![c] = what]
Refuse(c, from, what) ==
    /\ Pass(c, from, "done") /\ Tell(c, what)
    /\ UNCHANGED <<members, invite, namedBy, seasons, op, found, appointed>>
Asks(c, kinds) == op[c].kind \in kinds

-----------------------------------------------------------------------------
(* join_lobby and join_by_code *)

JoinLobby(c) ==
    /\ Asks(c, {"join"}) /\ op[c].arg = invite /\ Pass(c, "new", "own")
    /\ UNCHANGED <<members, invite, namedBy, seasons, op, found, outcome, appointed>>

JoinByCode(c) ==
    /\ Asks(c, {"joinByCode"}) /\ op[c].arg = invite /\ Pass(c, "new", "own")
    /\ UNCHANGED <<members, invite, namedBy, seasons, op, found, outcome, appointed>>

WrongCode(c) ==
    /\ Asks(c, {"join", "joinByCode"}) /\ op[c].arg # invite
    /\ Refuse(c, "new", IF Asks(c, {"join"}) THEN "403" ELSE "404")

AlreadyMember(c) == RowsOf(op[c].user) # {} /\ Refuse(c, "own", "already")

NotYetMember(c) ==
    /\ RowsOf(op[c].user) = {} /\ Pass(c, "own", "insert")
    /\ UNCHANGED <<members, invite, namedBy, seasons, op, found, outcome, appointed>>

InsertMember(c) ==
    /\ RowsOf(op[c].user) = {} /\ Pass(c, "insert", "done") /\ Tell(c, "ok")
    /\ members' = members \cup {[id |-> c, user |-> op[c].user, role |-> "member"]}
    /\ UNCHANGED <<invite, namedBy, seasons, op, found, appointed>>

\* The caller has become a member meanwhile: uq_lobby_member.
JoinTwice(c) == RowsOf(op[c].user) # {} /\ Refuse(c, "insert", "500")

-----------------------------------------------------------------------------
(* leave_lobby, change_member_role, kick_member *)

Load(c, from, u) ==
    /\ Pass(c, from, "write") /\ found' = [found EXCEPT ![c] = RowOf(u)]
    /\ UNCHANGED <<members, invite, namedBy, seasons, op, outcome, appointed>>

CreatorLeaves(c) == Asks(c, {"leave"}) /\ op[c].user = Creator /\ Refuse(c, "new", "400")
Leave(c) == Asks(c, {"leave"}) /\ op[c].user # Creator /\ Load(c, "new", op[c].user)

LeastRole(kind) == IF kind \in {"setRole", "reset"} THEN "admin" ELSE "moderator"
Privileged == {"setRole", "kick", "rename", "reset", "season"}

\* _get_member_role and _require_role.
CheckRole(c) ==
    /\ Asks(c, Privileged) /\ Enough(op[c].user, LeastRole(op[c].kind))
    /\ Pass(c, "new", IF Asks(c, {"setRole", "kick"}) THEN "load" ELSE "write")
    /\ UNCHANGED <<members, invite, namedBy, seasons, op, found, outcome, appointed>>

RoleTooLow(c) ==
    /\ Asks(c, Privileged) /\ ~Enough(op[c].user, LeastRole(op[c].kind))
    /\ Refuse(c, "new", "403")

\* The creator is neither given a role nor kicked; the roles to give are two.
TargetRefused(c) ==
    /\ \/ op[c].target = Creator
       \/ Asks(c, {"setRole"}) /\ op[c].arg \notin {"moderator", "member"}
    /\ Refuse(c, "load", "400")

\* Mutated form: the creator is a target like others.
LoadAnyTarget(c) ==
    /\ Asks(c, {"setRole"}) => op[c].arg \in {"moderator", "member"}
    /\ Load(c, "load", op[c].target)

LoadTarget(c) ==
    /\ op[c].target # Creator
    /\ Asks(c, {"setRole"}) => op[c].arg \in {"moderator", "member"}
    /\ Load(c, "load", op[c].target)

NoTarget(c) == Asks(c, {"setRole"}) /\ found[c] = NoMember /\ Refuse(c, "write", "404")

WriteRole(c) ==
    /\ Asks(c, {"setRole"}) /\ found[c] \in Member /\ Pass(c, "write", "done") /\ Tell(c, "ok")
    /\ \E m \in members : m.id = found[c].id /\ found[c].role # op[c].arg
    /\ members' = {IF m.id = found[c].id THEN [m EXCEPT !.role = op[c].arg] ELSE m : m \in members}
    /\ appointed' = appointed \cup (IF op[c].arg = "moderator" THEN {found[c].id} ELSE {})
    /\ UNCHANGED <<invite, namedBy, seasons, op, found>>

\* Nothing to change, or no row any more to change: StaleDataError.
RoleKept(c) ==
    /\ Asks(c, {"setRole"}) /\ found[c] \in Member /\ found[c].role = op[c].arg
    /\ Refuse(c, "write", "ok")

RoleLost(c) ==
    /\ Asks(c, {"setRole"}) /\ found[c] \in Member /\ found[c].role # op[c].arg
    /\ \A m \in members : m.id # found[c].id
    /\ Refuse(c, "write", "500")

DeleteMember(c) ==
    /\ Asks(c, {"leave", "kick"}) /\ Pass(c, "write", "done") /\ Tell(c, "ok")
    /\ members' = {m \in members : found[c] = NoMember \/ m.id # found[c].id}
    /\ UNCHANGED <<invite, namedBy, seasons, op, found, appointed>>

-----------------------------------------------------------------------------
(* update_settings, reset_invite_code, create_season, get_lobby *)

Rename(c) ==
    /\ Asks(c, {"rename"}) /\ Pass(c, "write", "done") /\ Tell(c, "ok")
    /\ namedBy' = op[c].user
    /\ UNCHANGED <<members, invite, seasons, op, found, appointed>>

ResetCode(c) ==
    /\ Asks(c, {"reset"}) /\ Pass(c, "write", "done") /\ Tell(c, "ok")
    /\ invite' \in Codes \ {invite}
    /\ UNCHANGED <<members, namedBy, seasons, op, found, appointed>>

CreateSeason(c) ==
    /\ Asks(c, {"season"}) /\ Pass(c, "write", "done") /\ Tell(c, "ok")
    /\ seasons' = seasons \cup {c}
    /\ UNCHANGED <<members, invite, namedBy, op, found, appointed>>

\* The code is shown to those who may hand it on.
ShowLobby(c) ==
    /\ Asks(c, {"show"})
    /\ Refuse(c, "new", IF Enough(op[c].user, "moderator") THEN invite ELSE "ok")

LobbyNext ==
    \E c \in Calls :
        \/ JoinLobby(c) \/ JoinByCode(c) \/ WrongCode(c)
        \/ AlreadyMember(c) \/ NotYetMember(c) \/ InsertMember(c) \/ JoinTwice(c)
        \/ CreatorLeaves(c) \/ Leave(c) \/ CheckRole(c) \/ RoleTooLow(c)
        \/ TargetRefused(c) \/ LoadTarget(c)
        \/ NoTarget(c) \/ WriteRole(c) \/ RoleKept(c) \/ RoleLost(c) \/ DeleteMember(c)
        \/ Rename(c) \/ ResetCode(c) \/ CreateSeason(c) \/ ShowLobby(c)

LobbySpec == LobbyInit /\ [][LobbyNext]_lobbyVars

-----------------------------------------------------------------------------
\* However the calls interleave: the creator keeps his membership and is the only
\* admin; nobody is in the lobby twice; and a moderator was made one by an admin in
\* this membership, so that one who was kicked comes back as a plain member.
RolesSound ==
    /\ LobbyTypeOK
    /\ \A m \in members : m.role = "admin" <=> m.user = Creator
    /\ RowsOf(Creator) # {}
    /\ \A m, n \in members : m.user = n.user => m = n
    /\ \A m \in members : m.role = "moderator" => m.id \in appointed

\* The user an id belongs to: a call makes at most one row, and for its caller.
OwnerOf(id) == IF id = Founding THEN Creator ELSE op[id].user

\* The inductive invariant: an id is its call's own, in the table and in what calls have
\* loaded; a call that has still to insert has no row; and what a call has loaded to
\* write to is not the creator's row, nor the role it writes the admin's.
LobbyInv ==
    /\ RolesSound
    /\ \A m \in members : m.user = OwnerOf(m.id)
    /\ \A m, n \in members : m.id = n.id => m = n
    /\ \A m \in members : m.id # Founding => phase[m.id] = "done"
    /\ \A c \in Calls : found[c] # NoMember => found[c].user = OwnerOf(found[c].id) /\ found[c].user # Creator
    /\ \A c \in Calls : phase[c] = "write" /\ op[c].kind = "setRole" => op[c].arg \in {"moderator", "member"}
=============================================================================
