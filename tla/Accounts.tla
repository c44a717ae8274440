------------------------------ MODULE Accounts ------------------------------
(***************************************************************************)
(* Sign-in (backend/routers/web_auth.py): by password, by Google, by Steam *)
(* with a code to be exchanged, and of the launcher, which polls until the *)
(* browser has signed in.                                                  *)
(*                                                                         *)
(* A call is a request under way; its SELECTs and its COMMIT are steps of  *)
(* their own.  Codes and polls are in the memory of the backend, where a   *)
(* handler does what it does between two awaits at once; every such step   *)
(* takes some time, so no two of them fall into the same moment.           *)
(***************************************************************************)
EXTENDS Integers, FiniteSets, Functions

CONSTANTS Emails, Googles, Steams, Polls,
          SignIns,       \* requests
          Scripts,       \* what they may ask, together: the form of each
          MailOf,        \* the e-mail address that Google tells of each account, if any
          Nothing,       \* NULL
          CodeTTL, PollTTL, StoreMax,   \* 120 s, 300 s, 1000 entries
          MaxNow, MaxCrashes             \* bounds: moments, restarts of the backend

FormKinds == {"register", "login", "google", "steam", "exchange", "complete", "poll"}
Form == [kind : FormKinds, email : Emails, google : Googles, steam : Steams, code : SignIns,
         poll : Polls]
User == [id : SignIns, email : Emails \cup {Nothing}, google : Googles \cup {Nothing},
         steam : Steams \cup {Nothing}]
Ticket == [user : SignIns, expires : Nat]

ASSUME AccountsAssumption ==
    /\ Scripts \subseteq [SignIns -> Form] /\ MailOf \in [Googles -> Emails \cup {Nothing}]
    /\ Nothing \notin Emails \cup Googles \cup Steams \cup User \cup SignIns \cup Polls
    /\ CodeTTL \in Nat /\ PollTTL \in Nat /\ StoreMax \in Nat \ {0}
    /\ MaxNow \in Nat /\ MaxCrashes \in Nat

VARIABLES
    users,      \* the table of users; an id is the request that created the row
    form,       \* what each request asks
    pos,        \* what its handler does next
    account,    \* the user it has found
    codes,      \* _steam_codes: the ticket of each code; a code is named for its request
    loginPolls, \* _launcher_polls
    clock,
    signed,     \* history: <<request, id>>: the token of a user was given to a request
    handed,     \* history: <<"code" or "poll", name, when the ticket was made>>
    made,       \* history: the same for the tickets made
    crashes

accountVars == <<users, form, pos, account, codes, loginPolls, clock, signed, handed, made, crashes>>

Store(f) == DOMAIN f \subseteq SignIns \cup Polls /\ f \in [DOMAIN f -> Ticket]
Empty == [x \in {} |-> {}]

AccountsTypeOK ==
    /\ users \subseteq User /\ form \in Scripts
    /\ pos \in [SignIns -> {"new", "mail", "save", "done", "refused"}]
    /\ account \in [SignIns -> User \cup {Nothing}]
    /\ Store(codes) /\ Store(loginPolls) /\ clock \in Nat
    /\ signed \subseteq SignIns \X SignIns
    /\ handed \subseteq {"code", "poll"} \X (SignIns \cup Polls) \X Nat /\ handed \subseteq made
    /\ crashes \in 0..MaxCrashes

AccountsInit ==
    /\ users = {} /\ form \in Scripts
    /\ pos = [c \in SignIns |-> "new"] /\ account = [c \in SignIns |-> Nothing]
    /\ codes = Empty /\ loginPolls = Empty /\ clock = 0
    /\ signed = {} /\ handed = {} /\ made = {} /\ crashes = 0

tickets == <<codes, loginPolls, clock, handed, made>>

GoTo(c, from, to) == pos[c] = from /\ pos' = [pos EXCEPT ![c] = to]
Is(c, kind) == form[c].kind = kind
Deny(c, from) == GoTo(c, from, "refused") /\ UNCHANGED <<users, form, account, tickets, signed, crashes>>
SignIn(c, id) == signed' = signed \cup {<<c, id>>}

ByMail(m)   == {u \in users : u.email = m}
ByGoogle(g) == {u \in users : u.google = g}
BySteam(s)  == {u \in users : u.steam = s}

\* Mutated form: no column is UNIQUE.
NotUnique(u) == FALSE

\* The UNIQUE columns of users.
Clashes(u) == \E v \in users : /\ v.id # u.id
                               /\ \/ u.email # Nothing /\ v.email = u.email
                                  \/ u.google # Nothing /\ v.google = u.google
                                  \/ u.steam # Nothing /\ v.steam = u.steam
Saved(u) == {v \in users : v.id # u.id} \cup {u}

-----------------------------------------------------------------------------
(* web_register, web_login and launcher_login *)

MailTaken(c) == Is(c, "register") /\ ByMail(form[c].email) # {} /\ Deny(c, "new")

MailFree(c) ==
    /\ Is(c, "register") /\ ByMail(form[c].email) = {} /\ GoTo(c, "new", "save")
    /\ account' = [account EXCEPT ![c] = [id |-> c, email |-> form[c].email, google |-> Nothing, steam |-> Nothing]]
    /\ UNCHANGED <<users, form, tickets, signed, crashes>>

\* A password is right or wrong; who came by Google or Steam has none.
Login(c) ==
    /\ Is(c, "login") /\ GoTo(c, "new", "done")
    /\ \E u \in ByMail(form[c].email) : Is(u.id, "register") /\ SignIn(c, u.id)
    /\ UNCHANGED <<users, form, account, tickets, crashes>>

LoginFails(c) == Is(c, "login") /\ Deny(c, "new")

-----------------------------------------------------------------------------
(* web_google: by its id, else by its e-mail address, else a new user *)

Linked(c, u) == [u EXCEPT !.google = form[c].google]

FindGoogle(c) ==
    /\ Is(c, "google") /\ GoTo(c, "new", "save")
    /\ \E u \in ByGoogle(form[c].google) : account' = [account EXCEPT ![c] = Linked(c, u)]
    /\ UNCHANGED <<users, form, tickets, signed, crashes>>

NoGoogle(c) ==
    /\ Is(c, "google") /\ ByGoogle(form[c].google) = {} /\ GoTo(c, "new", "mail")
    /\ UNCHANGED <<users, form, account, tickets, signed, crashes>>

FindMail(c) ==
    LET address == MailOf[form[c].google]
        found   == IF address = Nothing THEN {} ELSE ByMail(address)
    IN  /\ GoTo(c, "mail", "save")
        /\ \E u \in IF found # {} THEN found
                    ELSE {[id |-> c, email |-> address, google |-> Nothing, steam |-> Nothing]} :
              account' = [account EXCEPT ![c] = Linked(c, u)]
        /\ UNCHANGED <<users, form, tickets, signed, crashes>>

\* The end of web_register and of web_google.
SaveUser(c) ==
    /\ ~Is(c, "steam") /\ GoTo(c, "save", "done") /\ ~Clashes(account[c])
    /\ users' = Saved(account[c]) /\ SignIn(c, account[c].id)
    /\ UNCHANGED <<form, account, tickets, crashes>>

\* IntegrityError: 500.
SaveFails(c) == Deny(c, "save") /\ Clashes(account[c])

-----------------------------------------------------------------------------
(* steam_callback and steam_token_exchange *)

SteamInvalid(c) == Is(c, "steam") /\ Deny(c, "new")

FindSteam(c) ==
    LET mine == BySteam(form[c].steam)
    IN  /\ Is(c, "steam") /\ GoTo(c, "new", "save")
        /\ \E u \in IF mine # {} THEN mine
                    ELSE {[id |-> c, email |-> Nothing, google |-> Nothing, steam |-> form[c].steam]} :
              account' = [account EXCEPT ![c] = u]
        /\ UNCHANGED <<users, form, tickets, signed, crashes>>

\* What has expired goes and, if the store is full, what expires first.
Room(store) ==
    LET live   == {x \in DOMAIN store : store[x].expires >= clock}
        oldest == {x \in live : \A y \in live : store[x].expires =< store[y].expires}
    IN  Restrict(store, IF Cardinality(live) < StoreMax THEN live ELSE live \ oldest)

With(store, name, ticket) ==
    [x \in DOMAIN Room(store) \cup {name} |-> IF x = name THEN ticket ELSE Room(store)[x]]

MakeCode(c) ==
    /\ Is(c, "steam") /\ GoTo(c, "save", "done") /\ ~Clashes(account[c]) /\ clock < MaxNow
    /\ users' = Saved(account[c])
    /\ codes' = With(codes, c, [user |-> account[c].id, expires |-> clock + CodeTTL])
    /\ made' = made \cup {<<"code", c, clock>>} /\ clock' = clock + 1
    /\ UNCHANGED <<form, account, loginPolls, signed, handed, crashes>>

Exchange(c) ==
    LET k == form[c].code
    IN  /\ Is(c, "exchange") /\ GoTo(c, "new", "done")
        /\ k \in DOMAIN codes /\ codes[k].expires >= clock
        /\ codes' = Restrict(codes, DOMAIN codes \ {k}) /\ SignIn(c, codes[k].user)
        /\ handed' = handed \cup {<<"code", k, codes[k].expires - CodeTTL>>}
        /\ UNCHANGED <<users, form, account, loginPolls, clock, made, crashes>>

CodeRefused(c) ==
    LET k == form[c].code
    IN  /\ Is(c, "exchange") /\ GoTo(c, "new", "refused")
        /\ k \in DOMAIN codes => codes[k].expires < clock
        /\ codes' = Restrict(codes, DOMAIN codes \ {k})
        /\ UNCHANGED <<users, form, account, loginPolls, clock, signed, handed, made, crashes>>

-----------------------------------------------------------------------------
(* launcher_auth_complete and launcher_poll *)

\* A browser that has a token completes the poll.
Complete(c) ==
    /\ Is(c, "complete") /\ GoTo(c, "new", "done") /\ clock < MaxNow
    /\ \E s \in signed :
          loginPolls' = With(loginPolls, form[c].poll, [user |-> s[2], expires |-> clock + PollTTL])
    /\ made' = made \cup {<<"poll", form[c].poll, clock>>} /\ clock' = clock + 1
    /\ UNCHANGED <<users, form, account, codes, signed, handed, crashes>>

PollNotReady(c) == Is(c, "poll") /\ form[c].poll \notin DOMAIN loginPolls /\ Deny(c, "new")

PollExpired(c) ==
    LET k == form[c].poll
    IN  /\ Is(c, "poll") /\ k \in DOMAIN loginPolls /\ loginPolls[k].expires < clock /\ GoTo(c, "new", "refused")
        /\ loginPolls' = Restrict(loginPolls, DOMAIN loginPolls \ {k})
        /\ UNCHANGED <<users, form, account, codes, clock, signed, handed, made, crashes>>

\* The token is given once, whether the answer arrives or not.
PollReady(c) ==
    LET k == form[c].poll
    IN  /\ Is(c, "poll") /\ k \in DOMAIN loginPolls /\ loginPolls[k].expires >= clock /\ GoTo(c, "new", "done")
        /\ loginPolls' = Restrict(loginPolls, DOMAIN loginPolls \ {k})
        /\ signed' \in {signed, signed \cup {<<c, loginPolls[k].user>>}}
        /\ handed' = handed \cup {<<"poll", k, loginPolls[k].expires - PollTTL>>}
        /\ UNCHANGED <<users, form, account, codes, clock, made, crashes>>

TimePasses ==
    /\ clock < MaxNow /\ clock' = clock + 1
    /\ UNCHANGED <<users, form, pos, account, codes, loginPolls, signed, handed, made, crashes>>

LoseStores ==
    /\ crashes < MaxCrashes /\ crashes' = crashes + 1
    /\ codes' = Empty /\ loginPolls' = Empty
    /\ pos' = [c \in SignIns |-> IF pos[c] \in {"mail", "save"} THEN "refused" ELSE pos[c]]
    /\ UNCHANGED <<users, form, account, clock, signed, handed, made>>

AccountsNext ==
    \/ \E c \in SignIns :
        \/ MailTaken(c) \/ MailFree(c) \/ Login(c) \/ LoginFails(c)
        \/ FindGoogle(c) \/ NoGoogle(c) \/ FindMail(c) \/ SaveUser(c) \/ SaveFails(c)
        \/ SteamInvalid(c) \/ FindSteam(c) \/ MakeCode(c) \/ Exchange(c) \/ CodeRefused(c)
        \/ Complete(c) \/ PollNotReady(c) \/ PollExpired(c) \/ PollReady(c)
    \/ TimePasses \/ LoseStores

AccountsSpec == AccountsInit /\ [][AccountsNext]_accountVars

-----------------------------------------------------------------------------
\* The e-mail address a request is about, if any, and the Steam account its code was made for.
MailAsked(c)  == IF Is(c, "google") THEN MailOf[form[c].google] ELSE form[c].email
SteamAsked(c) == form[form[c].code].steam

\* Two requests that prove to be one person's.
Same(c, d) == \/ /\ {form[c].kind, form[d].kind} \subseteq {"register", "login", "google"}
                 /\ MailAsked(c) = MailAsked(d)
                 /\ MailAsked(c) = Nothing => form[c].google = form[d].google
              \/ Is(c, "exchange") /\ Is(d, "exchange") /\ SteamAsked(c) = SteamAsked(d)

\* The tickets made after one.
Later(t) == {u \in made : u[1] = t[1] /\ u[3] > t[3]}
Held(t)  == IF t[1] = "code" THEN t[2] \in DOMAIN codes /\ codes[t[2]].expires = t[3] + CodeTTL
                             ELSE t[2] \in DOMAIN loginPolls /\ loginPolls[t[2]].expires = t[3] + PollTTL
TTL(t) == IF t[1] = "code" THEN CodeTTL ELSE PollTTL

\* Who signs in again, in whichever way with one e-mail address, with one Google account
\* or with one Steam account, gets the token of one and the same user, however the first
\* sign-ins overlap.  A code or a completed poll is handed out once, whatever restarts; and
\* it is there until then, unless it has expired, or is made anew, or StoreMax newer ones
\* have come: neither a full store nor a second completion loses another one's token.  That
\* is claimed of a backend that does not restart, which loses both stores.
LoginsSound ==
    /\ AccountsTypeOK
    /\ \A s, t \in signed : Same(s[1], t[1]) => s[2] = t[2]
    /\ \A t \in made : ~(t \in handed /\ Held(t))
    /\ crashes = 0 => \A t \in made \ handed :
          \/ Held(t) \/ clock > t[3] + TTL(t) \/ Cardinality(Later(t)) >= StoreMax
          \/ \E u \in Later(t) : u[2] = t[2]
=============================================================================
