----------------------------- MODULE MergeProofs -----------------------------
(***************************************************************************)
(* The merge of web users and players keeps every identity, for any number *)
(* of identities, Steam ids and overlapping transactions.                  *)
(*                                                                         *)
(* A trigger writes at COMMIT what it has read before, so the invariant    *)
(* (MergeInv) says of every transaction in flight that what it has read is *)
(* still true (ReadsFit), although others commit in between.  That holds   *)
(* because a row is written to by transactions of its own identities, one  *)
(* at a time each, but for links: two transactions may link one player.    *)
(* Whom such a link concerns is contested from then on, and a row of a     *)
(* contested identity has no other than contested ones (Tainted, Taints),  *)
(* so what goes wrong among them reaches nobody else.                      *)
(*                                                                         *)
(* The number of a row that went is not given again, hence a transaction   *)
(* that has read it writes to nothing (FreshIsNew).  A Steam id in users   *)
(* is of an identity of its row (SteamOwned), hence the unique column      *)
(* refuses a write only where two identities, not linked, share one.       *)
(***************************************************************************)
EXTENDS UserMerge, FiniteSetTheorems, TLAPS

-----------------------------------------------------------------------------
(* The invariant.                                                          *)

\* What a transaction carries fits the rows it was made of, which only it writes to.
FlightFits(t) ==
    /\ t.kind = "web" =>
          /\ t.row.link = Null => t.seen = Null /\ t.other = NoRef
          /\ t.row.link # Null =>
                t.row.link \in DOMAIN profiles /\ t.seen \in {Null, profiles[t.row.link].steam}
          /\ t.id \in DOMAIN webUsers =>
                /\ webUsers[t.id].steam # Null => t.row.steam = webUsers[t.id].steam
                /\ webUsers[t.id].link # Null => t.row.link # Null
          /\ Unique(Set(webUsers, t.id, t.row), "steam")
    /\ t.kind = "player" =>
          /\ t.id \in DOMAIN profiles => profiles[t.id].steam = Null /\ t.row.steam # Null
          /\ Unique(Set(profiles, t.id, t.row), "steam")
Apart(t, u) ==
    t # Quiet /\ t.kind = u.kind => t.id # u.id /\ (t.row.steam = Null \/ t.row.steam # u.row.steam)
FlightsFit ==
    /\ running = FALSE \/ schema = "merged" => \A x \in Writers : writing[x] = Quiet
    /\ \A x \in Writers : FlightFits(writing[x])
    /\ \A x, y \in Writers : x # y => Apart(writing[x], writing[y])

\* The old tables: links lead to players, no Steam id twice in a table.
LegacyFits ==
    /\ \A w \in DOMAIN webUsers : webUsers[w].link \in DOMAIN profiles \cup {Null}
    /\ Unique(webUsers, "steam") /\ Unique(profiles, "steam")

\* What the schema says of the rest.
SchemaFits ==
    /\ schema = "legacy" => merged = NoRows /\ contested = {}
    /\ schema # "legacy" => verdict = "none"
    /\ verdict \in {"links", "ok"} => \A p \in ProfileIds : ~(Cardinality(Linkers(p)) > 1)
    /\ verdict = "ok" =>
          \A w \in DOMAIN webUsers : LET sid == SteamOf(webUsers[w].link) IN
                Null \in {sid, webUsers[w].steam} \/ sid = webUsers[w].steam
    /\ schema \in {"legacy", "mirrored"} =>
          /\ \A p \in ProfileIds : resultUser[p] \in {Absent, NoRef}
          /\ \A w \in WebIds : lobbyUser[w] \in {Absent, NoRef}

Tainted(i) == merged[i].web \in contested \/ merged[i].player \in contested

\* The rows are of identities; one has at most one row, and whom a contested link
\* concerns is told apart from everyone else.
RowsFit ==
    /\ IsFiniteSet(DOMAIN merged)
    /\ \A i \in DOMAIN merged : /\ merged[i].web \in DOMAIN webUsers \cup {Null}
                                /\ merged[i].player \in DOMAIN profiles \cup {Null}
    /\ Unique(merged, "web") /\ Unique(merged, "player") /\ Unique(merged, "steam")
    /\ contested \subseteq DOMAIN webUsers \cup DOMAIN profiles
    /\ \A w \in DOMAIN webUsers : webUsers[w].link # Null =>
          (w \in contested <=> webUsers[w].link \in contested)
    /\ \A p \in ProfileIds \ contested : \A v, w \in Linkers(p) : v = w

\* A row's Steam id is of one of its own identities, or among the contested.
SteamOwned ==
    \A i \in DOMAIN merged : merged[i].steam # Null =>
        \/ \E w \in DOMAIN webUsers : /\ webUsers[w].steam = merged[i].steam
                                      /\ merged[i].web = w \/ (Tainted(i) /\ w \in contested)
        \/ \E p \in DOMAIN profiles : /\ profiles[p].steam = merged[i].steam
                                      /\ merged[i].player = p \/ (Tainted(i) /\ p \in contested)

\* What a trigger has read: the rows of its identities, while nobody contests them;
\* otherwise at least rows of none but contested ones.
ReadFits(t) ==
    /\ t.kind = "web" =>
          /\ t.id \notin contested => t.mine = UserOf("web", t.id)
          /\ t.id \in contested /\ t.mine \in DOMAIN merged => Tainted(t.mine)
          /\ t.row.link \notin contested \cup {Null} =>
                 t.other = ByPlayer(t.row.link) \/ Linkers(t.row.link) \ {t.id} # {}
          /\ t.other \in DOMAIN merged => merged[t.other].player = t.row.link \/ Tainted(t.other)
    /\ t.kind = "player" =>
          /\ t.id \notin contested /\ t.mine # NoRef =>
                 \E w \in Linkers(t.id) : t.mine = UserOf("web", w)
          /\ t.id \in contested /\ t.mine \in DOMAIN merged => Tainted(t.mine)
ReadsFit == \A x \in Writers : ReadFits(writing[x])

MirrorFits == RowsFit /\ SteamOwned /\ Mirrored /\ ReadsFit

MergeInv ==
    /\ MergeTypeOK /\ FlightsFit /\ LegacyFits /\ SchemaFits /\ Referred
    /\ Mirroring => MirrorFits

-----------------------------------------------------------------------------
(* Rows and the lookup of one.                                             *)

\* A lookup finds a row that has the value, or none has it.
LEMMA LookUpFinds ==
    ASSUME NEW rows, NEW field, NEW x
    PROVE  \/ LookUp(rows, field, x) = NoRef /\ \A i \in DOMAIN rows : rows[i][field] # x
           \/ LookUp(rows, field, x) \in DOMAIN rows /\ rows[LookUp(rows, field, x)][field] = x
<1> DEFINE those == {i \in DOMAIN rows : rows[i][field] = x}
<1>1. CASE those = {}
    <2>1. LookUp(rows, field, x) = NoRef
        BY <1>1 DEF LookUp
    <2> QED BY <1>1, <2>1
<1>2. CASE those # {}
    <2>1. (CHOOSE i \in those : TRUE) \in those
        BY <1>2
    <2>2. LookUp(rows, field, x) = CHOOSE i \in those : TRUE
        BY <1>2 DEF LookUp
    <2>3. LookUp(rows, field, x) \in those
        BY <2>1, <2>2
    <2> QED BY <2>3
<1> QED BY <1>1, <1>2

\* Where the column is unique it finds the row.
LEMMA LookUpSole ==
    ASSUME NEW rows, NEW field, NEW x, x # Null, Unique(rows, field), NoRef \notin DOMAIN rows
    PROVE  /\ \A i \in DOMAIN rows : rows[i][field] = x => LookUp(rows, field, x) = i
           /\ LookUp(rows, field, x) \in DOMAIN rows =>
                  rows[LookUp(rows, field, x)][field] = x
           /\ LookUp(rows, field, x) \notin DOMAIN rows => LookUp(rows, field, x) = NoRef
BY LookUpFinds DEF Unique

\* The three columns, by their names.
LEMMA Columns ==
    /\ \A f : Unique(f, "web") <=> \A i, j \in DOMAIN f : f[i].web = f[j].web /\ f[i].web # Null => i = j
    /\ \A f : Unique(f, "player") <=>
           \A i, j \in DOMAIN f : f[i].player = f[j].player /\ f[i].player # Null => i = j
    /\ \A f : Unique(f, "steam") <=>
           \A i, j \in DOMAIN f : f[i].steam = f[j].steam /\ f[i].steam # Null => i = j
BY DEF Unique

\* A lookup by the web user.
LEMMA WebLookup ==
    ASSUME NEW rows, Unique(rows, "web"), NoRef \notin DOMAIN rows, NEW w, w # Null
    PROVE  /\ \A i \in DOMAIN rows : rows[i].web = w => LookUp(rows, "web", w) = i
           /\ \/ LookUp(rows, "web", w) = NoRef /\ \A i \in DOMAIN rows : rows[i].web # w
              \/ LookUp(rows, "web", w) \in DOMAIN rows /\ rows[LookUp(rows, "web", w)].web = w
BY LookUpFinds, LookUpSole

\* And by the player.
LEMMA PlayerLookup ==
    ASSUME NEW rows, Unique(rows, "player"), NoRef \notin DOMAIN rows, NEW p, p # Null
    PROVE  /\ \A i \in DOMAIN rows : rows[i].player = p => LookUp(rows, "player", p) = i
           /\ \/ LookUp(rows, "player", p) = NoRef /\ \A i \in DOMAIN rows : rows[i].player # p
              \/ LookUp(rows, "player", p) \in DOMAIN rows /\ rows[LookUp(rows, "player", p)].player = p
BY LookUpFinds, LookUpSole

\* The sequence gives a number that no row has and no transaction has read.
LEMMA FreshIsNew ==
    ASSUME MergeAssumption, IsFiniteSet(DOMAIN merged)
    PROVE  /\ Fresh \in UserNumbers /\ Fresh \notin DOMAIN merged
           /\ \A x \in Writers : writing[x].kind = "web" => Fresh \notin {writing[x].mine, writing[x].other}
           /\ \A x \in Writers : writing[x].kind = "player" => Fresh # writing[x].mine
<1> DEFINE readOf(x) == Readings(writing[x])
           all == {readOf(x) : x \in Writers}
           f == [x \in Writers |-> readOf(x)]
<1>1. IsFiniteSet(all) /\ \A T \in all : IsFiniteSet(T)
    <2>1. f \in Surjection(Writers, all)
        BY DEF Surjection
    <2>2. IsFiniteSet(all)
        BY <2>1, FS_Surjection, MergeAssumption DEF MergeAssumption
    <2>3. ASSUME NEW a, NEW b PROVE IsFiniteSet({a, b})
        <3>1. IsFiniteSet({a}) /\ IsFiniteSet({b})
            BY FS_Singleton
        <3>2. {a, b} = {a} \cup {b}
            OBVIOUS
        <3>3. IsFiniteSet({a} \cup {b})
            BY <3>1, FS_Union
        <3> HIDE DEF readOf, all, f
        <3> QED BY <3>2, <3>3
    <2>4. ASSUME NEW x \in Writers PROVE IsFiniteSet(readOf(x))
        BY <2>3, FS_Singleton, FS_EmptySet DEF Readings
    <2> QED BY <2>2, <2>4
<1>2. NumbersTaken = DOMAIN merged \cup UNION all
    BY DEF NumbersTaken
<1>3. IsFiniteSet(NumbersTaken)
    BY <1>1, <1>2, FS_UNION, FS_Union
<1> DEFINE c == Cardinality(NumbersTaken)
<1>4. c \in Nat
    BY <1>3, FS_CardinalityType
<1>5. \E i \in 1..(c + 1) : i \notin NumbersTaken
    <2>1. Cardinality(1..(c + 1)) = c + 1
        BY <1>4, FS_Interval
    <2>2. SUFFICES ASSUME 1..(c + 1) \subseteq NumbersTaken PROVE FALSE
        OBVIOUS
    <2>3. Cardinality(1..(c + 1)) =< c
        BY <1>3, <2>2, FS_Subset
    <2> QED BY <1>4, <2>1, <2>3
<1>6. Fresh \in 1..(c + 1) /\ Fresh \notin NumbersTaken
    BY <1>5 DEF Fresh
<1>7. \A x \in Writers : readOf(x) \subseteq NumbersTaken
    BY <1>2
<1>8. Fresh \in UserNumbers /\ Fresh \notin DOMAIN merged
    BY <1>2, <1>4, <1>6 DEF UserNumbers
<1>9. ASSUME NEW x \in Writers, writing[x].kind = "web" PROVE Fresh \notin {writing[x].mine, writing[x].other}
    <2>1. readOf(x) = {writing[x].mine, writing[x].other}
        BY <1>9 DEF Readings
    <2> QED BY <1>6, <1>7, <2>1
<1>10. ASSUME NEW x \in Writers, writing[x].kind = "player" PROVE Fresh # writing[x].mine
    <2>1. readOf(x) = {writing[x].mine}
        BY <1>10 DEF Readings
    <2> QED BY <1>6, <1>7, <2>1
<1> QED BY <1>8, <1>9, <1>10

-----------------------------------------------------------------------------
(* Steps that leave the rows alone.                                        *)

\* It holds before anything is written.
LEMMA MergeInitInv == ASSUME MergeAssumption, MergeInit PROVE MergeInv
<1>1. MergeTypeOK
    BY DEF MergeInit, MergeTypeOK, Partial, NoRows, Steam
<1>2. FlightsFit
    BY DEF MergeInit, FlightsFit, FlightFits, Apart, Quiet
<1>3. LegacyFits /\ SchemaFits /\ Referred
    BY DEF MergeInit, LegacyFits, SchemaFits, Referred, NoRows, Unique, NoRef, Gone, Absent
<1>4. ~Mirroring
    BY DEF MergeInit, Mirroring
<1> QED BY <1>1, <1>2, <1>3, <1>4 DEF MergeInv

\* A step that leaves the tables and transactions alone leaves the mirror as it was ...
LEMMA MirrorStays ==
    ASSUME MirrorFits, UNCHANGED <<legacyRows, merged, writing, troubles>>
    PROVE  MirrorFits'
<1> USE DEF legacyRows, troubles
<1>1. RowsFit'
    BY DEF MirrorFits, RowsFit, Linkers
<1>2. SteamOwned'
    BY DEF MirrorFits, SteamOwned, Tainted
<1>3. Mirrored'
    BY DEF MirrorFits, Mirrored, Linkers, UserOf, SteamOf
<1>4. ReadsFit'
    BY DEF MirrorFits, ReadsFit, ReadFits, Tainted, Linkers, UserOf, ByPlayer
<1> QED BY <1>1, <1>2, <1>3, <1>4 DEF MirrorFits

\* ... and what is in flight ...
LEMMA FlightsStay ==
    ASSUME FlightsFit, UNCHANGED <<legacyRows, writing>>,
           running' = FALSE \/ schema' = "merged" => \A x \in Writers : writing[x] = Quiet
    PROVE  FlightsFit'
BY DEF FlightsFit, FlightFits, legacyRows

\* ... and the old tables.
LEMMA LegacyStays ==
    ASSUME LegacyFits, UNCHANGED legacyRows
    PROVE  LegacyFits'
BY DEF LegacyFits, legacyRows

\* A lookup gives a number of the sequence, or none.
LEMMA UserOfType ==
    ASSUME MergeTypeOK
    PROVE  \A field, x : /\ UserOf(field, x) \in UserNumbers \cup {NoRef}
                         /\ UserOf(field, x) # NoRef =>
                                UserOf(field, x) \in DOMAIN merged /\ merged[UserOf(field, x)][field] = x
BY LookUpFinds DEF UserOf, MergeTypeOK, Partial

\* No row has the number that means none.
LEMMA NoRefIsNone ==
    ASSUME MergeTypeOK PROVE NoRef \notin DOMAIN merged
BY DEF MergeTypeOK, Partial, UserNumbers, NoRef

\* Nor has a user any of the marks of a reference that leads to no row.
LEMMA NumbersAreNone ==
    ASSUME MergeTypeOK
    PROVE  /\ UserNumbers \cap {Absent, Gone, NoRef} = {} /\ Gone \notin {Absent, NoRef}
           /\ \A i \in DOMAIN merged : i \notin {Absent, Gone, NoRef}
BY DEF MergeTypeOK, Partial, UserNumbers, NoRef, Gone, Absent

\* A result refers to the row of its player.
LEMMA RaceInv ==
    ASSUME MergeAssumption, MergeInv, NEW p \in ProfileIds, Race(p) PROVE MergeInv'
<1>1. MergeTypeOK'
    <2>1. resultUser' \in [ProfileIds -> UserNumbers \cup {Absent, NoRef}]
        BY UserOfType DEF MergeInv, Race, MergeTypeOK, ByPlayer
    <2> QED BY <2>1 DEF MergeInv, Race, MergeTypeOK, legacyRows, troubles
<1>2. FlightsFit' /\ LegacyFits'
    BY FlightsStay, LegacyStays DEF MergeInv, Race, FlightsFit
<1>3. SchemaFits'
    BY DEF MergeInv, Race, SchemaFits, MergeTypeOK, legacyRows, troubles, Linkers, SteamOf
<1>4. Referred'
    BY UserOfType DEF MergeInv, Race, Referred, MergeTypeOK, legacyRows, troubles, ByPlayer
<1>5. Mirroring' => MirrorFits'
    BY MirrorStays DEF MergeInv, Race, Mirroring
<1> QED BY <1>1, <1>2, <1>3, <1>4, <1>5 DEF MergeInv

\* A lobby row refers to the row of its web user.
LEMMA JoinInv ==
    ASSUME MergeAssumption, MergeInv, NEW w \in WebIds, Join(w) PROVE MergeInv'
<1>1. MergeTypeOK'
    <2>1. lobbyUser' \in [WebIds -> UserNumbers \cup {Absent, Gone, NoRef}]
        BY UserOfType DEF MergeInv, Join, MergeTypeOK
    <2> QED BY <2>1 DEF MergeInv, Join, MergeTypeOK, legacyRows, troubles
<1>2. FlightsFit' /\ LegacyFits'
    BY FlightsStay, LegacyStays DEF MergeInv, Join, FlightsFit
<1>3. SchemaFits'
    BY DEF MergeInv, Join, SchemaFits, MergeTypeOK, legacyRows, troubles, Linkers, SteamOf
<1>4. Referred'
    BY UserOfType, NumbersAreNone DEF MergeInv, Join, Referred, MergeTypeOK, legacyRows, troubles
<1>5. Mirroring' => MirrorFits'
    BY MirrorStays DEF MergeInv, Join, Mirroring
<1> QED BY <1>1, <1>2, <1>3, <1>4, <1>5 DEF MergeInv

\* What the analysis allows is as its two blockers say.
LEMMA AnalyseInv ==
    ASSUME MergeAssumption, MergeInv, AnalyseLinks \/ AnalyseSteam PROVE MergeInv'
<1> USE DEF legacyRows, troubles, keys
<1>1. /\ UNCHANGED <<schema, running, legacyRows, merged, keys, writing, troubles>>
      /\ schema = "legacy"
    BY DEF MergeInv, AnalyseLinks, AnalyseSteam, SchemaFits
<1>2. MergeTypeOK'
    <2>1. verdict' \in {"none", "links", "late", "ok", "stale", "blocked"}
        BY DEF AnalyseLinks, AnalyseSteam
    <2> QED BY <1>1, <2>1 DEF MergeInv, MergeTypeOK
<1>3. FlightsFit' /\ LegacyFits'
    BY <1>1, FlightsStay, LegacyStays DEF MergeInv, FlightsFit
<1>4. SchemaFits'
    <2>1. verdict' \in {"links", "ok"} => \A p \in ProfileIds : ~(Cardinality(Linkers(p)) > 1)
        BY DEF MergeInv, AnalyseLinks, AnalyseSteam, SchemaFits
    <2>2. verdict' = "ok" =>
              \A w \in DOMAIN webUsers : LET sid == SteamOf(webUsers[w].link) IN
                  Null \in {sid, webUsers[w].steam} \/ sid = webUsers[w].steam
        BY DEF AnalyseLinks, AnalyseSteam
    <2> QED BY <1>1, <2>1, <2>2 DEF MergeInv, SchemaFits, Linkers, SteamOf
<1>5. Referred' /\ ~Mirroring'
    BY <1>1 DEF MergeInv, Referred, Mirroring
<1> QED BY <1>2, <1>3, <1>4, <1>5 DEF MergeInv

\* The application stops with nothing in flight.
LEMMA StopInv ==
    ASSUME MergeAssumption, MergeInv, Stop \/ Start PROVE MergeInv'
<1>1. MergeTypeOK'
    BY DEF MergeInv, Stop, Start, MergeTypeOK, legacyRows, troubles, keys
<1>2. FlightsFit' /\ LegacyFits'
    BY FlightsStay, LegacyStays DEF MergeInv, Stop, Start, FlightsFit
<1>3. SchemaFits'
    BY DEF MergeInv, Stop, Start, SchemaFits, legacyRows, troubles, keys, Linkers, SteamOf
<1>4. Referred'
    BY DEF MergeInv, Stop, Start, Referred, legacyRows, troubles, keys
<1>5. Mirroring' => MirrorFits'
    BY MirrorStays DEF MergeInv, Stop, Start, Mirroring
<1> QED BY <1>1, <1>2, <1>3, <1>4, <1>5 DEF MergeInv

\* 0015 looks up what 0013 and the triggers have made.
LEMMA KeyTablesInv ==
    ASSUME MergeAssumption, MergeInv, KeyTables PROVE MergeInv'
<1>1. MergeTypeOK'
    <2>1. /\ resultUser' \in [ProfileIds -> UserNumbers \cup {Absent, NoRef}]
          /\ lobbyUser' \in [WebIds -> UserNumbers \cup {Absent, Gone, NoRef}]
        BY UserOfType DEF MergeInv, KeyTables, ByPlayer
    <2> QED BY <2>1 DEF MergeInv, KeyTables, MergeTypeOK, legacyRows, troubles
<1>2. FlightsFit' /\ LegacyFits'
    BY FlightsStay, LegacyStays DEF MergeInv, KeyTables, FlightsFit
<1>3. SchemaFits'
    BY DEF MergeInv, KeyTables, SchemaFits
<1>4. Referred'
    BY UserOfType, NumbersAreNone DEF MergeInv, KeyTables, Referred, MergeTypeOK, troubles, ByPlayer
<1>5. Mirroring' => MirrorFits'
    BY MirrorStays DEF MergeInv, KeyTables, Mirroring
<1> QED BY <1>1, <1>2, <1>3, <1>4, <1>5 DEF MergeInv

\* Dropping the old tables leaves what refers to users as it is.
LEMMA DropLegacyInv ==
    ASSUME MergeAssumption, MergeInv, DropLegacy PROVE MergeInv'
<1>1. MergeTypeOK'
    BY DEF MergeInv, DropLegacy, MergeTypeOK, legacyRows, troubles, keys
<1>2. FlightsFit' /\ LegacyFits'
    <2>1. \A x \in Writers : writing[x] = Quiet
        BY Zenon DEF MergeInv, DropLegacy, FlightsFit, MergeTypeOK
    <2> QED BY <2>1, FlightsStay, LegacyStays DEF MergeInv, DropLegacy
<1>3. SchemaFits' /\ Referred' /\ ~Mirroring'
    BY DEF MergeInv, DropLegacy, SchemaFits, Referred, Mirroring, keys, troubles
<1> QED BY <1>1, <1>2, <1>3 DEF MergeInv

\* A downgrade leaves no reference behind to what it drops.
LEMMA DowngradeInv ==
    ASSUME MergeAssumption, MergeInv, Downgrade PROVE MergeInv'
<1>1. MergeTypeOK'
    <2>1. Partial(merged', UserNumbers, UserRow)
        <3>1. Partial(NoRows, UserNumbers, UserRow)
            BY DEF Partial, NoRows
        <3> QED BY <3>1 DEF MergeInv, Downgrade, MergeTypeOK
    <2>2. /\ resultUser' \in [ProfileIds -> UserNumbers \cup {Absent, NoRef}]
          /\ lobbyUser' \in [WebIds -> UserNumbers \cup {Absent, Gone, NoRef}]
        BY DEF Downgrade
    <2> QED BY <2>1, <2>2 DEF MergeInv, Downgrade, MergeTypeOK, legacyRows, troubles
<1>2. FlightsFit' /\ LegacyFits'
    <2>1. \A x \in Writers : writing[x] = Quiet
        BY Zenon DEF MergeInv, Downgrade, FlightsFit, MergeTypeOK
    <2> QED BY <2>1, FlightsStay, LegacyStays DEF MergeInv, Downgrade
<1>3. SchemaFits' /\ Referred'
    BY DEF MergeInv, Downgrade, SchemaFits, Referred, NoRef, Gone, Absent
<1>4. Mirroring' => MirrorFits'
    BY MirrorStays DEF MergeInv, Downgrade, Mirroring
<1> QED BY <1>1, <1>2, <1>3, <1>4 DEF MergeInv

-----------------------------------------------------------------------------
(* The application's statements.                                           *)

\* What a transaction holds, by its kind.
LEMMA Transactions ==
    ASSUME MergeTypeOK, NEW x \in Writers
    PROVE  LET t == writing[x] IN
           \/ t = Quiet /\ t.kind = "none"
           \/ /\ t.kind = "web" /\ t # Quiet /\ t.id \in WebIds
              /\ t.row \in WebRow /\ t.row.link \in ProfileIds \cup {Null} /\ t.row.steam \in Steam
              /\ t.seen \in Steam /\ t.mine \in UserNumbers \cup {NoRef} /\ t.other \in UserNumbers \cup {NoRef}
           \/ /\ t.kind = "player" /\ t # Quiet /\ t.id \in ProfileIds
              /\ t.row \in Profile /\ t.row.steam \in Steam /\ t.mine \in UserNumbers \cup {NoRef}
<1>1. writing[x] \in WebTx \cup PlayerTx \cup {Quiet}
    BY DEF MergeTypeOK
<1>2. CASE writing[x] \in WebTx
    BY <1>2 DEF WebTx, WebRow, Quiet
<1>3. CASE writing[x] \in PlayerTx
    BY <1>3 DEF PlayerTx, Profile, Quiet
<1>4. CASE writing[x] = Quiet
    BY <1>4 DEF Quiet
<1> QED BY <1>1, <1>2, <1>3, <1>4

\* The rows of the old tables.
LEMMA LegacyRows ==
    ASSUME MergeTypeOK
    PROVE  /\ \A w \in DOMAIN webUsers : /\ w \in WebIds /\ webUsers[w].link \in ProfileIds \cup {Null}
                                         /\ webUsers[w].steam \in Steam
           /\ \A p \in DOMAIN profiles : p \in ProfileIds /\ profiles[p].steam \in Steam
                                         /\ profiles[p] = [steam |-> profiles[p].steam]
BY DEF MergeTypeOK, Partial, WebRow, Profile

\* A statement on web_users reads the rows of the identities it names.
LEMMA WriteWebInv ==
    ASSUME MergeAssumption, MergeInv, NEW x \in Writers, WriteWeb(x) PROVE MergeInv'
<1>1. PICK w \in WebIds, row \in WebRow :
          /\ Idle("web", w)
          /\ row.link # Null => row.link \in DOMAIN profiles
          /\ w \in DOMAIN webUsers =>
                 /\ webUsers[w].steam # Null => row.steam = webUsers[w].steam
                 /\ webUsers[w].link # Null => row.link # Null
          /\ Unique(Set(webUsers, w, row), "steam")
          /\ \A y \in Writers : writing[y].kind = "web" =>
                 row.steam = Null \/ writing[y].row.steam # row.steam
          /\ writing' = [writing EXCEPT ![x] =
                 [kind |-> "web", id |-> w, row |-> row, seen |-> SteamOf(row.link),
                  mine |-> UserOf("web", w), other |-> ByPlayer(row.link)]]
    BY DEF WriteWeb
<1> DEFINE t == [kind |-> "web", id |-> w, row |-> row, seen |-> SteamOf(row.link),
                 mine |-> UserOf("web", w), other |-> ByPlayer(row.link)]
<1>2. /\ MergeTypeOK /\ FlightsFit /\ writing[x] = Quiet /\ running /\ schema # "merged"
      /\ UNCHANGED <<schema, running, verdict, legacyRows, merged, keys, troubles>>
      /\ writing' = [writing EXCEPT ![x] = t]
    BY <1>1 DEF MergeInv, WriteWeb
<1>3. row.link \in ProfileIds \cup {Null} /\ row.steam \in Steam
    BY DEF WebRow
<1>4. /\ t.seen \in Steam /\ t.mine \in UserNumbers \cup {NoRef} /\ t.other \in UserNumbers \cup {NoRef}
      /\ t.kind = "web" /\ t.id = w /\ t.row = row /\ t.mine = UserOf("web", w)
      /\ row.link = Null => t.seen = Null /\ t.other = NoRef
      /\ row.link # Null => t.seen = profiles[row.link].steam /\ t.other = UserOf("player", row.link)
    BY <1>1, <1>2, <1>3, UserOfType, LegacyRows DEF SteamOf, ByPlayer, Steam
<1>5. t \in WebTx
    BY <1>4, Zenon DEF WebTx
<1>6. writing' \in [Writers -> WebTx \cup PlayerTx \cup {Quiet}] /\ writing'[x] = t
      /\ \A y \in Writers \ {x} : writing'[y] = writing[y]
    BY <1>2, <1>5 DEF MergeTypeOK
<1> HIDE DEF t
<1>7. MergeTypeOK'
    BY <1>2, <1>6 DEF MergeTypeOK, legacyRows, keys, troubles
<1>8. FlightsFit'
    <2>1. running' # FALSE /\ schema' # "merged"
        BY <1>2 DEF MergeTypeOK
    <2>2. ASSUME NEW y \in Writers PROVE FlightFits(writing'[y])
        <3>1. CASE y = x
            BY <1>1, <1>4, <1>6, <3>1 DEF FlightFits
        <3>2. CASE y # x
            BY <1>2, <1>6, <3>2 DEF FlightsFit
        <3> QED BY <3>1, <3>2
    <2>3. ASSUME NEW y \in Writers, NEW z \in Writers, y # z PROVE Apart(writing'[y], writing'[z])
        BY <1>1, <1>2, <1>4, <1>6, <2>3 DEF FlightsFit, Apart, Idle
    <2>4. webUsers' = webUsers /\ profiles' = profiles
        BY <1>2 DEF legacyRows
    <2> QED BY <2>1, <2>2, <2>3, <2>4 DEF FlightsFit, FlightFits
<1>9. LegacyFits' /\ SchemaFits' /\ Referred'
    BY <1>2 DEF MergeInv, LegacyFits, SchemaFits, Referred, legacyRows, keys, troubles, Linkers, SteamOf
<1>10. ASSUME Mirroring' PROVE MirrorFits'
    <2>1. MirrorFits /\ webUsers' = webUsers /\ profiles' = profiles /\ merged' = merged
          /\ contested' = contested /\ dirty' = dirty
        BY <1>2, <1>10 DEF MergeInv, Mirroring, legacyRows, troubles
    <2>2. RowsFit' /\ SteamOwned' /\ Mirrored'
        BY <2>1 DEF MirrorFits, RowsFit, SteamOwned, Mirrored, Tainted, Linkers, UserOf, SteamOf
    <2>3. ASSUME NEW y \in Writers PROVE ReadFits(writing'[y])
        <3>1. CASE y = x
            BY <1>2, <1>3, <1>4, <1>6, <3>1, UserOfType, NoRefIsNone DEF ReadFits, Tainted, ByPlayer
        <3>2. CASE y # x
            BY <1>6, <2>1, <3>2 DEF MirrorFits, ReadsFit
        <3> QED BY <3>1, <3>2
    <2>4. ReadsFit'
        BY <2>1, <2>3 DEF ReadsFit, ReadFits, Tainted, Linkers, UserOf, ByPlayer
    <2> QED BY <2>2, <2>4 DEF MirrorFits
<1> QED BY <1>7, <1>8, <1>9, <1>10 DEF MergeInv

\* A statement on players reads the row of a web user linked to the player.
LEMMA WritePlayerInv ==
    ASSUME MergeAssumption, MergeInv, NEW x \in Writers, WritePlayer(x) PROVE MergeInv'
<1>1. PICK p \in ProfileIds, row \in Profile :
          /\ Idle("player", p)
          /\ p \in DOMAIN profiles => row # profiles[p] /\ profiles[p].steam = Null
          /\ Unique(Set(profiles, p, row), "steam")
          /\ \A y \in Writers : writing[y].kind = "player" =>
                 row.steam = Null \/ writing[y].row.steam # row.steam
          /\ \E mine \in IF Linkers(p) = {} THEN {NoRef} ELSE {UserOf("web", w) : w \in Linkers(p)} :
                 writing' = [writing EXCEPT ![x] =
                     [kind |-> "player", id |-> p, row |-> row, mine |-> mine]]
    BY DEF WritePlayer
<1>2. PICK mine \in IF Linkers(p) = {} THEN {NoRef} ELSE {UserOf("web", w) : w \in Linkers(p)} :
          writing' = [writing EXCEPT ![x] = [kind |-> "player", id |-> p, row |-> row, mine |-> mine]]
    BY <1>1
<1> DEFINE t == [kind |-> "player", id |-> p, row |-> row, mine |-> mine]
<1>3. /\ MergeTypeOK /\ FlightsFit /\ writing[x] = Quiet /\ running /\ schema # "merged"
      /\ UNCHANGED <<schema, running, verdict, legacyRows, merged, keys, troubles>>
      /\ writing' = [writing EXCEPT ![x] = t]
    BY <1>2 DEF MergeInv, WritePlayer
<1>4. /\ t.kind = "player" /\ t.id = p /\ t.row = row /\ t.mine = mine
      /\ row.steam \in Steam /\ row = [steam |-> row.steam]
      /\ mine # NoRef => \E w \in Linkers(p) : mine = UserOf("web", w)
      /\ mine \in UserNumbers \cup {NoRef}
    BY <1>3, UserOfType DEF Profile
<1>5. t \in PlayerTx
    BY <1>4, Zenon DEF PlayerTx
<1>6. writing' \in [Writers -> WebTx \cup PlayerTx \cup {Quiet}] /\ writing'[x] = t
      /\ \A y \in Writers \ {x} : writing'[y] = writing[y]
    BY <1>3, <1>5 DEF MergeTypeOK
<1> HIDE DEF t
<1>7. MergeTypeOK'
    BY <1>3, <1>6 DEF MergeTypeOK, legacyRows, keys, troubles
<1>8. FlightsFit'
    <2>1. running' # FALSE /\ schema' # "merged"
        BY <1>3 DEF MergeTypeOK
    <2>2. ASSUME NEW y \in Writers PROVE FlightFits(writing'[y])
        <3>1. CASE y = x
            BY <1>1, <1>3, <1>4, <1>6, <3>1, LegacyRows DEF FlightFits
        <3>2. CASE y # x
            BY <1>3, <1>6, <3>2 DEF FlightsFit
        <3> QED BY <3>1, <3>2
    <2>3. ASSUME NEW y \in Writers, NEW z \in Writers, y # z PROVE Apart(writing'[y], writing'[z])
        BY <1>1, <1>3, <1>4, <1>6, <2>3 DEF FlightsFit, Apart, Idle
    <2>4. webUsers' = webUsers /\ profiles' = profiles
        BY <1>3 DEF legacyRows
    <2> QED BY <2>1, <2>2, <2>3, <2>4 DEF FlightsFit, FlightFits
<1>9. LegacyFits' /\ SchemaFits' /\ Referred'
    BY <1>3 DEF MergeInv, LegacyFits, SchemaFits, Referred, legacyRows, keys, troubles, Linkers, SteamOf
<1>10. ASSUME Mirroring' PROVE MirrorFits'
    <2>1. MirrorFits /\ webUsers' = webUsers /\ profiles' = profiles /\ merged' = merged
          /\ contested' = contested /\ dirty' = dirty
        BY <1>3, <1>10 DEF MergeInv, Mirroring, legacyRows, troubles
    <2>2. RowsFit' /\ SteamOwned' /\ Mirrored'
        BY <2>1 DEF MirrorFits, RowsFit, SteamOwned, Mirrored, Tainted, Linkers, UserOf, SteamOf
    <2>3. p \in contested /\ mine \in DOMAIN merged => Tainted(mine)
        <3>1. SUFFICES ASSUME p \in contested, mine \in DOMAIN merged PROVE Tainted(mine)
            OBVIOUS
        <3>2. PICK w \in Linkers(p) : mine = UserOf("web", w)
            BY <1>3, <1>4, <3>1, NoRefIsNone
        <3>3. merged[mine].web = w
            BY <1>3, <3>1, <3>2, UserOfType, NoRefIsNone
        <3>4. w \in DOMAIN webUsers /\ webUsers[w].link = p /\ p # Null
            BY <3>2 DEF Linkers, MergeAssumption
        <3>5. w \in contested
            BY <2>1, <3>1, <3>4 DEF MirrorFits, RowsFit
        <3> QED BY <3>3, <3>5 DEF Tainted
    <2>4. ASSUME NEW y \in Writers PROVE ReadFits(writing'[y])
        <3>1. CASE y = x
            BY <1>4, <1>6, <2>3, <3>1 DEF ReadFits
        <3>2. CASE y # x
            BY <1>6, <2>1, <3>2 DEF MirrorFits, ReadsFit
        <3> QED BY <3>1, <3>2
    <2>5. ReadsFit'
        BY <2>1, <2>4 DEF ReadsFit, ReadFits, Tainted, Linkers, UserOf, ByPlayer
    <2> QED BY <2>2, <2>5 DEF MirrorFits
<1> QED BY <1>7, <1>8, <1>9, <1>10 DEF MergeInv

-----------------------------------------------------------------------------
(* What the two triggers write.                                            *)

\* The web trigger writes to the rows it has read of, or to a new one, and leaves there a
\* row of its web user, with the player linked and a Steam id of the three it has seen.
LEMMA AfterWebRows ==
    ASSUME MergeAssumption, MergeTypeOK, IsFiniteSet(DOMAIN merged), NEW x \in Writers, writing[x].kind = "web"
    PROVE  LET t == writing[x]
               rows == AfterWeb(t)
           IN  /\ Partial(rows, UserNumbers, UserRow)
               /\ DOMAIN rows \subseteq DOMAIN merged \cup {Fresh}
               /\ \A i \in DOMAIN merged \ {t.mine, t.other} : i \in DOMAIN rows /\ rows[i] = merged[i]
               /\ \A i \in DOMAIN rows \cap {t.mine, t.other, Fresh} :
                     /\ rows[i].web = t.id
                     /\ \/ rows[i].player = t.row.link
                        \/ i \in DOMAIN merged /\ i = t.other /\ rows[i].player = merged[i].player
                     /\ \/ rows[i].steam \in {Null, t.seen, t.row.steam}
                        \/ i \in DOMAIN merged /\ rows[i].steam = merged[i].steam
<1> DEFINE t == writing[x]
           rows == AfterWeb(t)
           Good == /\ Partial(rows, UserNumbers, UserRow)
                   /\ DOMAIN rows \subseteq DOMAIN merged \cup {Fresh}
                   /\ \A i \in DOMAIN merged \ {t.mine, t.other} : i \in DOMAIN rows /\ rows[i] = merged[i]
                   /\ \A i \in DOMAIN rows \cap {t.mine, t.other, Fresh} :
                         /\ rows[i].web = t.id
                         /\ \/ rows[i].player = t.row.link
                            \/ i \in DOMAIN merged /\ i = t.other /\ rows[i].player = merged[i].player
                         /\ \/ rows[i].steam \in {Null, t.seen, t.row.steam}
                            \/ i \in DOMAIN merged /\ rows[i].steam = merged[i].steam
<1> SUFFICES Good
    OBVIOUS
<1>1. /\ t.id \in WebIds /\ t.row.link \in ProfileIds \cup {Null} /\ t.row.steam \in Steam
      /\ t.seen \in Steam /\ t.mine \in UserNumbers \cup {NoRef} /\ t.other \in UserNumbers \cup {NoRef}
    BY Transactions
<1>2. /\ Fresh \in UserNumbers /\ Fresh \notin DOMAIN merged /\ Fresh # t.mine /\ Fresh # t.other
    BY FreshIsNew
<1>3. /\ DOMAIN merged \subseteq UserNumbers /\ merged \in [DOMAIN merged -> UserRow] /\ NoRef \notin DOMAIN merged
      /\ NoRef # Fresh
    BY <1>2, NoRefIsNone DEF MergeTypeOK, Partial, UserNumbers, NoRef
<1>4. ASSUME NEW row, row.steam \in Steam
      PROVE  /\ Joined(row, t) \in UserRow
             /\ Joined(row, t).web = t.id /\ Joined(row, t).player = t.row.link
             /\ Joined(row, t).steam \in {Null, t.seen, t.row.steam, row.steam}
    BY <1>1, <1>4 DEF Joined, Coalesce, UserRow
<1>5. \A i \in DOMAIN merged : merged[i] \in UserRow /\ merged[i].steam \in Steam
                               /\ merged[i].player \in ProfileIds \cup {Null}
    BY <1>3 DEF UserRow
<1> HIDE DEF t
<1>6. CASE t.mine # NoRef
    <2>1. rows = KeepOwn(t)
        BY <1>6 DEF AfterWeb
    <2>2. PICK rest : /\ rest = IF t.other \in {NoRef, t.mine} THEN merged ELSE Drop(merged, t.other)
                      /\ rows = IF t.mine \in DOMAIN rest THEN [rest EXCEPT ![t.mine] = Joined(@, t)] ELSE rest
        BY <2>1 DEF KeepOwn
    <2>3. /\ DOMAIN rest \subseteq DOMAIN merged /\ rest \in [DOMAIN rest -> UserRow]
          /\ \A i \in DOMAIN rest : rest[i] = merged[i]
          /\ \A i \in DOMAIN merged : i # t.other \/ i = t.mine => i \in DOMAIN rest
          /\ t.other \in DOMAIN rest => t.other = t.mine
        BY <1>3, <2>2 DEF Drop, Restrict
    <2>4. /\ DOMAIN rows = DOMAIN rest /\ rows \in [DOMAIN rest -> UserRow]
          /\ \A i \in DOMAIN rest \ {t.mine} : rows[i] = rest[i]
          /\ t.mine \in DOMAIN rest => rows[t.mine] = Joined(rest[t.mine], t)
        <3>1. CASE t.mine \in DOMAIN rest
            <4>1. Joined(rest[t.mine], t) \in UserRow
                BY <1>4, <1>5, <2>3, <3>1
            <4>2. rows = [rest EXCEPT ![t.mine] = Joined(rest[t.mine], t)]
                BY <2>2, <3>1
            <4> HIDE DEF rows
            <4> QED BY <2>3, <3>1, <4>1, <4>2
        <3>2. CASE t.mine \notin DOMAIN rest
            <4>1. rows = rest
                BY <2>2, <3>2
            <4> HIDE DEF rows
            <4> QED BY <2>3, <3>2, <4>1
        <3> QED BY <3>1, <3>2
    <2> HIDE DEF rows
    <2>5. Partial(rows, UserNumbers, UserRow)
        BY <1>3, <2>3, <2>4 DEF Partial
    <2>6. ASSUME NEW i \in DOMAIN rows \cap {t.mine, t.other, Fresh}
          PROVE  i = t.mine /\ rows[i] = Joined(merged[i], t) /\ i \in DOMAIN merged
        BY <1>2, <2>3, <2>4
    <2> QED BY <1>2, <1>4, <1>5, <2>3, <2>4, <2>5, <2>6
<1>7. CASE t.mine = NoRef /\ t.other # NoRef
    <2>1. rows = TakeIn(t)
        BY <1>7 DEF AfterWeb
    <2>2. CASE t.other \in DOMAIN merged
        <3> DEFINE new == [Joined(merged[t.other], t) EXCEPT !.player = merged[t.other].player]
        <3>1. rows = [merged EXCEPT ![t.other] = new]
            BY <2>1, <2>2 DEF TakeIn
        <3>2. /\ new \in UserRow /\ new.web = t.id /\ new.player = merged[t.other].player
              /\ new.steam \in {Null, t.seen, t.row.steam, merged[t.other].steam}
            <4>1. Joined(merged[t.other], t) \in UserRow /\ merged[t.other] \in UserRow
                BY <1>4, <1>5, <2>2
            <4>2. Joined(merged[t.other], t).web = t.id
                  /\ Joined(merged[t.other], t).steam \in {Null, t.seen, t.row.steam, merged[t.other].steam}
                BY <1>4, <1>5, <2>2
            <4> QED BY <4>1, <4>2 DEF UserRow
        <3> HIDE DEF rows, new
        <3>3. /\ DOMAIN rows = DOMAIN merged /\ rows \in [DOMAIN merged -> UserRow] /\ rows[t.other] = new
              /\ \A i \in DOMAIN merged \ {t.other} : rows[i] = merged[i]
            BY <1>3, <2>2, <3>1, <3>2
        <3>4. Partial(rows, UserNumbers, UserRow)
            BY <1>3, <3>3 DEF Partial
        <3>5. DOMAIN rows \cap {t.mine, t.other, Fresh} = {t.other}
            BY <1>2, <1>3, <1>7, <2>2, <3>3
        <3> QED BY <1>3, <2>2, <3>2, <3>3, <3>4, <3>5
    <2>3. CASE t.other \notin DOMAIN merged
        <3>1. rows = merged
            BY <2>1, <2>3 DEF TakeIn
        <3> HIDE DEF rows
        <3>2. Partial(rows, UserNumbers, UserRow)
            BY <1>3, <3>1 DEF Partial
        <3>3. DOMAIN rows \cap {t.mine, t.other, Fresh} = {}
            BY <1>2, <1>3, <1>7, <2>3, <3>1
        <3> QED BY <3>1, <3>2, <3>3
    <2> QED BY <2>2, <2>3
<1>8. CASE t.mine = NoRef /\ t.other = NoRef
    <2> DEFINE new == Joined([steam |-> Null], t)
    <2>1. rows = Set(merged, Fresh, new)
        BY <1>8 DEF AfterWeb, AddRow
    <2>2. /\ new \in UserRow /\ new.web = t.id /\ new.player = t.row.link
          /\ new.steam \in {Null, t.seen, t.row.steam}
        <3>1. [steam |-> Null].steam = Null /\ Null \in Steam
            BY DEF Steam
        <3> QED BY <1>4, <3>1
    <2> HIDE DEF rows, new
    <2>3. /\ DOMAIN rows = DOMAIN merged \cup {Fresh} /\ rows \in [DOMAIN rows -> UserRow] /\ rows[Fresh] = new
          /\ \A i \in DOMAIN merged : rows[i] = merged[i]
        BY <1>2, <1>3, <2>1, <2>2 DEF Set
    <2>4. Partial(rows, UserNumbers, UserRow)
        BY <1>2, <1>3, <2>3 DEF Partial
    <2>5. DOMAIN rows \cap {t.mine, t.other, Fresh} = {Fresh}
        BY <1>2, <1>3, <1>8, <2>3
    <2> QED BY <2>2, <2>3, <2>4, <2>5
<1> QED BY <1>6, <1>7, <1>8

Own(t) == IF t.mine # NoRef THEN t.mine ELSE UserOf("player", t.id)

\* The player trigger writes to one row, of the player from then on.
LEMMA AfterPlayerRows ==
    ASSUME MergeAssumption, MergeTypeOK, IsFiniteSet(DOMAIN merged), NEW x \in Writers, writing[x].kind = "player"
    PROVE  LET t == writing[x]
               rows == AfterPlayer(t)
           IN  /\ Partial(rows, UserNumbers, UserRow)
               /\ DOMAIN rows = DOMAIN merged \cup (IF Own(t) = NoRef THEN {Fresh} ELSE {})
               /\ \A i \in DOMAIN merged \ {Own(t)} : rows[i] = merged[i]
               /\ Own(t) = NoRef => rows[Fresh] = [web |-> Null, player |-> t.id, steam |-> t.row.steam]
               /\ Own(t) \in DOMAIN merged =>
                     /\ rows[Own(t)].web = merged[Own(t)].web /\ rows[Own(t)].player = t.id
                     /\ rows[Own(t)].steam = Coalesce(t.row.steam, merged[Own(t)].steam)
<1> DEFINE t == writing[x]
           own == Own(t)
           rows == AfterPlayer(t)
           Good == /\ Partial(rows, UserNumbers, UserRow)
                   /\ DOMAIN rows = DOMAIN merged \cup (IF own = NoRef THEN {Fresh} ELSE {})
                   /\ \A i \in DOMAIN merged \ {own} : rows[i] = merged[i]
                   /\ own = NoRef => rows[Fresh] = [web |-> Null, player |-> t.id, steam |-> t.row.steam]
                   /\ own \in DOMAIN merged =>
                         /\ rows[own].web = merged[own].web /\ rows[own].player = t.id
                         /\ rows[own].steam = Coalesce(t.row.steam, merged[own].steam)
<1> SUFFICES Good
    OBVIOUS
<1>1. t.id \in ProfileIds /\ t.row.steam \in Steam
    BY Transactions
<1>2. Fresh \in UserNumbers /\ Fresh \notin DOMAIN merged
    BY FreshIsNew
<1>3. /\ DOMAIN merged \subseteq UserNumbers /\ merged \in [DOMAIN merged -> UserRow] /\ NoRef \notin DOMAIN merged
    BY NoRefIsNone DEF MergeTypeOK, Partial
<1> HIDE DEF t
<1>4. rows = IF own = NoRef THEN Set(merged, Fresh, [web |-> Null, player |-> t.id, steam |-> t.row.steam])
             ELSE IF own \notin DOMAIN merged THEN merged
             ELSE [merged EXCEPT ![own] = [merged[own] EXCEPT !.player = t.id,
                                               !.steam = Coalesce(t.row.steam, merged[own].steam)]]
    BY DEF AfterPlayer, Own
<1> HIDE DEF own, rows
<1>5. CASE own = NoRef
    <2> DEFINE new == [web |-> Null, player |-> t.id, steam |-> t.row.steam]
    <2>1. new \in UserRow
        BY <1>1 DEF UserRow
    <2> HIDE DEF new
    <2>2. rows = Set(merged, Fresh, new)
        BY <1>4, <1>5 DEF new
    <2>3. /\ DOMAIN rows = DOMAIN merged \cup {Fresh} /\ rows \in [DOMAIN rows -> UserRow]
          /\ rows[Fresh] = new /\ \A i \in DOMAIN merged : rows[i] = merged[i]
        BY <1>2, <1>3, <2>1, <2>2 DEF Set
    <2>4. Partial(rows, UserNumbers, UserRow)
        BY <1>2, <1>3, <2>3 DEF Partial
    <2> QED BY <1>3, <1>5, <2>3, <2>4 DEF new
<1>6. CASE own # NoRef /\ own \notin DOMAIN merged
    BY <1>3, <1>4, <1>6 DEF Partial
<1>7. CASE own \in DOMAIN merged
    <2> DEFINE new == [merged[own] EXCEPT !.player = t.id, !.steam = Coalesce(t.row.steam, merged[own].steam)]
    <2>1. merged[own] \in UserRow
        BY <1>3, <1>7
    <2>2. Coalesce(t.row.steam, merged[own].steam) \in Steam
        BY <1>1, <2>1 DEF UserRow, Coalesce
    <2>3. /\ new \in UserRow /\ new.web = merged[own].web /\ new.player = t.id
          /\ new.steam = Coalesce(t.row.steam, merged[own].steam)
        BY <1>1, <2>1, <2>2 DEF UserRow
    <2> HIDE DEF new
    <2>4. rows = [merged EXCEPT ![own] = new]
        BY <1>3, <1>4, <1>7 DEF new
    <2>5. /\ DOMAIN rows = DOMAIN merged /\ rows \in [DOMAIN merged -> UserRow] /\ rows[own] = new
          /\ \A i \in DOMAIN merged \ {own} : rows[i] = merged[i]
        BY <1>3, <1>7, <2>3, <2>4
    <2>6. Partial(rows, UserNumbers, UserRow)
        BY <1>3, <2>5 DEF Partial
    <2> QED BY <1>3, <1>7, <2>3, <2>5, <2>6
<1> QED BY <1>5, <1>6, <1>7

-----------------------------------------------------------------------------
(* Identities and their rows.                                              *)

\* Lookups in users, whose columns are unique.
LEMMA UserLookups ==
    ASSUME MergeAssumption, MergeTypeOK, RowsFit
    PROVE  /\ \A w \in WebIds :
                 /\ \A i \in DOMAIN merged : merged[i].web = w => UserOf("web", w) = i
                 /\ \/ UserOf("web", w) = NoRef /\ \A i \in DOMAIN merged : merged[i].web # w
                    \/ UserOf("web", w) \in DOMAIN merged /\ merged[UserOf("web", w)].web = w
           /\ \A p \in ProfileIds :
                 /\ \A i \in DOMAIN merged : merged[i].player = p => UserOf("player", p) = i
                 /\ \/ UserOf("player", p) = NoRef /\ \A i \in DOMAIN merged : merged[i].player # p
                    \/ UserOf("player", p) \in DOMAIN merged /\ merged[UserOf("player", p)].player = p
<1>1. NoRef \notin DOMAIN merged /\ Unique(merged, "web") /\ Unique(merged, "player")
    BY NoRefIsNone DEF RowsFit
<1>2. \A w \in WebIds \cup ProfileIds : w # Null
    BY DEF MergeAssumption
<1> QED BY <1>1, <1>2, WebLookup, PlayerLookup DEF UserOf

\* An uncontested web user has the row of the two, an unlinked player one of his own.
LEMMA PeacefulRows ==
    ASSUME MergeAssumption, MergeTypeOK, LegacyFits, RowsFit, Mirrored
    PROVE  /\ Null \notin contested
           /\ \A w \in DOMAIN webUsers \ contested :
                 /\ UserOf("web", w) \in DOMAIN merged /\ merged[UserOf("web", w)].web = w
                 /\ merged[UserOf("web", w)].player = webUsers[w].link
                 /\ webUsers[w].link \notin contested
                 /\ \/ merged[UserOf("web", w)].steam = Coalesce(SteamOf(webUsers[w].link), webUsers[w].steam)
                    \/ webUsers[w].link \in dirty
           /\ \A p \in DOMAIN profiles \ contested :
                 /\ UserOf("player", p) \in DOMAIN merged /\ merged[UserOf("player", p)].player = p
                 /\ Linkers(p) = {} =>
                        /\ merged[UserOf("player", p)].web = Null
                        /\ merged[UserOf("player", p)].steam = profiles[p].steam
                 /\ \A w \in Linkers(p) : w \notin contested /\ UserOf("player", p) = UserOf("web", w)
<1>1. Null \notin contested
    BY DEF MergeTypeOK, MergeAssumption
<1>2. ASSUME NEW w \in DOMAIN webUsers \ contested
      PROVE  /\ UserOf("web", w) \in DOMAIN merged /\ merged[UserOf("web", w)].web = w
             /\ merged[UserOf("web", w)].player = webUsers[w].link
             /\ webUsers[w].link \notin contested
             /\ \/ merged[UserOf("web", w)].steam = Coalesce(SteamOf(webUsers[w].link), webUsers[w].steam)
                \/ webUsers[w].link \in dirty
    <2>1. w \in WebIds
        BY LegacyRows
    <2>2. webUsers[w].link # Null => webUsers[w].link \notin contested
        BY DEF RowsFit
    <2> QED BY <1>1, <2>1, <2>2, UserLookups DEF Mirrored
<1>3. ASSUME NEW p \in DOMAIN profiles \ contested
      PROVE  /\ UserOf("player", p) \in DOMAIN merged /\ merged[UserOf("player", p)].player = p
             /\ Linkers(p) = {} =>
                    /\ merged[UserOf("player", p)].web = Null
                    /\ merged[UserOf("player", p)].steam = profiles[p].steam
             /\ \A w \in Linkers(p) : w \notin contested /\ UserOf("player", p) = UserOf("web", w)
    <2>1. p \in ProfileIds /\ p # Null
        BY LegacyRows DEF MergeAssumption
    <2>2. CASE Linkers(p) = {}
        <3>1. PICK i \in DOMAIN merged : merged[i] = [web |-> Null, player |-> p, steam |-> profiles[p].steam]
            BY <2>2 DEF Mirrored
        <3>2. UserOf("player", p) = i
            BY <2>1, <3>1, UserLookups
        <3> QED BY <2>2, <3>1, <3>2
    <2>3. CASE Linkers(p) # {}
        <3>1. ASSUME NEW w \in Linkers(p) PROVE w \notin contested /\ UserOf("player", p) = UserOf("web", w)
                                                /\ UserOf("web", w) \in DOMAIN merged
            <4>1. w \in DOMAIN webUsers /\ webUsers[w].link = p
                BY DEF Linkers
            <4>2. w \notin contested
                BY <2>1, <4>1 DEF RowsFit
            <4>3. UserOf("web", w) \in DOMAIN merged /\ merged[UserOf("web", w)].player = p
                BY <1>2, <4>1, <4>2
            <4> QED BY <2>1, <4>2, <4>3, UserLookups
        <3> QED BY <2>1, <2>3, <3>1, UserLookups, NoRefIsNone
    <2> QED BY <2>2, <2>3
<1> QED BY <1>1, <1>2, <1>3

\* A row of a contested identity has no other than contested ones.
LEMMA Taints ==
    ASSUME MergeAssumption, MergeTypeOK, LegacyFits, RowsFit, Mirrored, NEW i \in DOMAIN merged, Tainted(i)
    PROVE  merged[i].web \in contested \cup {Null} /\ merged[i].player \in contested \cup {Null}
<1>1. /\ merged[i].web \in DOMAIN webUsers \cup {Null}
      /\ merged[i].player \in DOMAIN profiles \cup {Null}
    BY DEF RowsFit
<1>2. ASSUME merged[i].web \notin contested \cup {Null} PROVE merged[i].player \notin contested
    <2>1. merged[i].web \in DOMAIN webUsers \ contested /\ merged[i].web \in WebIds
        BY <1>1, <1>2, LegacyRows
    <2>2. UserOf("web", merged[i].web) = i
        BY <2>1, UserLookups
    <2> QED BY <2>1, <2>2, PeacefulRows
<1>3. ASSUME merged[i].player \notin contested \cup {Null} PROVE merged[i].web \notin contested
    <2> DEFINE p == merged[i].player
    <2>1. p \in DOMAIN profiles \ contested /\ p \in ProfileIds
        BY <1>1, <1>3, LegacyRows
    <2>2. UserOf("player", p) = i
        BY <2>1, UserLookups
    <2>3. CASE Linkers(p) = {}
        <3>1. merged[i].web = Null
            BY <2>1, <2>2, <2>3, PeacefulRows
        <3> QED BY <3>1, PeacefulRows
    <2>4. CASE Linkers(p) # {}
        <3>1. PICK w \in Linkers(p) : w \notin contested /\ i = UserOf("web", w)
            BY <2>1, <2>2, <2>4, PeacefulRows
        <3>2. w \in DOMAIN webUsers \ contested
            BY <3>1 DEF Linkers
        <3>3. merged[i].web = w
            BY <3>1, <3>2, PeacefulRows
        <3> QED BY <3>1, <3>3
    <2> QED BY <2>3, <2>4
<1> QED BY <1>2, <1>3 DEF Tainted

\* Whom a link concerns.
LEMMA ContendersAre ==
    ASSUME MergeAssumption, MergeTypeOK, NEW x \in Writers, writing[x].kind = "web"
    PROVE  LET t == writing[x]
               link == t.row.link
               rest == IF link = Null THEN {} ELSE Linkers(link) \ {t.id}
               before == IF t.id \in DOMAIN webUsers THEN webUsers[t.id].link ELSE Null
           IN  /\ Contenders(t) = {} =>
                      /\ rest = {} /\ before \in {Null, link}
                      /\ t.id \notin contested /\ (link # Null => link \notin contested)
                      /\ (before # Null => before \notin contested)
               /\ Contenders(t) # {} =>
                      /\ Contenders(t) = ({t.id, link, before} \cup rest) \ {Null}
                      /\ t.id \in Contenders(t)
<1>1. writing[x].id # Null
    BY Transactions DEF MergeAssumption
<1> QED BY <1>1 DEF Contenders

-----------------------------------------------------------------------------
(* A commit, in the old tables.                                            *)

WebEnds(x) ==
    /\ writing[x].kind = "web" /\ CommitWebRow(writing[x])
    /\ verdict' = Older(verdict)
    /\ writing' = [writing EXCEPT ![x] = Quiet]
    /\ UNCHANGED <<schema, running, resultUser>>
PlayerEnds(x) ==
    /\ writing[x].kind = "player" /\ CommitProfile(writing[x])
    /\ verdict' = Older(verdict)
    /\ writing' = [writing EXCEPT ![x] = Quiet]
    /\ UNCHANGED <<schema, running, resultUser>>

\* A row written is a row of the table.
LEMMA SetType ==
    ASSUME NEW S, NEW T, NEW f, NEW x \in S, NEW v \in T, Partial(f, S, T)
    PROVE  Partial(Set(f, x, v), S, T)
BY DEF Set, Partial

\* A writer without a transaction has none of either kind.
LEMMA QuietIs == Quiet.kind = "none"
BY DEF Quiet

\* Writes of two rows keep a column unique together when each does and their values differ.
LEMMA SetTwice ==
    ASSUME NEW f, NEW a, NEW u, NEW b, NEW v, a # b, u.steam = Null \/ u.steam # v.steam,
           Unique(Set(f, a, u), "steam"), Unique(Set(f, b, v), "steam")
    PROVE  Unique(Set(Set(f, a, u), b, v), "steam")
<1> DEFINE g == Set(f, a, u)
           h == Set(f, b, v)
           k == Set(g, b, v)
<1>1. /\ DOMAIN k = DOMAIN f \cup {a, b} /\ k[a] = u /\ k[b] = v /\ g[a] = u /\ h[b] = v
      /\ DOMAIN g = DOMAIN f \cup {a} /\ DOMAIN h = DOMAIN f \cup {b}
      /\ \A y \in DOMAIN f \ {a, b} : k[y] = f[y] /\ g[y] = f[y] /\ h[y] = f[y]
    BY DEF Set
<1>2. /\ \A i, j \in DOMAIN g : g[i].steam = g[j].steam /\ g[i].steam # Null => i = j
      /\ \A i, j \in DOMAIN h : h[i].steam = h[j].steam /\ h[i].steam # Null => i = j
    BY Columns
<1> HIDE DEF g, h, k
<1>3. \A i, j \in DOMAIN k : k[i].steam = k[j].steam /\ k[i].steam # Null => i = j
    BY <1>1, <1>2
<1> QED BY <1>3, Columns DEF k, g

\* The end of one transaction leaves the others.
LEMMA QuietsOne ==
    ASSUME MergeTypeOK, NEW x \in Writers, writing' = [writing EXCEPT ![x] = Quiet]
    PROVE  /\ writing' \in [Writers -> WebTx \cup PlayerTx \cup {Quiet}] /\ writing'[x] = Quiet
           /\ \A y \in Writers \ {x} : writing'[y] = writing[y]
BY DEF MergeTypeOK

\* A web user's commit keeps the old tables, and what is in flight, in order.
LEMMA WebEndsBase ==
    ASSUME MergeAssumption, MergeInv, NEW x \in Writers, WebEnds(x)
    PROVE  MergeTypeOK' /\ FlightsFit' /\ LegacyFits' /\ SchemaFits'
<1> DEFINE t == writing[x]
<1>1. /\ MergeTypeOK /\ FlightsFit /\ LegacyFits /\ SchemaFits /\ (Mirroring => MirrorFits)
      /\ t.kind = "web" /\ Mirror(t) /\ webUsers' = Set(webUsers, t.id, t.row)
      /\ contested' = IF Mirroring THEN contested \cup Contenders(t) ELSE {}
      /\ dirty' = IF Mirroring /\ SteamOf(t.row.link) # t.seen THEN dirty \cup {t.row.link} ELSE dirty
      /\ profiles' = profiles /\ schema' = schema /\ running' = running /\ resultUser' = resultUser
      /\ verdict' = Older(verdict)
      /\ writing' = [writing EXCEPT ![x] = Quiet]
    BY DEF MergeInv, WebEnds, CommitWebRow
<1>2. /\ t \in WebTx \cup PlayerTx \cup {Quiet} /\ t # Quiet /\ t.id \in WebIds /\ t.row \in WebRow
      /\ t.row.link \in ProfileIds \cup {Null}
    BY <1>1, Transactions DEF MergeTypeOK
<1>3. FlightFits(t) /\ \A y \in Writers \ {x} : FlightFits(writing[y]) /\ Apart(writing[y], t) /\ Apart(t, writing[y])
    BY <1>1 DEF FlightsFit
<1>4. /\ writing' \in [Writers -> WebTx \cup PlayerTx \cup {Quiet}] /\ writing'[x] = Quiet
      /\ \A y \in Writers \ {x} : writing'[y] = writing[y]
    BY <1>1, QuietsOne
<1>5. /\ DOMAIN webUsers' = DOMAIN webUsers \cup {t.id} /\ webUsers'[t.id] = t.row
      /\ \A w \in DOMAIN webUsers \ {t.id} : webUsers'[w] = webUsers[w]
      /\ Partial(webUsers', WebIds, WebRow)
    <2>1. Partial(webUsers, WebIds, WebRow)
        BY <1>1 DEF MergeTypeOK
    <2>2. Partial(webUsers', WebIds, WebRow)
        BY <1>1, <1>2, <2>1, SetType
    <2>3. webUsers' = Set(webUsers, t.id, t.row)
        BY <1>1
    <2> HIDE DEF t
    <2> QED BY <2>2, <2>3 DEF Set
<1>6. MergeTypeOK'
    <2>1. Partial(merged', UserNumbers, UserRow)
        <3>1. CASE Mirroring
            <4>1. IsFiniteSet(DOMAIN merged)
                BY <1>1, <3>1 DEF MirrorFits, RowsFit
            <4>2. merged' = AfterWeb(t)
                BY <1>1, <3>1 DEF Mirror, After
            <4> QED BY <1>1, <4>1, <4>2, AfterWebRows
        <3>2. CASE ~Mirroring
            BY <1>1, <3>2 DEF Mirror, MergeTypeOK
        <3> QED BY <3>1, <3>2
    <2>2. lobbyUser' \in [WebIds -> UserNumbers \cup {Absent, Gone, NoRef}]
        BY <1>1 DEF Mirror, MergeTypeOK
    <2>3. contested' \subseteq WebIds \cup ProfileIds
        <3>1. ASSUME Mirroring PROVE Contenders(t) \subseteq WebIds \cup ProfileIds
            BY <1>1, <1>2, LegacyRows DEF Contenders, Linkers
        <3> QED BY <1>1, <3>1 DEF MergeTypeOK
    <2>4. dirty' \subseteq ProfileIds
        <3>1. t.row.link = Null => SteamOf(t.row.link) = t.seen
            BY <1>1, <1>3 DEF FlightFits, SteamOf
        <3> QED BY <1>1, <1>2, <3>1 DEF MergeTypeOK
    <2>5. verdict' \in {"none", "links", "late", "ok", "stale", "blocked"}
        BY <1>1 DEF MergeTypeOK, Older
    <2> HIDE DEF t
    <2> QED BY <1>1, <1>4, <1>5, <2>1, <2>2, <2>3, <2>4, <2>5 DEF MergeTypeOK
<1>7. FlightsFit'
    <2>1. \A y \in Writers : writing'[y] # Quiet => writing[y] # Quiet
        BY <1>2, <1>4
    <2>2. ASSUME NEW y \in Writers, y # x, writing[y].kind = "web"
          PROVE  /\ writing[y].id # t.id
                 /\ Unique(Set(webUsers', writing[y].id, writing[y].row), "steam")
        <3>1. /\ writing[y].id # t.id /\ (t.row.steam = Null \/ t.row.steam # writing[y].row.steam)
              /\ Unique(Set(webUsers, t.id, t.row), "steam")
              /\ Unique(Set(webUsers, writing[y].id, writing[y].row), "steam")
            BY <1>1, <1>2, <1>3, <2>2 DEF Apart, FlightFits
        <3> QED BY <1>1, <3>1, SetTwice
    <2>3. ASSUME NEW y \in Writers PROVE FlightFits(writing[y])'
        <3>1. CASE y = x
            BY <1>4, <3>1, QuietIs DEF FlightFits
        <3>2. CASE y # x
            BY <1>1, <1>3, <1>4, <1>5, <2>2, <3>2 DEF FlightFits
        <3> QED BY <3>1, <3>2
    <2>4. ASSUME NEW y \in Writers, NEW z \in Writers, y # z PROVE Apart(writing[y], writing[z])'
        <3>1. \A u \in Writers : writing[u].kind = "none" => writing[u] = Quiet
            BY <1>1, Transactions
        <3> QED BY <1>1, <1>4, <2>4, <3>1, QuietIs DEF FlightsFit, Apart
    <2> QED BY <1>1, <1>2, <2>1, <2>3, <2>4 DEF FlightsFit
<1>8. LegacyFits'
    <2>1. webUsers'[t.id].link \in DOMAIN profiles \cup {Null}
        BY <1>1, <1>3, <1>5 DEF FlightFits
    <2>2. Unique(webUsers', "steam")
        BY <1>1, <1>3 DEF FlightFits
    <2> QED BY <1>1, <1>5, <2>1, <2>2 DEF LegacyFits
<1>9. SchemaFits'
    <2>1. schema # "merged"
        BY <1>1, <1>2 DEF FlightsFit
    <2>2. CASE Mirroring
        <3>1. \A w \in WebIds : lobbyUser[w] \in {Absent, NoRef} => lobbyUser'[w] = lobbyUser[w]
            BY <1>1, <2>2, NumbersAreNone DEF Mirror
        <3> QED BY <1>1, <2>2, <3>1 DEF SchemaFits, Mirroring, Older
    <2>3. CASE ~Mirroring
        BY <1>1, <2>1, <2>3 DEF SchemaFits, Mirroring, Mirror, MergeTypeOK, Older
    <2> QED BY <2>2, <2>3
<1> QED BY <1>6, <1>7, <1>8, <1>9

\* A player's commit keeps the old tables, and what is in flight, in order.
LEMMA PlayerEndsBase ==
    ASSUME MergeAssumption, MergeInv, NEW x \in Writers, PlayerEnds(x)
    PROVE  MergeTypeOK' /\ FlightsFit' /\ LegacyFits' /\ SchemaFits'
<1> DEFINE t == writing[x]
<1>1. /\ MergeTypeOK /\ FlightsFit /\ LegacyFits /\ SchemaFits /\ (Mirroring => MirrorFits)
      /\ t.kind = "player" /\ Mirror(t) /\ profiles' = Set(profiles, t.id, t.row)
      /\ contested' = contested /\ dirty' = dirty \ {t.id}
      /\ webUsers' = webUsers /\ schema' = schema /\ running' = running /\ resultUser' = resultUser
      /\ verdict' = Older(verdict)
      /\ writing' = [writing EXCEPT ![x] = Quiet]
    BY DEF MergeInv, PlayerEnds, CommitProfile
<1>2. t # Quiet /\ t.id \in ProfileIds /\ t.row \in Profile
    BY <1>1, Transactions
<1>3. FlightFits(t) /\ \A y \in Writers \ {x} : FlightFits(writing[y]) /\ Apart(writing[y], t) /\ Apart(t, writing[y])
    BY <1>1 DEF FlightsFit
<1>4. /\ writing' \in [Writers -> WebTx \cup PlayerTx \cup {Quiet}] /\ writing'[x] = Quiet
      /\ \A y \in Writers \ {x} : writing'[y] = writing[y]
    BY <1>1, QuietsOne
<1>5. /\ DOMAIN profiles' = DOMAIN profiles \cup {t.id} /\ profiles'[t.id] = t.row
      /\ \A p \in DOMAIN profiles \ {t.id} : profiles'[p] = profiles[p]
      /\ Partial(profiles', ProfileIds, Profile)
    <2>1. Partial(profiles, ProfileIds, Profile)
        BY <1>1 DEF MergeTypeOK
    <2>2. Partial(profiles', ProfileIds, Profile)
        BY <1>1, <1>2, <2>1, SetType
    <2>3. profiles' = Set(profiles, t.id, t.row)
        BY <1>1
    <2> HIDE DEF t
    <2> QED BY <2>2, <2>3 DEF Set
<1>6. MergeTypeOK'
    <2>1. Partial(merged', UserNumbers, UserRow)
        <3>1. CASE Mirroring
            <4>1. IsFiniteSet(DOMAIN merged)
                BY <1>1, <3>1 DEF MirrorFits, RowsFit
            <4>2. merged' = AfterPlayer(t)
                BY <1>1, <3>1 DEF Mirror, After
            <4> QED BY <1>1, <4>1, <4>2, AfterPlayerRows
        <3>2. CASE ~Mirroring
            BY <1>1, <3>2 DEF Mirror, MergeTypeOK
        <3> QED BY <3>1, <3>2
    <2>2. lobbyUser' \in [WebIds -> UserNumbers \cup {Absent, Gone, NoRef}]
        BY <1>1 DEF Mirror, MergeTypeOK
    <2>3. verdict' \in {"none", "links", "late", "ok", "stale", "blocked"}
        BY <1>1 DEF MergeTypeOK, Older
    <2> HIDE DEF t
    <2> QED BY <1>1, <1>4, <1>5, <2>1, <2>2, <2>3 DEF MergeTypeOK
<1>7. FlightsFit'
    <2>1. \A y \in Writers : writing'[y] # Quiet => writing[y] # Quiet
        BY <1>2, <1>4
    <2>2. ASSUME NEW y \in Writers, y # x, writing[y].kind = "player"
          PROVE  /\ writing[y].id # t.id
                 /\ Unique(Set(profiles', writing[y].id, writing[y].row), "steam")
        <3>1. /\ writing[y].id # t.id /\ (t.row.steam = Null \/ t.row.steam # writing[y].row.steam)
              /\ Unique(Set(profiles, t.id, t.row), "steam")
              /\ Unique(Set(profiles, writing[y].id, writing[y].row), "steam")
            BY <1>1, <1>2, <1>3, <2>2 DEF Apart, FlightFits
        <3> QED BY <1>1, <3>1, SetTwice
    <2>3. ASSUME NEW y \in Writers PROVE FlightFits(writing[y])'
        <3>1. CASE y = x
            BY <1>4, <3>1, QuietIs DEF FlightFits
        <3>2. CASE y # x
            <4>1. CASE writing[y].kind = "web"
                <5>1. \A p \in DOMAIN profiles \cap {t.id} : profiles[p].steam = Null
                    BY <1>1, <1>3 DEF FlightFits
                <5> QED BY <1>1, <1>3, <1>4, <1>5, <3>2, <4>1, <5>1 DEF FlightFits
            <4>2. CASE writing[y].kind = "player"
                BY <1>1, <1>3, <1>4, <1>5, <2>2, <3>2, <4>2 DEF FlightFits
            <4>3. CASE writing[y].kind \notin {"web", "player"}
                BY <1>4, <3>2, <4>3 DEF FlightFits
            <4> QED BY <4>1, <4>2, <4>3
        <3> QED BY <3>1, <3>2
    <2>4. ASSUME NEW y \in Writers, NEW z \in Writers, y # z PROVE Apart(writing[y], writing[z])'
        <3>1. \A u \in Writers : writing[u].kind = "none" => writing[u] = Quiet
            BY <1>1, Transactions
        <3> QED BY <1>1, <1>4, <2>4, <3>1, QuietIs DEF FlightsFit, Apart
    <2> QED BY <1>1, <1>2, <2>1, <2>3, <2>4 DEF FlightsFit
<1>8. LegacyFits'
    <2>1. Unique(profiles', "steam")
        BY <1>1, <1>3 DEF FlightFits
    <2> QED BY <1>1, <1>5, <2>1 DEF LegacyFits
<1>9. SchemaFits'
    <2>1. schema # "merged"
        BY <1>1, <1>2 DEF FlightsFit
    <2>2. CASE Mirroring
        <3>1. \A w \in WebIds : lobbyUser[w] \in {Absent, NoRef} => lobbyUser'[w] = lobbyUser[w]
            BY <1>1, <2>2, NumbersAreNone DEF Mirror
        <3> QED BY <1>1, <2>2, <3>1 DEF SchemaFits, Mirroring, Older
    <2>3. CASE ~Mirroring
        BY <1>1, <2>1, <2>3 DEF SchemaFits, Mirroring, Mirror, MergeTypeOK, Older
    <2> QED BY <2>2, <2>3
<1> QED BY <1>6, <1>7, <1>8, <1>9

-----------------------------------------------------------------------------
(* A commit of a web user, in the mirror.                                  *)

\* A refused write changes nothing but that it is over.
LEMMA AbortInv ==
    ASSUME MergeAssumption, MergeInv, NEW x \in Writers, writing[x] # Quiet, Abort(x),
           writing' = [writing EXCEPT ![x] = Quiet], UNCHANGED <<schema, running, resultUser>>
    PROVE  MergeInv'
<1>1. /\ MergeTypeOK /\ FlightsFit /\ LegacyFits /\ SchemaFits /\ Referred /\ (Mirroring => MirrorFits)
      /\ webUsers' = webUsers /\ profiles' = profiles /\ merged' = merged /\ lobbyUser' = lobbyUser
      /\ contested' = contested /\ dirty' = dirty /\ verdict' = verdict
      /\ schema' = schema /\ running' = running /\ resultUser' = resultUser
    BY DEF MergeInv, Abort, legacyRows, troubles
<1>2. /\ writing' \in [Writers -> WebTx \cup PlayerTx \cup {Quiet}] /\ writing'[x] = Quiet
      /\ \A y \in Writers \ {x} : writing'[y] = writing[y]
    BY <1>1, QuietsOne
<1>3. MergeTypeOK' /\ LegacyFits' /\ SchemaFits' /\ Referred'
    BY <1>1, <1>2 DEF MergeTypeOK, LegacyFits, SchemaFits, Referred, Linkers, SteamOf
<1>4. FlightsFit'
    <2>1. ASSUME NEW y \in Writers PROVE FlightFits(writing[y])'
        <3>1. CASE y = x
            BY <1>2, <3>1, QuietIs DEF FlightFits
        <3>2. CASE y # x
            BY <1>1, <1>2, <3>2 DEF FlightFits, FlightsFit
        <3> QED BY <3>1, <3>2
    <2>2. ASSUME NEW y \in Writers, NEW z \in Writers, y # z PROVE Apart(writing[y], writing[z])'
        <3>1. \A u \in Writers : writing[u].kind = "none" => writing[u] = Quiet
            BY <1>1, Transactions
        <3> QED BY <1>1, <1>2, <2>2, <3>1, QuietIs DEF FlightsFit, Apart
    <2> QED BY <1>1, <1>2, <2>1, <2>2 DEF FlightsFit
<1>5. ASSUME Mirroring' PROVE MirrorFits'
    <2>1. MirrorFits
        BY <1>1, <1>5 DEF Mirroring
    <2>2. RowsFit' /\ SteamOwned' /\ Mirrored'
        BY <1>1, <2>1 DEF MirrorFits, RowsFit, SteamOwned, Mirrored, Tainted, Linkers, UserOf, SteamOf
    <2>3. ReadsFit'
        BY <1>1, <1>2, <2>1, QuietIs DEF MirrorFits, ReadsFit, ReadFits, Tainted, Linkers, UserOf, ByPlayer
    <2> QED BY <2>2, <2>3 DEF MirrorFits
<1> QED BY <1>1, <1>3, <1>4, <1>5 DEF MergeInv

\* What a commit of a web user does to the old tables, and to the other transactions.
WebStored(x, t) ==
    /\ t.id \in WebIds /\ t.id # Null /\ t.row.link \in ProfileIds \cup {Null}
    /\ DOMAIN webUsers' = DOMAIN webUsers \cup {t.id} /\ webUsers'[t.id] = t.row
    /\ \A w \in DOMAIN webUsers \ {t.id} : webUsers'[w] = webUsers[w]
    /\ \A w \in DOMAIN webUsers : webUsers[w].steam # Null => webUsers'[w].steam = webUsers[w].steam
    /\ \A p : Linkers(p)' = (Linkers(p) \ {t.id}) \cup (IF t.row.link = p THEN {t.id} ELSE {})
    /\ profiles' = profiles
    /\ t.row.link = Null => t.seen = Null /\ t.other = NoRef
    /\ t.row.link # Null => t.row.link \in DOMAIN profiles /\ t.seen \in {Null, profiles[t.row.link].steam}
    /\ contested' = contested \cup Contenders(t)
    /\ dirty \subseteq dirty' /\ (SteamOf(t.row.link) # t.seen => t.row.link \in dirty')
    /\ writing'[x] = Quiet
    /\ \A y \in Writers \ {x} :
          /\ writing'[y] = writing[y]
          /\ writing[y].kind = "web" => writing[y].id # t.id

\* And to the rows of users.
Written(t) == {t.mine, t.other, Fresh}
RowsStored(t) ==
    /\ merged' = After(t) /\ DOMAIN merged' \subseteq DOMAIN merged \cup {Fresh}
    /\ Unique(merged', "web") /\ Unique(merged', "player") /\ Unique(merged', "steam")
    /\ IsFiniteSet(DOMAIN merged') /\ NoRef \notin DOMAIN merged'
    /\ resultUser' = resultUser
    /\ \A p \in ProfileIds : resultUser[p] \in DOMAIN merged => resultUser[p] \in DOMAIN merged'
    /\ \A w \in WebIds : lobbyUser'[w] = IF lobbyUser[w] \in DOMAIN merged \ DOMAIN merged' THEN Gone ELSE lobbyUser[w]
    /\ Fresh \notin DOMAIN merged
    /\ \A y \in Writers : /\ writing[y].kind = "web" => Fresh \notin {writing[y].mine, writing[y].other}
                          /\ writing[y].kind = "player" => Fresh # writing[y].mine

\* A commit in the mirror stores what its trigger leaves, which no unique column refuses.
LEMMA RowsAreStored ==
    ASSUME MergeAssumption, MergeInv, Mirroring, NEW x \in Writers, WebEnds(x) \/ PlayerEnds(x)
    PROVE  RowsStored(writing[x])
<1> DEFINE t == writing[x]
<1>1. /\ MergeTypeOK /\ IsFiniteSet(DOMAIN merged) /\ NoRef \notin DOMAIN merged
    BY NoRefIsNone DEF MergeInv, MirrorFits, RowsFit
<1>2. /\ t.kind \in {"web", "player"} /\ ~Refused(t) /\ Mirror(t) /\ resultUser' = resultUser
    BY DEF WebEnds, PlayerEnds, CommitWebRow, CommitProfile
<1>3. /\ merged' = After(t)
      /\ lobbyUser' = [w \in WebIds |-> IF lobbyUser[w] \in DOMAIN merged \ DOMAIN merged' THEN Gone ELSE lobbyUser[w]]
    BY <1>2 DEF Mirror
<1>4. /\ Unique(merged', "web") /\ Unique(merged', "player") /\ Unique(merged', "steam")
      /\ \A p \in ProfileIds : resultUser[p] \in DOMAIN merged => resultUser[p] \in DOMAIN merged'
    BY <1>2, <1>3 DEF Refused, Clash, Bereaves
<1>5. DOMAIN merged' \subseteq DOMAIN merged \cup {Fresh}
    BY <1>1, <1>2, <1>3, AfterWebRows, AfterPlayerRows DEF After
<1>6. IsFiniteSet(DOMAIN merged')
    <2>1. IsFiniteSet(DOMAIN merged \cup {Fresh})
        BY <1>1, FS_Singleton, FS_Union
    <2> QED BY <1>5, <2>1, FS_Subset
<1>7. /\ Fresh \notin DOMAIN merged /\ Fresh # NoRef
      /\ \A y \in Writers : /\ writing[y].kind = "web" => Fresh \notin {writing[y].mine, writing[y].other}
                            /\ writing[y].kind = "player" => Fresh # writing[y].mine
    BY <1>1, FreshIsNew DEF UserNumbers, NoRef
<1> QED BY <1>1, <1>2, <1>3, <1>4, <1>5, <1>6, <1>7 DEF RowsStored

\* A commit of a web user does so.
LEMMA WebIsStored ==
    ASSUME MergeAssumption, MergeInv, Mirroring, NEW x \in Writers, WebEnds(x)
    PROVE  WebStored(x, writing[x])
<1> DEFINE t == writing[x]
<1>1. /\ MergeTypeOK /\ FlightsFit
      /\ t.kind = "web" /\ webUsers' = Set(webUsers, t.id, t.row)
      /\ contested' = contested \cup Contenders(t)
      /\ dirty' = IF SteamOf(t.row.link) # t.seen THEN dirty \cup {t.row.link} ELSE dirty
      /\ profiles' = profiles /\ writing' = [writing EXCEPT ![x] = Quiet]
    BY DEF MergeInv, WebEnds, CommitWebRow
<1>2. t # Quiet /\ t.id \in WebIds /\ t.id # Null /\ t.row.link \in ProfileIds \cup {Null}
    BY <1>1, Transactions DEF MergeAssumption
<1>3. FlightFits(t) /\ \A y \in Writers \ {x} : Apart(t, writing[y])
    BY <1>1 DEF FlightsFit
<1>4. writing'[x] = Quiet /\ \A y \in Writers \ {x} : writing'[y] = writing[y]
    BY <1>1, QuietsOne
<1>5. /\ DOMAIN webUsers' = DOMAIN webUsers \cup {t.id} /\ webUsers'[t.id] = t.row
      /\ \A w \in DOMAIN webUsers \ {t.id} : webUsers'[w] = webUsers[w]
    <2>1. webUsers' = Set(webUsers, t.id, t.row)
        BY <1>1
    <2> HIDE DEF t
    <2> QED BY <2>1 DEF Set
<1>6. \A p : Linkers(p)' = (Linkers(p) \ {t.id}) \cup (IF t.row.link = p THEN {t.id} ELSE {})
    <2> HIDE DEF t
    <2> QED BY <1>5 DEF Linkers
<1>7. \A w \in DOMAIN webUsers : webUsers[w].steam # Null => webUsers'[w].steam = webUsers[w].steam
    BY <1>1, <1>3, <1>5 DEF FlightFits
<1>8. \A y \in Writers \ {x} : writing[y].kind = "web" => writing[y].id # t.id
    BY <1>1, <1>2, <1>3 DEF Apart
<1>9. /\ t.row.link = Null => t.seen = Null /\ t.other = NoRef
      /\ t.row.link # Null => t.row.link \in DOMAIN profiles /\ t.seen \in {Null, profiles[t.row.link].steam}
    BY <1>1, <1>3 DEF FlightFits
<1> HIDE DEF t
<1>10. WebStored(x, t)
    BY <1>1, <1>2, <1>4, <1>5, <1>6, <1>7, <1>8, <1>9 DEF WebStored
<1> QED BY <1>10 DEF t

\* A contested link taints whatever row it reaches.
LEMMA ContestedTaints ==
    ASSUME MergeAssumption, MergeInv, Mirroring, NEW x \in Writers, WebEnds(x), Contenders(writing[x]) # {}
    PROVE  LET t == writing[x] IN
           /\ \A i \in DOMAIN merged \cap Written(t) :
                 merged[i].web \in contested' \cup {Null} /\ merged[i].player \in contested' \cup {Null}
           /\ \A i \in DOMAIN merged' \cap Written(t) :
                 /\ merged'[i].web = t.id /\ t.id \in contested' /\ merged'[i].player \in contested' \cup {Null}
                 /\ merged'[i].player \in DOMAIN profiles \cup {Null}
                 /\ \/ merged'[i].steam \in {Null, t.seen, t.row.steam}
                    \/ i \in DOMAIN merged /\ merged'[i].steam = merged[i].steam
                 /\ merged'[i].player = t.row.link \/ i \in DOMAIN merged
           /\ \A i \in DOMAIN merged' \ Written(t) : i \in DOMAIN merged /\ merged'[i] = merged[i]
           /\ \A i \in DOMAIN merged \ Written(t) : i \in DOMAIN merged' /\ merged'[i] = merged[i]
<1> DEFINE t == writing[x]
           link == t.row.link
           before == IF t.id \in DOMAIN webUsers THEN webUsers[t.id].link ELSE Null
           rest == IF link = Null THEN {} ELSE Linkers(link) \ {t.id}
<1>1. /\ MergeTypeOK /\ LegacyFits /\ RowsFit /\ Mirrored /\ ReadFits(t) /\ FlightFits(t) /\ t.kind = "web"
    BY DEF MergeInv, MirrorFits, ReadsFit, FlightsFit, WebEnds
<1>2. WebStored(x, t) /\ RowsStored(t)
    BY WebIsStored, RowsAreStored
<1>3. t.id \in contested' /\ contested \subseteq contested' /\ Contenders(t) \subseteq contested'
      /\ Contenders(t) = ({t.id, link, before} \cup rest) \ {Null}
    BY <1>1, <1>2, ContendersAre DEF WebStored
<1>4. ASSUME NEW i \in DOMAIN merged \cap Written(t)
      PROVE  merged[i].web \in contested' \cup {Null} /\ merged[i].player \in contested' \cup {Null}
    <2>1. CASE Tainted(i)
        BY <1>1, <1>3, <2>1, Taints
    <2>2. CASE ~Tainted(i) /\ i = t.mine
        <3>1. t.id \notin contested /\ i = UserOf("web", t.id)
            BY <1>1, <2>2 DEF ReadFits
        <3>2. merged[i].web = t.id /\ t.id \in WebIds /\ t.id # Null
            BY <1>1, <1>2, <3>1, UserLookups, NoRefIsNone DEF WebStored
        <3>3. t.id \in DOMAIN webUsers
            BY <1>1, <3>2 DEF RowsFit
        <3>4. merged[i].player = before
            BY <1>1, <3>1, <3>3, PeacefulRows
        <3> QED BY <1>3, <3>2, <3>4
    <2>3. CASE ~Tainted(i) /\ i = t.other
        <3>1. merged[i].player = link
            BY <1>1, <2>3 DEF ReadFits
        <3>2. link # Null
            BY <1>1, <2>3, NoRefIsNone DEF FlightFits
        <3>3. ASSUME merged[i].web # Null PROVE merged[i].web \in contested'
            <4>1. merged[i].web \in DOMAIN webUsers \ contested /\ merged[i].web \in WebIds
                BY <1>1, <2>3, <3>3, LegacyRows DEF RowsFit, Tainted
            <4>2. webUsers[merged[i].web].link = link
                BY <1>1, <3>1, <4>1, UserLookups, PeacefulRows
            <4>3. merged[i].web \in rest \cup {t.id}
                BY <3>2, <4>1, <4>2 DEF Linkers
            <4> QED BY <1>3, <3>3, <4>3
        <3> QED BY <1>3, <3>1, <3>2, <3>3
    <2>4. i # Fresh
        BY <1>2 DEF RowsStored
    <2> QED BY <2>1, <2>2, <2>3, <2>4 DEF Written
<1>5. /\ \A i \in DOMAIN merged \ Written(t) : i \in DOMAIN merged' /\ merged'[i] = merged[i]
      /\ \A i \in DOMAIN merged' \cap Written(t) :
            /\ merged'[i].web = t.id
            /\ \/ merged'[i].player = link
               \/ i \in DOMAIN merged /\ i = t.other /\ merged'[i].player = merged[i].player
            /\ \/ merged'[i].steam \in {Null, t.seen, t.row.steam}
               \/ i \in DOMAIN merged /\ merged'[i].steam = merged[i].steam
    <2>1. merged' = AfterWeb(t) /\ IsFiniteSet(DOMAIN merged)
        BY <1>1, <1>2 DEF RowsStored, After, RowsFit
    <2>2. LET rows == AfterWeb(t) IN
          /\ \A i \in DOMAIN merged \ {t.mine, t.other} : i \in DOMAIN rows /\ rows[i] = merged[i]
          /\ \A i \in DOMAIN rows \cap {t.mine, t.other, Fresh} :
                /\ rows[i].web = t.id
                /\ \/ rows[i].player = t.row.link
                   \/ i \in DOMAIN merged /\ i = t.other /\ rows[i].player = merged[i].player
                /\ \/ rows[i].steam \in {Null, t.seen, t.row.steam}
                   \/ i \in DOMAIN merged /\ rows[i].steam = merged[i].steam
        BY <1>1, <2>1, AfterWebRows
    <2> HIDE DEF t
    <2> QED BY <2>1, <2>2 DEF Written
<1>6. ASSUME NEW i \in DOMAIN merged' \cap Written(t)
      PROVE  /\ merged'[i].player \in contested' \cup {Null} /\ merged'[i].player \in DOMAIN profiles \cup {Null}
             /\ merged'[i].player = link \/ i \in DOMAIN merged
    <2>1. link \in contested' \cup {Null} /\ link \in DOMAIN profiles \cup {Null}
        BY <1>2, <1>3 DEF WebStored
    <2>2. \A k \in DOMAIN merged : merged[k].player \in DOMAIN profiles \cup {Null}
        BY <1>1 DEF RowsFit
    <2> HIDE DEF t, link
    <2> QED BY <1>4, <1>5, <2>1, <2>2
<1>7. \A i \in DOMAIN merged' \ Written(t) : i \in DOMAIN merged /\ merged'[i] = merged[i]
    BY <1>2, <1>5 DEF RowsStored, Written
<1> HIDE DEF before, rest
<1> QED BY <1>3, <1>4, <1>5, <1>6, <1>7

\* The invariant after such a commit: who is not contested keeps his row as it was.
LEMMA ContestedInv ==
    ASSUME MergeAssumption, MergeInv, Mirroring, NEW x \in Writers, WebEnds(x), Contenders(writing[x]) # {},
           MergeTypeOK'
    PROVE  MirrorFits' /\ Referred'
<1> DEFINE t == writing[x]
           link == t.row.link
           before == IF t.id \in DOMAIN webUsers THEN webUsers[t.id].link ELSE Null
           rest == IF link = Null THEN {} ELSE Linkers(link) \ {t.id}
<1>1. /\ MergeTypeOK /\ LegacyFits /\ RowsFit /\ SteamOwned /\ Mirrored /\ ReadsFit /\ Referred /\ t.kind = "web"
    BY DEF MergeInv, MirrorFits, WebEnds
<1>2. WebStored(x, t) /\ RowsStored(t)
    BY WebIsStored, RowsAreStored
<1>3. /\ contested' = contested \cup Contenders(t)
      /\ Contenders(t) = ({t.id, link, before} \cup rest) \ {Null}
    BY <1>1, <1>2, ContendersAre DEF WebStored
<1>4. /\ \A i \in DOMAIN merged \cap Written(t) :
            merged[i].web \in contested' \cup {Null} /\ merged[i].player \in contested' \cup {Null}
      /\ \A i \in DOMAIN merged' \cap Written(t) :
            /\ merged'[i].web = t.id /\ t.id \in contested' /\ merged'[i].player \in contested' \cup {Null}
            /\ merged'[i].player \in DOMAIN profiles \cup {Null}
            /\ \/ merged'[i].steam \in {Null, t.seen, t.row.steam}
               \/ i \in DOMAIN merged /\ merged'[i].steam = merged[i].steam
            /\ merged'[i].player = link \/ i \in DOMAIN merged
      /\ \A i \in DOMAIN merged' \ Written(t) : i \in DOMAIN merged /\ merged'[i] = merged[i]
      /\ \A i \in DOMAIN merged \ Written(t) : i \in DOMAIN merged' /\ merged'[i] = merged[i]
    BY ContestedTaints
<1> HIDE DEF t, link, before, rest
<1>5. Null \notin contested' /\ contested \subseteq contested'
    BY <1>1, <1>3, PeacefulRows
<1>6. \A w \in DOMAIN webUsers : /\ w \in WebIds /\ w # Null
                                 /\ webUsers[w].link # Null => (w \in contested <=> webUsers[w].link \in contested)
    BY <1>1, LegacyRows DEF RowsFit, MergeAssumption
<1>7. ASSUME NEW w \in DOMAIN webUsers', webUsers'[w].link # Null
      PROVE  w \in contested' <=> webUsers'[w].link \in contested'
    <2>1. CASE w = t.id
        BY <1>2, <1>3, <1>5, <1>7, <2>1 DEF WebStored, link
    <2>2. CASE w # t.id
        <3>1. w \in DOMAIN webUsers /\ webUsers'[w] = webUsers[w]
            BY <1>2, <2>2 DEF WebStored
        <3>2. w \in Contenders(t) \ contested => webUsers[w].link = link
            <4>1. w \in Contenders(t) => w \in rest \/ w \in ProfileIds
                BY <1>1, <1>2, <1>3, <2>2, LegacyRows DEF WebStored, before, link
            <4>2. w \notin ProfileIds
                BY <1>6, <3>1 DEF MergeAssumption
            <4> QED BY <4>1, <4>2 DEF rest, Linkers
        <3>3. webUsers[w].link \in Contenders(t) => w \in contested'
            <4>1. webUsers[w].link \in ProfileIds /\ webUsers[w].link \notin WebIds
                BY <1>1, <1>7, <3>1, LegacyRows DEF MergeAssumption
            <4>2. webUsers[w].link = link => w \in rest
                BY <1>7, <2>2, <3>1 DEF rest, Linkers
            <4>3. webUsers[w].link = before => w \in contested'
                <5>1. SUFFICES ASSUME webUsers[w].link = before, w \notin contested PROVE w \in contested'
                    BY <1>5
                <5>2. t.id \in DOMAIN webUsers /\ webUsers[t.id].link = before
                    BY <1>7, <3>1, <5>1 DEF before
                <5>3. before \in ProfileIds \ contested
                    BY <1>6, <1>7, <3>1, <4>1, <5>1
                <5>4. w \in Linkers(before) /\ t.id \in Linkers(before)
                    BY <3>1, <5>1, <5>2 DEF Linkers
                <5>5. w = t.id
                    BY <1>1, <5>3, <5>4 DEF RowsFit
                <5> QED BY <2>2, <5>5
            <4>4. rest \subseteq WebIds /\ t.id \in WebIds
                BY <1>2, <1>6 DEF rest, Linkers, WebStored
            <4>5. rest \subseteq contested'
                BY <1>3, <1>6 DEF rest, Linkers
            <4> QED BY <1>3, <4>1, <4>2, <4>3, <4>4, <4>5
        <3>4. link \in contested' \cup {Null}
            BY <1>3
        <3> QED BY <1>3, <1>5, <1>6, <1>7, <3>1, <3>2, <3>3, <3>4
    <2> QED BY <2>1, <2>2
<1>8. ASSUME NEW w \in DOMAIN webUsers' \ contested'
      PROVE  /\ w \in DOMAIN webUsers \ contested /\ webUsers'[w] = webUsers[w] /\ w # t.id
             /\ webUsers[w].link \notin contested' /\ w \in WebIds
    <2>1. t.id \in contested'
        BY <1>2, <1>3 DEF WebStored
    <2>2. w \in DOMAIN webUsers \ contested /\ webUsers'[w] = webUsers[w] /\ w # t.id
        BY <1>2, <1>5, <2>1 DEF WebStored
    <2> QED BY <1>5, <1>6, <1>7, <2>2
<1>9. ASSUME NEW i \in DOMAIN merged, merged[i].web \notin contested' \cup {Null}
                                     \/ merged[i].player \notin contested' \cup {Null}
      PROVE  i \notin Written(t) /\ i \in DOMAIN merged' /\ merged'[i] = merged[i]
    BY <1>4, <1>9
<1>10. ASSUME NEW p \in ProfileIds \ contested' PROVE Linkers(p)' = Linkers(p)
    <2>1. p # Null
        BY DEF MergeAssumption
    <2>2. p # link /\ p # before
        BY <1>3, <1>10, <2>1
    <2>3. t.id \notin Linkers(p)
        BY <2>2 DEF before, Linkers
    <2> QED BY <1>2, <2>2, <2>3 DEF WebStored, link
<1>11. RowsFit'
    <2>1. ASSUME NEW i \in DOMAIN merged'
          PROVE  merged'[i].web \in DOMAIN webUsers' \cup {Null} /\ merged'[i].player \in DOMAIN profiles' \cup {Null}
        <3>1. CASE i \in Written(t)
            BY <1>2, <1>4, <3>1 DEF WebStored
        <3>2. CASE i \notin Written(t)
            BY <1>1, <1>2, <1>4, <3>2 DEF WebStored, RowsFit
        <3> QED BY <3>1, <3>2
    <2>2. contested' \subseteq DOMAIN webUsers' \cup DOMAIN profiles'
        <3>1. before \in DOMAIN profiles \cup {Null}
            BY <1>1 DEF before, LegacyFits
        <3>2. rest \subseteq DOMAIN webUsers
            BY DEF rest, Linkers
        <3> QED BY <1>1, <1>2, <1>3, <3>1, <3>2 DEF RowsFit, WebStored, link
    <2>3. \A p \in ProfileIds \ contested' : \A v, w \in Linkers(p)' : v = w
        BY <1>1, <1>5, <1>10 DEF RowsFit
    <2> QED BY <1>2, <1>7, <2>1, <2>2, <2>3 DEF RowsFit, RowsStored
<1>12. ASSUME NEW w \in WebIds, w \notin contested'
       PROVE  UserOf("web", w)' = UserOf("web", w)
    <2>1. w # Null /\ w # t.id
        BY <1>2, <1>3, <1>12 DEF WebStored, MergeAssumption
    <2>2. Unique(merged', "web") /\ NoRef \notin DOMAIN merged'
        BY <1>2 DEF RowsStored
    <2>3. /\ \A i \in DOMAIN merged' : merged'[i].web = w => UserOf("web", w)' = i
          /\ \/ UserOf("web", w)' = NoRef /\ \A i \in DOMAIN merged' : merged'[i].web # w
             \/ UserOf("web", w)' \in DOMAIN merged' /\ merged'[UserOf("web", w)'].web = w
        BY <2>1, <2>2, WebLookup DEF UserOf
    <2>4. /\ \A i \in DOMAIN merged : merged[i].web = w => UserOf("web", w) = i
          /\ \/ UserOf("web", w) = NoRef /\ \A i \in DOMAIN merged : merged[i].web # w
             \/ UserOf("web", w) \in DOMAIN merged /\ merged[UserOf("web", w)].web = w
        BY <1>1, UserLookups
    <2>5. \A i \in DOMAIN merged : merged[i].web = w => i \in DOMAIN merged' /\ merged'[i].web = w
        BY <1>9, <1>12, <2>1
    <2>6. \A i \in DOMAIN merged' : merged'[i].web = w => i \in DOMAIN merged /\ merged[i].web = w
        BY <1>4, <2>1
    <2> QED BY <2>3, <2>4, <2>5, <2>6
<1>13. ASSUME NEW p \in ProfileIds, p \notin contested'
       PROVE  UserOf("player", p)' = UserOf("player", p)
    <2>1. p # Null
        BY DEF MergeAssumption
    <2>2. Unique(merged', "player") /\ NoRef \notin DOMAIN merged'
        BY <1>2 DEF RowsStored
    <2>3. /\ \A i \in DOMAIN merged' : merged'[i].player = p => UserOf("player", p)' = i
          /\ \/ UserOf("player", p)' = NoRef /\ \A i \in DOMAIN merged' : merged'[i].player # p
             \/ UserOf("player", p)' \in DOMAIN merged' /\ merged'[UserOf("player", p)'].player = p
        BY <2>1, <2>2, PlayerLookup DEF UserOf
    <2>4. /\ \A i \in DOMAIN merged : merged[i].player = p => UserOf("player", p) = i
          /\ \/ UserOf("player", p) = NoRef /\ \A i \in DOMAIN merged : merged[i].player # p
             \/ UserOf("player", p) \in DOMAIN merged /\ merged[UserOf("player", p)].player = p
        BY <1>1, UserLookups
    <2>5. \A i \in DOMAIN merged : merged[i].player = p => i \in DOMAIN merged' /\ merged'[i].player = p
        BY <1>9, <1>13, <2>1
    <2>6. \A i \in DOMAIN merged' : merged'[i].player = p => i \in DOMAIN merged /\ merged[i].player = p
        BY <1>4, <1>13, <2>1
    <2> QED BY <2>3, <2>4, <2>5, <2>6
<1>14. Mirrored'
    <2>1. ASSUME NEW w \in DOMAIN webUsers' \ contested'
          PROVE  LET i == UserOf("web", w)'
                 IN  /\ i # NoRef /\ merged'[i].player = webUsers'[w].link
                     /\ merged'[i].steam = Coalesce(SteamOf(webUsers[w].link)', webUsers'[w].steam)
                           \/ webUsers'[w].link \in dirty'
        <3>1. /\ w \in DOMAIN webUsers \ contested /\ webUsers'[w] = webUsers[w] /\ w \in WebIds /\ w # Null
              /\ w \notin contested'
            BY <1>6, <1>8
        <3> DEFINE i == UserOf("web", w)
        <3>2. /\ i \in DOMAIN merged /\ merged[i].web = w /\ merged[i].player = webUsers[w].link
              /\ merged[i].steam = Coalesce(SteamOf(webUsers[w].link), webUsers[w].steam) \/ webUsers[w].link \in dirty
            BY <1>1, <3>1, PeacefulRows
        <3>3. merged'[i] = merged[i] /\ i # NoRef
            BY <1>1, <1>9, <3>1, <3>2, NoRefIsNone
        <3>4. UserOf("web", w)' = i
            BY <1>12, <3>1
        <3>5. SteamOf(webUsers[w].link)' = SteamOf(webUsers[w].link) /\ dirty \subseteq dirty'
            BY <1>2, <3>1 DEF SteamOf, WebStored
        <3> HIDE DEF i
        <3> QED BY <3>1, <3>2, <3>3, <3>4, <3>5
    <2>2. ASSUME NEW p \in DOMAIN profiles' \ contested', Linkers(p)' = {}
          PROVE  \E i \in DOMAIN merged' : merged'[i] = [web |-> Null, player |-> p, steam |-> profiles'[p].steam]
        <3>1. p \in DOMAIN profiles \ contested /\ p \in ProfileIds /\ p # Null /\ profiles' = profiles
              /\ p \notin contested'
            BY <1>1, <1>2, <1>5, LegacyRows DEF WebStored, MergeAssumption
        <3>2. Linkers(p) = {}
            BY <1>10, <2>2, <3>1
        <3>3. PICK i \in DOMAIN merged : merged[i] = [web |-> Null, player |-> p, steam |-> profiles[p].steam]
            BY <1>1, <3>1, <3>2 DEF Mirrored
        <3>4. i \in DOMAIN merged' /\ merged'[i] = merged[i]
            BY <1>9, <3>1, <3>3
        <3> QED BY <3>1, <3>3, <3>4
    <2> QED BY <2>1, <2>2, Zenon DEF Mirrored
<1>15. SteamOwned'
    <2>1. \A i \in DOMAIN merged' \ Written(t) : Tainted(i) => Tainted(i)'
        BY <1>4, <1>5 DEF Tainted
    <2>2. \A i \in DOMAIN merged' \cap Written(t) : Tainted(i)'
        BY <1>4 DEF Tainted
    <2>3. /\ \A w \in DOMAIN webUsers : w \in DOMAIN webUsers'
          /\ \A w \in DOMAIN webUsers : webUsers[w].steam # Null => webUsers'[w].steam = webUsers[w].steam
          /\ t.id \in DOMAIN webUsers' /\ webUsers'[t.id].steam = t.row.steam
          /\ profiles' = profiles
          /\ link = Null => t.seen = Null
          /\ link # Null => link \in DOMAIN profiles /\ t.seen \in {Null, profiles[link].steam}
          /\ link \in contested' \cup {Null}
        BY <1>2, <1>3 DEF WebStored, link
    <2>4. ASSUME NEW i \in DOMAIN merged', merged'[i].steam # Null
          PROVE  \/ \E w \in DOMAIN webUsers' :
                       /\ webUsers'[w].steam = merged'[i].steam
                       /\ merged'[i].web = w \/ (Tainted(i)' /\ w \in contested')
                 \/ \E p \in DOMAIN profiles' :
                       /\ profiles'[p].steam = merged'[i].steam
                       /\ merged'[i].player = p \/ (Tainted(i)' /\ p \in contested')
        <3>1. CASE i \notin Written(t)
            <4>1. i \in DOMAIN merged /\ merged'[i] = merged[i]
                BY <1>4, <3>1
            <4> QED BY <1>1, <1>5, <2>1, <2>3, <2>4, <3>1, <4>1 DEF SteamOwned
        <3>2. CASE i \in Written(t) /\ merged'[i].steam = t.row.steam
            BY <1>4, <2>3, <3>2
        <3>3. CASE i \in Written(t) /\ merged'[i].steam = t.seen
            BY <1>4, <2>2, <2>3, <2>4, <3>3
        <3>4. CASE i \in Written(t) /\ i \in DOMAIN merged /\ merged'[i].steam = merged[i].steam
            <4>1. merged[i].web \in contested' \cup {Null} /\ merged[i].player \in contested' \cup {Null}
                BY <1>4, <3>4
            <4>2. Null \notin DOMAIN webUsers /\ Null \notin DOMAIN profiles
                BY <1>1, LegacyRows DEF MergeAssumption
            <4> QED BY <1>1, <1>5, <2>2, <2>3, <2>4, <3>4, <4>1, <4>2 DEF SteamOwned
        <3> QED BY <1>4, <2>4, <3>1, <3>2, <3>3, <3>4
    <2> QED BY <2>4 DEF SteamOwned
<1>16. ReadsFit'
    <2>1. ASSUME NEW y \in Writers \ {x} PROVE ReadFits(writing[y])'
        <3>1. PICK u : u = writing[y] /\ u = writing'[y] /\ ReadFits(u)
            BY <1>1, <1>2 DEF ReadsFit, WebStored
        <3>2. \A i \in DOMAIN merged' : i # Fresh =>
                  /\ i \in DOMAIN merged
                  /\ Tainted(i)' \/ (i \notin Written(t) /\ merged'[i] = merged[i])
            BY <1>2, <1>4 DEF RowsStored, Tainted
        <3>3. \A i \in DOMAIN merged : i \in DOMAIN merged' =>
                  Tainted(i)' \/ (merged'[i] = merged[i] /\ ~Tainted(i))
            BY <1>4, <1>5 DEF Tainted
        <3>4. CASE u.kind = "web"
            <4>1. /\ u.id \in WebIds /\ u.row.link \in ProfileIds \cup {Null} /\ u.id # t.id
                  /\ Fresh # u.mine /\ Fresh # u.other
                BY <1>1, <1>2, <3>1, <3>4, Transactions DEF WebStored, RowsStored
            <4>2. u.id \notin contested' => u.mine = UserOf("web", u.id)'
                BY <1>5, <1>12, <3>1, <3>4, <4>1 DEF ReadFits
            <4>3. u.id \in contested' /\ u.mine \in DOMAIN merged' => Tainted(u.mine)'
                <5>1. SUFFICES ASSUME u.id \in contested', u.mine \in DOMAIN merged' PROVE Tainted(u.mine)'
                    OBVIOUS
                <5>2. u.mine \in DOMAIN merged
                    BY <3>2, <4>1, <5>1
                <5>3. CASE u.id \in contested
                    <6>1. Tainted(u.mine)
                        BY <3>1, <3>4, <5>2, <5>3 DEF ReadFits
                    <6> QED BY <3>3, <5>1, <5>2, <6>1
                <5>4. CASE u.id \notin contested
                    <6>1. u.mine = UserOf("web", u.id)
                        BY <3>1, <3>4, <5>4 DEF ReadFits
                    <6>2. merged[u.mine].web = u.id
                        BY <1>1, <4>1, <5>2, <6>1, UserLookups, NoRefIsNone
                    <6> QED BY <3>3, <5>1, <5>2, <6>2 DEF Tainted
                <5> QED BY <5>3, <5>4
            <4>4. u.row.link \notin contested' \cup {Null} =>
                      u.other = ByPlayer(u.row.link)' \/ Linkers(u.row.link)' \ {u.id} # {}
                <5>1. SUFFICES ASSUME u.row.link \notin contested' \cup {Null}
                               PROVE  u.other = ByPlayer(u.row.link)' \/ Linkers(u.row.link)' \ {u.id} # {}
                    OBVIOUS
                <5> DEFINE q == u.row.link
                <5>2. q \in ProfileIds \ contested' /\ q # Null /\ q \notin contested
                    BY <1>5, <4>1, <5>1
                <5>3. u.other = UserOf("player", q) \/ Linkers(q) \ {u.id} # {}
                    BY <3>1, <3>4, <5>2 DEF ReadFits, ByPlayer
                <5>4. Linkers(q)' = Linkers(q) /\ UserOf("player", q)' = UserOf("player", q)
                    BY <1>10, <1>13, <5>2
                <5>5. ByPlayer(q)' = UserOf("player", q)'
                    BY <5>2 DEF ByPlayer
                <5> QED BY <5>3, <5>4, <5>5
            <4>5. u.other \in DOMAIN merged' => merged'[u.other].player = u.row.link \/ Tainted(u.other)'
                <5>1. SUFFICES ASSUME u.other \in DOMAIN merged', ~Tainted(u.other)'
                               PROVE  merged'[u.other].player = u.row.link
                    OBVIOUS
                <5>2. u.other \in DOMAIN merged
                    BY <3>2, <4>1, <5>1
                <5>3. merged'[u.other] = merged[u.other] /\ ~Tainted(u.other)
                    BY <3>3, <5>1, <5>2
                <5> QED BY <3>1, <3>4, <5>2, <5>3 DEF ReadFits
            <4>6. u.kind # "player"
                BY <3>4
            <4> QED BY <3>1, <4>2, <4>3, <4>4, <4>5, <4>6 DEF ReadFits, Tainted, Linkers, UserOf, ByPlayer
        <3>5. CASE u.kind = "player"
            <4>1. u.id \in ProfileIds /\ u.id # Null /\ Fresh # u.mine
                BY <1>1, <1>2, <3>1, <3>5, Transactions DEF RowsStored, MergeAssumption
            <4>2. ASSUME u.id \notin contested', u.mine # NoRef
                  PROVE  \E w \in Linkers(u.id)' : u.mine = UserOf("web", w)'
                <5>1. PICK w \in Linkers(u.id) : u.mine = UserOf("web", w)
                    BY <1>5, <3>1, <3>5, <4>2 DEF ReadFits
                <5>2. Linkers(u.id)' = Linkers(u.id)
                    BY <1>10, <4>1, <4>2
                <5>3. w \in DOMAIN webUsers' /\ webUsers'[w].link = u.id
                    BY <5>1, <5>2 DEF Linkers
                <5>4. w \notin contested'
                    BY <1>7, <4>1, <4>2, <5>3
                <5>5. w \in WebIds
                    BY <1>8, <5>3, <5>4
                <5> QED BY <1>12, <5>1, <5>2, <5>4, <5>5
            <4>3. u.id \in contested' /\ u.mine \in DOMAIN merged' => Tainted(u.mine)'
                <5>1. SUFFICES ASSUME u.id \in contested', u.mine \in DOMAIN merged' PROVE Tainted(u.mine)'
                    OBVIOUS
                <5>2. u.mine \in DOMAIN merged
                    BY <3>2, <4>1, <5>1
                <5>3. CASE u.id \in contested
                    <6>1. Tainted(u.mine)
                        BY <3>1, <3>5, <5>2, <5>3 DEF ReadFits
                    <6> QED BY <3>3, <5>1, <5>2, <6>1
                <5>4. CASE u.id \notin contested
                    <6>1. PICK w \in Linkers(u.id) : u.mine = UserOf("web", w)
                        BY <1>1, <3>1, <3>5, <5>2, <5>4, NoRefIsNone DEF ReadFits
                    <6>2. w \in DOMAIN webUsers /\ webUsers[w].link = u.id
                        BY <6>1 DEF Linkers
                    <6>3. w \notin contested
                        BY <1>6, <4>1, <5>4, <6>2
                    <6>4. merged[u.mine].player = u.id
                        BY <1>1, <6>1, <6>2, <6>3, PeacefulRows
                    <6> QED BY <3>3, <5>1, <5>2, <6>4 DEF Tainted
                <5> QED BY <5>3, <5>4
            <4>4. u.kind # "web"
                BY <3>5
            <4> QED BY <3>1, <4>2, <4>3, <4>4 DEF ReadFits, Tainted, Linkers, UserOf
        <3>6. CASE u.kind \notin {"web", "player"}
            BY <3>1, <3>6 DEF ReadFits
        <3> QED BY <3>4, <3>5, <3>6
    <2>2. ReadFits(writing[x])'
        BY <1>2, QuietIs DEF WebStored, ReadFits
    <2> QED BY <2>1, <2>2 DEF ReadsFit
<1>17. Referred'
    <2>1. ASSUME NEW p \in ProfileIds, resultUser'[p] \notin {Absent, NoRef}
          PROVE  resultUser'[p] \in DOMAIN merged' /\ (p \notin contested' => merged'[resultUser'[p]].player = p)
        <3>1. resultUser'[p] \in DOMAIN merged /\ (p \notin contested => merged[resultUser'[p]].player = p)
              /\ resultUser'[p] \in DOMAIN merged'
            BY <1>1, <1>2, <2>1 DEF Referred, RowsStored
        <3>2. p # Null
            BY DEF MergeAssumption
        <3> QED BY <1>5, <1>9, <3>1, <3>2
    <2>2. ASSUME NEW w \in WebIds, lobbyUser'[w] \notin {Absent, Gone, NoRef}
          PROVE  lobbyUser'[w] \in DOMAIN merged' /\ (w \notin contested' => merged'[lobbyUser'[w]].web = w)
        <3>1. lobbyUser'[w] = lobbyUser[w] /\ lobbyUser[w] \in DOMAIN merged' /\ lobbyUser[w] \in DOMAIN merged
              /\ (w \notin contested => merged[lobbyUser[w]].web = w)
            BY <1>1, <1>2, <2>2 DEF Referred, RowsStored
        <3>2. w # Null
            BY DEF MergeAssumption
        <3> QED BY <1>5, <1>9, <3>1, <3>2
    <2>3. ASSUME NEW w \in WebIds, lobbyUser'[w] = Gone PROVE w \in contested'
        <3>1. CASE lobbyUser[w] = Gone
            BY <1>1, <1>5, <3>1 DEF Referred
        <3>2. CASE lobbyUser[w] # Gone
            <4>1. lobbyUser[w] \in DOMAIN merged \ DOMAIN merged' /\ w # Null
                BY <1>2, <2>3, <3>2 DEF RowsStored, MergeAssumption
            <4>2. w \notin contested => merged[lobbyUser[w]].web = w
                BY <1>1, <4>1, NumbersAreNone DEF Referred
            <4> QED BY <1>4, <1>5, <4>1, <4>2
        <3> QED BY <3>1, <3>2
    <2> QED BY <2>1, <2>2, <2>3 DEF Referred
<1> QED BY <1>11, <1>14, <1>15, <1>16, <1>17 DEF MirrorFits

\* Where nobody contests a link its trigger has read the rows of its identities, and leaves
\* one row of the two.
PeacefulWeb(t, rows, j) ==
    /\ rows[j].web = t.id /\ rows[j].player = t.row.link
    /\ \A i \in DOMAIN rows \ {j} :
          /\ i \in DOMAIN merged /\ rows[i] = merged[i] /\ merged[i].web # t.id
          /\ t.row.link # Null => merged[i].player # t.row.link
    /\ \A i \in DOMAIN merged \ {j} :
          i \notin DOMAIN rows => merged[i].web = Null /\ merged[i].player = t.row.link /\ t.row.link # Null
    /\ j \in DOMAIN merged =>
          /\ merged[j].web \in {Null, t.id} /\ merged[j].player \in {Null, t.row.link} /\ ~Tainted(j)
          /\ merged[j].web = t.id \/ (merged[j].player = t.row.link /\ t.row.link # Null)
    /\ j \notin DOMAIN merged => j = Fresh
    /\ rows[j].steam = Coalesce(t.seen, Coalesce(t.row.steam, IF j \in DOMAIN merged THEN merged[j].steam ELSE Null))
    /\ t.mine = UserOf("web", t.id)
    /\ IF t.mine # NoRef THEN j = t.mine /\ j \in DOMAIN merged
                         ELSE t.id \notin DOMAIN webUsers /\ \A i \in DOMAIN merged : merged[i].web # t.id

\* Each case of the web trigger leaves it so.
LEMMA PeacefulAfterWeb ==
    ASSUME MergeAssumption, MergeTypeOK, LegacyFits, RowsFit, Mirrored, NEW x \in Writers, writing[x].kind = "web",
           ReadFits(writing[x]), FlightFits(writing[x]), Contenders(writing[x]) = {}
    PROVE  \E j \in DOMAIN AfterWeb(writing[x]) : PeacefulWeb(writing[x], AfterWeb(writing[x]), j)
<1> DEFINE t == writing[x]
           link == t.row.link
           before == IF t.id \in DOMAIN webUsers THEN webUsers[t.id].link ELSE Null
           rows == AfterWeb(t)
<1>1. /\ t.id \in WebIds /\ t.id # Null /\ link \in ProfileIds \cup {Null} /\ t.kind = "web"
      /\ link \notin WebIds /\ Null \notin contested
    BY Transactions, PeacefulRows DEF MergeAssumption
<1>2. /\ (link # Null => Linkers(link) \ {t.id} = {}) /\ before \in {Null, link}
      /\ t.id \notin contested /\ link \notin contested /\ before \notin contested
    BY <1>1, ContendersAre
<1>3. t.mine = UserOf("web", t.id)
    BY <1>1, <1>2 DEF ReadFits
<1>4. /\ link = Null => t.other = NoRef
      /\ link # Null => t.other = UserOf("player", link) /\ link \in DOMAIN profiles \ contested
    BY <1>1, <1>2 DEF ReadFits, FlightFits, ByPlayer
<1>5. t.id \in DOMAIN webUsers => t.mine # NoRef /\ t.mine \in DOMAIN merged /\ merged[t.mine].player = before
    BY <1>1, <1>2, <1>3, PeacefulRows, NoRefIsNone
<1>6. t.mine # NoRef => /\ t.mine \in DOMAIN merged /\ merged[t.mine].web = t.id /\ t.id \in DOMAIN webUsers
                        /\ merged[t.mine].player = before
    <2>1. t.mine # NoRef => t.mine \in DOMAIN merged /\ merged[t.mine].web = t.id
        BY <1>1, <1>3, UserLookups
    <2> QED BY <1>1, <1>5, <2>1 DEF RowsFit
<1>7. /\ \A i \in DOMAIN merged : merged[i].web = t.id => i = t.mine
      /\ link # Null => \A i \in DOMAIN merged : merged[i].player = link => i = t.other
      /\ link # Null => t.other \in DOMAIN merged /\ merged[t.other].player = link
    BY <1>1, <1>3, <1>4, UserLookups, PeacefulRows
<1>8. link # Null /\ before # link => merged[t.other].web = Null
    <2>1. SUFFICES ASSUME link # Null, before # link PROVE merged[t.other].web = Null
        OBVIOUS
    <2>2. t.id \notin Linkers(link)
        BY <2>1 DEF Linkers, before
    <2> QED BY <1>2, <1>4, <2>1, <2>2, PeacefulRows
<1>9. /\ NoRef \notin DOMAIN merged /\ Fresh \notin DOMAIN merged /\ Fresh # NoRef
      /\ merged \in [DOMAIN merged -> UserRow] /\ \A i \in DOMAIN merged : merged[i] \in UserRow
    BY NoRefIsNone, FreshIsNew DEF MergeTypeOK, Partial, RowsFit, UserNumbers, NoRef
<1>10. \A row : /\ Joined(row, t).web = t.id /\ Joined(row, t).player = link
                /\ Joined(row, t).steam = Coalesce(t.seen, Coalesce(t.row.steam, row.steam))
    BY DEF Joined
<1> HIDE DEF t, link, before
<1>11. CASE t.mine # NoRef
    <2>1. rows = KeepOwn(t)
        BY <1>11 DEF AfterWeb
    <2>2. PICK rest : /\ rest = IF t.other \in {NoRef, t.mine} THEN merged ELSE Drop(merged, t.other)
                      /\ rows = IF t.mine \in DOMAIN rest THEN [rest EXCEPT ![t.mine] = Joined(@, t)] ELSE rest
        BY <2>1 DEF KeepOwn
    <2> DEFINE gone == IF t.other \in {NoRef, t.mine} THEN {} ELSE {t.other}
    <2>3. /\ DOMAIN rest = DOMAIN merged \ gone /\ rest = [i \in DOMAIN rest |-> merged[i]] /\ t.mine \in DOMAIN rest
        BY <1>6, <1>9, <1>11, <2>2 DEF Drop, Restrict
    <2> HIDE DEF rows, gone
    <2>4. /\ DOMAIN rows = DOMAIN merged \ gone /\ rows[t.mine] = Joined(merged[t.mine], t)
          /\ \A i \in DOMAIN rows \ {t.mine} : rows[i] = merged[i]
        BY <2>2, <2>3
    <2>5. \A i \in gone : i = t.other /\ i # t.mine /\ link # Null /\ merged[i].web = Null /\ merged[i].player = link
        <3>1. ASSUME NEW i \in gone PROVE i = t.other /\ i # t.mine /\ i # NoRef
            BY DEF gone
        <3>2. gone # {} => link # Null
            BY <1>4, <3>1 DEF t, link
        <3>3. gone # {} => before # link
            <4>1. link # Null /\ before = link => t.mine = t.other
                BY <1>6, <1>7, <1>11
            <4> QED BY <3>1, <3>2, <4>1
        <3> QED BY <1>7, <1>8, <3>1, <3>2, <3>3
    <2>6. link # Null => \A i \in DOMAIN rows \ {t.mine} : merged[i].player # link
        BY <1>4, <1>7, <1>9, <2>4 DEF gone
    <2>7. ~Tainted(t.mine)
        BY <1>2, <1>6, <1>11 DEF Tainted
    <2>8. t.mine \in DOMAIN rows
        BY <2>3, <2>4
    <2>9. PeacefulWeb(t, rows, t.mine)
        BY <1>2, <1>3, <1>6, <1>7, <1>10, <1>11, <2>4, <2>5, <2>6, <2>7 DEF PeacefulWeb, link
    <2> QED BY <2>8, <2>9 DEF t, rows
<1>12. CASE t.mine = NoRef /\ t.other # NoRef
    <2>1. link # Null /\ t.other \in DOMAIN merged /\ merged[t.other].player = link
        BY <1>4, <1>7, <1>12
    <2>2. t.id \notin DOMAIN webUsers /\ before = Null
        BY <1>5, <1>12 DEF before
    <2>3. merged[t.other].web = Null
        BY <1>8, <2>1, <2>2
    <2> DEFINE new == [Joined(merged[t.other], t) EXCEPT !.player = merged[t.other].player]
    <2>4. rows = [merged EXCEPT ![t.other] = new]
        BY <1>12, <2>1 DEF AfterWeb, TakeIn
    <2>5. new.web = t.id /\ new.player = link
          /\ new.steam = Coalesce(t.seen, Coalesce(t.row.steam, merged[t.other].steam))
        BY <2>1 DEF Joined, link
    <2> HIDE DEF rows, new
    <2>6. /\ DOMAIN rows = DOMAIN merged /\ rows[t.other] = new
          /\ \A i \in DOMAIN merged \ {t.other} : rows[i] = merged[i]
        BY <1>9, <2>1, <2>4
    <2>7. ~Tainted(t.other)
        BY <1>1, <1>2, <2>1, <2>3 DEF Tainted
    <2>8. \A i \in DOMAIN merged : merged[i].web # t.id
        BY <1>7, <1>9, <1>12
    <2>9. PeacefulWeb(t, rows, t.other)
        BY <1>3, <1>7, <1>12, <2>1, <2>2, <2>3, <2>5, <2>6, <2>7, <2>8 DEF PeacefulWeb, link
    <2> QED BY <2>1, <2>6, <2>9 DEF t, rows
<1>13. CASE t.mine = NoRef /\ t.other = NoRef
    <2>1. link = Null
        BY <1>7, <1>9, <1>13
    <2>2. t.id \notin DOMAIN webUsers
        BY <1>5, <1>13
    <2> DEFINE new == Joined([steam |-> Null], t)
    <2>3. rows = Set(merged, Fresh, new)
        BY <1>13 DEF AfterWeb, AddRow
    <2>4. new.web = t.id /\ new.player = link /\ new.steam = Coalesce(t.seen, Coalesce(t.row.steam, Null))
        BY <1>10
    <2> HIDE DEF rows, new
    <2>5. /\ DOMAIN rows = DOMAIN merged \cup {Fresh} /\ rows[Fresh] = new
          /\ \A i \in DOMAIN merged : rows[i] = merged[i]
        BY <1>9, <2>3 DEF Set
    <2>6. \A i \in DOMAIN merged : merged[i].web # t.id
        BY <1>7, <1>9, <1>13
    <2>7. PeacefulWeb(t, rows, Fresh)
        BY <1>3, <1>9, <1>13, <2>1, <2>2, <2>4, <2>5, <2>6 DEF PeacefulWeb, link
    <2> QED BY <2>5, <2>7 DEF t, rows
<1> QED BY <1>11, <1>12, <1>13

\* The invariant after such a commit: everyone else's rows are as they were.
LEMMA PeacefulWebInv ==
    ASSUME MergeAssumption, MergeInv, Mirroring, NEW x \in Writers, WebEnds(x), Contenders(writing[x]) = {},
           MergeTypeOK'
    PROVE  MirrorFits' /\ Referred'
<1> DEFINE t == writing[x]
           link == t.row.link
           before == IF t.id \in DOMAIN webUsers THEN webUsers[t.id].link ELSE Null
<1>1. /\ MergeTypeOK /\ LegacyFits /\ RowsFit /\ SteamOwned /\ Mirrored /\ ReadsFit /\ Referred /\ t.kind = "web"
      /\ ReadFits(t) /\ FlightsFit /\ FlightFits(t)
    BY DEF MergeInv, MirrorFits, WebEnds, ReadsFit, FlightsFit
<1>2. WebStored(x, t) /\ RowsStored(t)
    BY WebIsStored, RowsAreStored
<1>3. /\ (link # Null => Linkers(link) \ {t.id} = {}) /\ before \in {Null, link}
      /\ t.id \notin contested /\ link \notin contested /\ before \notin contested /\ Null \notin contested
    BY <1>1, ContendersAre, PeacefulRows
<1>4. PICK j \in DOMAIN merged' : PeacefulWeb(t, merged', j)
    <2>1. merged' = AfterWeb(t)
        BY <1>1, <1>2 DEF RowsStored, After
    <2>2. \E j \in DOMAIN AfterWeb(t) : PeacefulWeb(t, AfterWeb(t), j)
        BY <1>1, PeacefulAfterWeb
    <2> HIDE DEF t
    <2> QED BY <2>1, <2>2
<1> HIDE DEF t, link, before
<1>5. /\ contested' = contested /\ profiles' = profiles /\ resultUser' = resultUser
      /\ t.id \in WebIds /\ t.id # Null /\ link \in ProfileIds \cup {Null}
      /\ link # Null => link \in DOMAIN profiles /\ t.seen \in {Null, profiles[link].steam}
      /\ link = Null => t.seen = Null
      /\ NoRef \notin DOMAIN merged /\ NoRef \notin DOMAIN merged'
    BY <1>1, <1>2, NoRefIsNone DEF WebStored, RowsStored, t, link
<1>6. /\ merged'[j].web = t.id /\ merged'[j].player = link
      /\ \A i \in DOMAIN merged' \ {j} : i \in DOMAIN merged /\ merged'[i] = merged[i] /\ merged[i].web # t.id
      /\ \A i \in DOMAIN merged' \ {j} : link # Null => merged[i].player # link
      /\ \A i \in DOMAIN merged \ {j} :
            i \notin DOMAIN merged' => merged[i].web = Null /\ merged[i].player = link /\ link # Null
      /\ j \in DOMAIN merged =>
            /\ merged[j].web \in {Null, t.id} /\ merged[j].player \in {Null, link} /\ ~Tainted(j)
            /\ merged[j].web = t.id \/ (merged[j].player = link /\ link # Null)
      /\ j \notin DOMAIN merged => j = Fresh
      /\ merged'[j].steam = Coalesce(t.seen, Coalesce(t.row.steam, IF j \in DOMAIN merged THEN merged[j].steam ELSE Null))
      /\ t.mine = UserOf("web", t.id)
      /\ t.mine # NoRef => j = t.mine /\ j \in DOMAIN merged
      /\ t.mine = NoRef => t.id \notin DOMAIN webUsers /\ \A i \in DOMAIN merged : merged[i].web # t.id
    BY <1>4 DEF PeacefulWeb, link
<1>7. \A w \in DOMAIN webUsers' : /\ w \in WebIds /\ w # Null
                                  /\ w # t.id => w \in DOMAIN webUsers /\ webUsers'[w] = webUsers[w]
                                  /\ w = t.id => webUsers'[w].link = link /\ webUsers'[w].steam = t.row.steam
    BY <1>1, <1>2, LegacyRows DEF WebStored, link, MergeAssumption
<1>8. \A p : Linkers(p)' = (Linkers(p) \ {t.id}) \cup (IF link = p THEN {t.id} ELSE {})
    BY <1>2 DEF WebStored, link
<1>9. ASSUME NEW p \in ProfileIds, p # link PROVE Linkers(p)' = Linkers(p) /\ t.id \notin Linkers(p)
    <2>1. p # Null
        BY DEF MergeAssumption
    <2>2. t.id \notin Linkers(p)
        BY <1>3, <1>9, <2>1 DEF before, Linkers
    <2> QED BY <1>8, <1>9, <2>2
<1>10. ASSUME NEW w \in WebIds PROVE UserOf("web", w)' = IF w = t.id THEN j ELSE UserOf("web", w)
    <2>1. w # Null
        BY DEF MergeAssumption
    <2>2. Unique(merged', "web")
        BY <1>2 DEF RowsStored
    <2>3. /\ \A i \in DOMAIN merged' : merged'[i].web = w => UserOf("web", w)' = i
          /\ \/ UserOf("web", w)' = NoRef /\ \A i \in DOMAIN merged' : merged'[i].web # w
             \/ UserOf("web", w)' \in DOMAIN merged' /\ merged'[UserOf("web", w)'].web = w
        BY <1>5, <2>1, <2>2, WebLookup DEF UserOf
    <2>4. /\ \A i \in DOMAIN merged : merged[i].web = w => UserOf("web", w) = i
          /\ \/ UserOf("web", w) = NoRef /\ \A i \in DOMAIN merged : merged[i].web # w
             \/ UserOf("web", w) \in DOMAIN merged /\ merged[UserOf("web", w)].web = w
        BY <1>1, UserLookups
    <2>5. CASE w = t.id
        BY <1>6, <2>3, <2>5
    <2>6. CASE w # t.id
        <3>1. \A i : i \in DOMAIN merged /\ merged[i].web = w <=> i \in DOMAIN merged' /\ merged'[i].web = w
            BY <1>6, <2>1, <2>6
        <3> QED BY <2>3, <2>4, <2>6, <3>1
    <2> QED BY <2>5, <2>6
<1>11. ASSUME NEW p \in ProfileIds, p # link PROVE UserOf("player", p)' = UserOf("player", p)
    <2>1. p # Null
        BY DEF MergeAssumption
    <2>2. Unique(merged', "player")
        BY <1>2 DEF RowsStored
    <2>3. /\ \A i \in DOMAIN merged' : merged'[i].player = p => UserOf("player", p)' = i
          /\ \/ UserOf("player", p)' = NoRef /\ \A i \in DOMAIN merged' : merged'[i].player # p
             \/ UserOf("player", p)' \in DOMAIN merged' /\ merged'[UserOf("player", p)'].player = p
        BY <1>5, <2>1, <2>2, PlayerLookup DEF UserOf
    <2>4. /\ \A i \in DOMAIN merged : merged[i].player = p => UserOf("player", p) = i
          /\ \/ UserOf("player", p) = NoRef /\ \A i \in DOMAIN merged : merged[i].player # p
             \/ UserOf("player", p) \in DOMAIN merged /\ merged[UserOf("player", p)].player = p
        BY <1>1, UserLookups
    <2>5. \A i : i \in DOMAIN merged /\ merged[i].player = p <=> i \in DOMAIN merged' /\ merged'[i].player = p
        BY <1>6, <1>11, <2>1
    <2> QED BY <2>3, <2>4, <2>5
<1>12. RowsFit'
    <2>1. ASSUME NEW i \in DOMAIN merged'
          PROVE  merged'[i].web \in DOMAIN webUsers' \cup {Null} /\ merged'[i].player \in DOMAIN profiles' \cup {Null}
        <3>1. t.id \in DOMAIN webUsers' /\ DOMAIN webUsers \subseteq DOMAIN webUsers'
            BY <1>2 DEF WebStored
        <3> QED BY <1>1, <1>5, <1>6, <3>1 DEF RowsFit
    <2>2. contested' \subseteq DOMAIN webUsers' \cup DOMAIN profiles'
        BY <1>1, <1>2, <1>5 DEF RowsFit, WebStored
    <2>3. \A w \in DOMAIN webUsers' : webUsers'[w].link # Null =>
              (w \in contested' <=> webUsers'[w].link \in contested')
        BY <1>1, <1>3, <1>5, <1>7 DEF RowsFit
    <2>4. ASSUME NEW p \in ProfileIds \ contested' PROVE \A v, w \in Linkers(p)' : v = w
        <3>1. CASE p = link
            <4>1. Linkers(p)' \subseteq {t.id}
                BY <1>3, <1>5, <1>8, <3>1 DEF MergeAssumption
            <4> QED BY <4>1
        <3>2. CASE p # link
            BY <1>1, <1>5, <1>9, <3>2 DEF RowsFit
        <3> QED BY <3>1, <3>2
    <2> QED BY <1>2, <2>1, <2>2, <2>3, <2>4 DEF RowsFit, RowsStored
<1>13. link \notin dirty' => merged'[j].steam = Coalesce(SteamOf(link), t.row.steam)
    <2>1. SUFFICES ASSUME link \notin dirty' PROVE merged'[j].steam = Coalesce(SteamOf(link), t.row.steam)
        OBVIOUS
    <2>2. SteamOf(link) = t.seen /\ link \notin dirty
        BY <1>2, <2>1 DEF WebStored, link
    <2>3. CASE t.seen # Null \/ t.row.steam # Null \/ j \notin DOMAIN merged
        BY <1>6, <2>2, <2>3 DEF Coalesce
    <2>4. CASE t.seen = Null /\ t.row.steam = Null /\ j \in DOMAIN merged
        <3>1. CASE merged[j].web = t.id
            <4>1. t.id \in DOMAIN webUsers /\ j = UserOf("web", t.id)
                BY <1>1, <1>5, <1>6, <2>4, <3>1 DEF RowsFit
            <4>2. merged[j].steam = Coalesce(SteamOf(before), webUsers[t.id].steam) \/ before \in dirty
                BY <1>1, <1>3, <4>1, PeacefulRows DEF before
            <4>3. before \notin dirty
                <5>1. Null \notin dirty
                    BY <1>1 DEF MergeTypeOK, MergeAssumption
                <5> QED BY <1>3, <2>2, <5>1
            <4>4. SteamOf(before) = Null
                BY <1>3, <2>2, <2>4 DEF SteamOf
            <4>5. webUsers[t.id].steam = Null
                BY <1>2, <1>7, <2>4, <4>1 DEF WebStored
            <4>6. merged[j].steam = Null
                BY <4>2, <4>3, <4>4, <4>5 DEF Coalesce
            <4> QED BY <1>6, <2>2, <2>4, <4>6 DEF Coalesce
        <3>2. CASE merged[j].web # t.id
            <4>1. /\ merged[j].web = Null /\ merged[j].player = link /\ link # Null /\ t.id \notin DOMAIN webUsers
                BY <1>1, <1>5, <1>6, <2>4, <3>2, UserLookups
            <4>2. j = UserOf("player", link) /\ link \in DOMAIN profiles \ contested
                BY <1>1, <1>3, <1>5, <2>4, <4>1, UserLookups
            <4>3. Linkers(link) = {}
                BY <1>3, <4>1 DEF Linkers
            <4>4. merged[j].steam = profiles[link].steam
                BY <1>1, <4>2, <4>3, PeacefulRows
            <4>5. profiles[link].steam = Null
                BY <2>2, <2>4, <4>1 DEF SteamOf
            <4> QED BY <1>6, <2>2, <2>4, <4>4, <4>5 DEF Coalesce
        <3> QED BY <3>1, <3>2
    <2> QED BY <2>3, <2>4
<1>14. Mirrored'
    <2>1. ASSUME NEW w \in DOMAIN webUsers' \ contested'
          PROVE  LET i == UserOf("web", w)'
                 IN  /\ i # NoRef /\ merged'[i].player = webUsers'[w].link
                     /\ merged'[i].steam = Coalesce(SteamOf(webUsers[w].link)', webUsers'[w].steam)
                           \/ webUsers'[w].link \in dirty'
        <3>1. CASE w = t.id
            <4>1. UserOf("web", w)' = j /\ webUsers'[w].link = link /\ webUsers'[w].steam = t.row.steam
                BY <1>5, <1>7, <1>10, <3>1
            <4>2. SteamOf(webUsers[w].link)' = SteamOf(link)
                BY <1>5, <4>1 DEF SteamOf
            <4> QED BY <1>5, <1>6, <1>13, <4>1, <4>2
        <3>2. CASE w # t.id
            <4> DEFINE i == UserOf("web", w)
            <4>1. /\ w \in DOMAIN webUsers \ contested /\ webUsers'[w] = webUsers[w] /\ w \in WebIds /\ w # Null
                BY <1>5, <1>7, <3>2
            <4>2. /\ i \in DOMAIN merged /\ merged[i].web = w /\ merged[i].player = webUsers[w].link
                  /\ merged[i].steam = Coalesce(SteamOf(webUsers[w].link), webUsers[w].steam) \/ webUsers[w].link \in dirty
                BY <1>1, <4>1, PeacefulRows
            <4>3. i \in DOMAIN merged' /\ merged'[i] = merged[i] /\ i # NoRef
                BY <1>5, <1>6, <3>2, <4>1, <4>2
            <4>4. UserOf("web", w)' = i
                BY <1>10, <3>2, <4>1
            <4>5. SteamOf(webUsers[w].link)' = SteamOf(webUsers[w].link) /\ dirty \subseteq dirty'
                BY <1>2, <4>1 DEF SteamOf, WebStored
            <4> HIDE DEF i
            <4> QED BY <4>1, <4>2, <4>3, <4>4, <4>5
        <3> QED BY <3>1, <3>2
    <2>2. ASSUME NEW p \in DOMAIN profiles' \ contested', Linkers(p)' = {}
          PROVE  \E i \in DOMAIN merged' : merged'[i] = [web |-> Null, player |-> p, steam |-> profiles'[p].steam]
        <3>1. p \in DOMAIN profiles \ contested /\ p \in ProfileIds /\ p # Null
            BY <1>1, <1>5, LegacyRows DEF MergeAssumption
        <3>2. p # link
            BY <1>8, <2>2
        <3>3. PICK i \in DOMAIN merged : merged[i] = [web |-> Null, player |-> p, steam |-> profiles[p].steam]
            BY <1>1, <1>9, <2>2, <3>1, <3>2 DEF Mirrored
        <3>4. i # j /\ i \in DOMAIN merged'
            BY <1>6, <3>1, <3>2, <3>3
        <3> QED BY <1>5, <1>6, <3>3, <3>4
    <2> QED BY <2>1, <2>2, Zenon DEF Mirrored
<1>15. \A i \in DOMAIN merged' \ {j} : Tainted(i)' <=> Tainted(i)
    BY <1>5, <1>6 DEF Tainted
<1>16. SteamOwned'
    <2>1. /\ DOMAIN webUsers \subseteq DOMAIN webUsers' /\ t.id \in DOMAIN webUsers'
          /\ \A w \in DOMAIN webUsers : webUsers[w].steam # Null => webUsers'[w].steam = webUsers[w].steam
        BY <1>2 DEF WebStored
    <2>2. ASSUME NEW i \in DOMAIN merged', merged'[i].steam # Null
          PROVE  \/ \E w \in DOMAIN webUsers' :
                       /\ webUsers'[w].steam = merged'[i].steam
                       /\ merged'[i].web = w \/ (Tainted(i)' /\ w \in contested')
                 \/ \E p \in DOMAIN profiles' :
                       /\ profiles'[p].steam = merged'[i].steam
                       /\ merged'[i].player = p \/ (Tainted(i)' /\ p \in contested')
        <3>1. CASE i # j
            <4>1. i \in DOMAIN merged /\ merged'[i] = merged[i] /\ (Tainted(i)' <=> Tainted(i))
                BY <1>6, <1>15, <3>1
            <4> QED BY <1>1, <1>5, <2>1, <2>2, <4>1 DEF SteamOwned
        <3>2. CASE i = j /\ merged'[j].steam = t.seen
            BY <1>5, <1>6, <2>2, <3>2
        <3>3. CASE i = j /\ merged'[j].steam = t.row.steam
            BY <1>6, <1>7, <2>1, <3>3
        <3>4. CASE i = j /\ j \in DOMAIN merged /\ merged'[j].steam = merged[j].steam
            <4>1. \/ \E w \in DOMAIN webUsers : webUsers[w].steam = merged[j].steam /\ merged[j].web = w
                  \/ \E p \in DOMAIN profiles : profiles[p].steam = merged[j].steam /\ merged[j].player = p
                BY <1>1, <1>6, <2>2, <3>4 DEF SteamOwned
            <4>2. Null \notin DOMAIN webUsers /\ Null \notin DOMAIN profiles
                BY <1>1, LegacyRows DEF MergeAssumption
            <4> QED BY <1>5, <1>6, <2>1, <2>2, <3>4, <4>1, <4>2
        <3>5. merged'[j].steam \in {Null, t.seen, t.row.steam} \/ (j \in DOMAIN merged /\ merged'[j].steam = merged[j].steam)
            BY <1>6 DEF Coalesce
        <3> QED BY <2>2, <3>1, <3>2, <3>3, <3>4, <3>5
    <2> QED BY <2>2 DEF SteamOwned
<1>17. ReadsFit'
    <2>1. ASSUME NEW y \in Writers \ {x} PROVE ReadFits(writing[y])'
        <3>1. PICK u : u = writing[y] /\ u = writing'[y] /\ ReadFits(u) /\ FlightFits(u)
            BY <1>1, <1>2 DEF ReadsFit, FlightsFit, WebStored
        <3>2. ASSUME NEW i \in DOMAIN merged', i # Fresh
              PROVE  /\ i \in DOMAIN merged /\ (Tainted(i) => Tainted(i)')
                     /\ merged[i].player \notin {Null, merged'[i].player} => i = j
                     /\ i = j => merged[i].player \in {Null, link} /\ ~Tainted(i)
            BY <1>6, <1>15, <3>2
        <3>3. CASE u.kind = "web"
            <4>1. /\ u.id \in WebIds /\ u.row.link \in ProfileIds \cup {Null} /\ u.id # t.id
                  /\ Fresh # u.mine /\ Fresh # u.other
                BY <1>1, <1>2, <3>1, <3>3, Transactions DEF WebStored, RowsStored
            <4>2. u.id \notin contested' => u.mine = UserOf("web", u.id)'
                BY <1>5, <1>10, <3>1, <3>3, <4>1 DEF ReadFits
            <4>3. u.id \in contested' /\ u.mine \in DOMAIN merged' => Tainted(u.mine)'
                BY <1>5, <3>1, <3>2, <3>3, <4>1 DEF ReadFits
            <4>4. u.row.link \notin contested' \cup {Null} =>
                      u.other = ByPlayer(u.row.link)' \/ Linkers(u.row.link)' \ {u.id} # {}
                <5>1. SUFFICES ASSUME u.row.link \notin contested' \cup {Null}
                               PROVE  u.other = ByPlayer(u.row.link)' \/ Linkers(u.row.link)' \ {u.id} # {}
                    OBVIOUS
                <5> DEFINE q == u.row.link
                <5>2. q \in ProfileIds /\ q # Null /\ q \notin contested
                    BY <1>5, <4>1, <5>1
                <5>3. u.other = UserOf("player", q) \/ Linkers(q) \ {u.id} # {}
                    BY <3>1, <3>3, <5>2 DEF ReadFits, ByPlayer
                <5>4. CASE q = link
                    <6>1. t.id \in Linkers(q)'
                        BY <1>8, <5>4
                    <6> QED BY <4>1, <6>1
                <5>5. CASE q # link
                    <6>1. Linkers(q)' = Linkers(q) /\ UserOf("player", q)' = UserOf("player", q)
                        BY <1>9, <1>11, <5>2, <5>5
                    <6>2. ByPlayer(q)' = UserOf("player", q)'
                        BY <5>2 DEF ByPlayer
                    <6> QED BY <5>3, <6>1, <6>2
                <5> QED BY <5>4, <5>5
            <4>5. u.other \in DOMAIN merged' => merged'[u.other].player = u.row.link \/ Tainted(u.other)'
                <5>1. SUFFICES ASSUME u.other \in DOMAIN merged', ~Tainted(u.other)'
                               PROVE  merged'[u.other].player = u.row.link
                    OBVIOUS
                <5>2. u.other \in DOMAIN merged /\ ~Tainted(u.other)
                    BY <3>2, <4>1, <5>1
                <5>3. merged[u.other].player = u.row.link
                    BY <3>1, <3>3, <5>2 DEF ReadFits
                <5>4. u.row.link # Null
                    BY <1>5, <3>1, <3>3, <5>2 DEF FlightFits
                <5>5. CASE u.other = j
                    BY <1>6, <5>2, <5>3, <5>4, <5>5
                <5>6. CASE u.other # j
                    BY <1>6, <5>1, <5>3, <5>6
                <5> QED BY <5>5, <5>6
            <4>6. u.kind # "player"
                BY <3>3
            <4> QED BY <3>1, <4>2, <4>3, <4>4, <4>5, <4>6 DEF ReadFits, Tainted, Linkers, UserOf, ByPlayer
        <3>4. CASE u.kind = "player"
            <4>1. u.id \in ProfileIds /\ u.id # Null /\ Fresh # u.mine
                BY <1>1, <1>2, <3>1, <3>4, Transactions DEF RowsStored, MergeAssumption
            <4>2. ASSUME u.id \notin contested', u.mine # NoRef
                  PROVE  \E w \in Linkers(u.id)' : u.mine = UserOf("web", w)'
                <5>1. PICK w \in Linkers(u.id) : u.mine = UserOf("web", w)
                    BY <1>5, <3>1, <3>4, <4>2 DEF ReadFits
                <5>2. w \in DOMAIN webUsers /\ w \in WebIds /\ webUsers[w].link = u.id
                    BY <1>1, <5>1, LegacyRows DEF Linkers
                <5>3. w = t.id => before = u.id /\ u.id = link
                    BY <1>3, <4>1, <5>2 DEF before
                <5>4. w \in Linkers(u.id)'
                    BY <1>8, <5>1, <5>3
                <5>5. u.mine = UserOf("web", w)'
                    BY <1>6, <1>10, <4>2, <5>1, <5>2
                <5> QED BY <5>4, <5>5
            <4>3. u.id \in contested' /\ u.mine \in DOMAIN merged' => Tainted(u.mine)'
                BY <1>5, <3>1, <3>2, <3>4, <4>1 DEF ReadFits
            <4>4. u.kind # "web"
                BY <3>4
            <4> QED BY <3>1, <4>2, <4>3, <4>4 DEF ReadFits, Tainted, Linkers, UserOf
        <3>5. CASE u.kind \notin {"web", "player"}
            BY <3>1, <3>5 DEF ReadFits
        <3> QED BY <3>3, <3>4, <3>5
    <2>2. ReadFits(writing[x])'
        BY <1>2, QuietIs DEF WebStored, ReadFits
    <2> QED BY <2>1, <2>2 DEF ReadsFit
<1>18. Referred'
    <2>1. ASSUME NEW p \in ProfileIds, resultUser'[p] \notin {Absent, NoRef}
          PROVE  resultUser'[p] \in DOMAIN merged' /\ (p \notin contested' => merged'[resultUser'[p]].player = p)
        <3>1. resultUser'[p] \in DOMAIN merged /\ (p \notin contested => merged[resultUser'[p]].player = p)
              /\ resultUser'[p] \in DOMAIN merged'
            BY <1>1, <1>2, <1>5, <2>1 DEF Referred, RowsStored
        <3>2. p # Null
            BY DEF MergeAssumption
        <3> QED BY <1>5, <1>6, <3>1, <3>2
    <2>2. ASSUME NEW w \in WebIds, lobbyUser'[w] \notin {Absent, Gone, NoRef}
          PROVE  lobbyUser'[w] \in DOMAIN merged' /\ (w \notin contested' => merged'[lobbyUser'[w]].web = w)
        <3>1. lobbyUser'[w] = lobbyUser[w] /\ lobbyUser[w] \in DOMAIN merged' /\ lobbyUser[w] \in DOMAIN merged
              /\ (w \notin contested => merged[lobbyUser[w]].web = w)
            BY <1>1, <1>2, <2>2 DEF Referred, RowsStored
        <3>2. w # Null
            BY DEF MergeAssumption
        <3> QED BY <1>5, <1>6, <3>1, <3>2
    <2>3. ASSUME NEW w \in WebIds, lobbyUser'[w] = Gone PROVE w \in contested'
        <3>1. CASE lobbyUser[w] = Gone
            BY <1>1, <1>5, <3>1 DEF Referred
        <3>2. CASE lobbyUser[w] # Gone
            <4>1. lobbyUser[w] \in DOMAIN merged \ DOMAIN merged' /\ w # Null
                BY <1>2, <2>3, <3>2 DEF RowsStored, MergeAssumption
            <4>2. w \notin contested => merged[lobbyUser[w]].web = w
                BY <1>1, <4>1, NumbersAreNone DEF Referred
            <4> QED BY <1>5, <1>6, <4>1, <4>2
        <3> QED BY <3>1, <3>2
    <2> QED BY <2>1, <2>2, <2>3 DEF Referred
<1> QED BY <1>12, <1>14, <1>16, <1>17, <1>18 DEF MirrorFits

-----------------------------------------------------------------------------
(* A commit of a player, in the mirror.                                    *)

\* A commit of a player, in the old tables, and the one row of users it writes to: his own
\* while nobody contests it, of contested ones otherwise, or a new one of a new player.
PlayerStored(x, t, own) ==
    /\ t.id \in ProfileIds /\ t.id # Null
    /\ DOMAIN profiles' = DOMAIN profiles \cup {t.id} /\ profiles'[t.id] = t.row
    /\ \A p \in DOMAIN profiles \ {t.id} : profiles'[p] = profiles[p]
    /\ \A p \in DOMAIN profiles : profiles[p].steam # Null => profiles'[p].steam = profiles[p].steam
    /\ t.id \in DOMAIN profiles => t.row.steam # Null
    /\ webUsers' = webUsers /\ contested' = contested /\ dirty' = dirty \ {t.id}
    /\ writing'[x] = Quiet /\ \A y \in Writers \ {x} : writing'[y] = writing[y]
    /\ DOMAIN merged' = DOMAIN merged \cup (IF own = NoRef THEN {Fresh} ELSE {})
    /\ \A i \in DOMAIN merged \ {own} : merged'[i] = merged[i]
    /\ own = NoRef =>
          /\ merged'[Fresh] = [web |-> Null, player |-> t.id, steam |-> t.row.steam]
          /\ \A i \in DOMAIN merged : merged[i].player # t.id
          /\ t.id \notin contested => t.id \notin DOMAIN profiles
    /\ own # NoRef /\ t.id \notin contested => own \in DOMAIN merged
    /\ own \in DOMAIN merged =>
          /\ merged'[own].web = merged[own].web /\ merged'[own].player = t.id
          /\ merged'[own].steam = Coalesce(t.row.steam, merged[own].steam)
          /\ IF t.id \in contested
             THEN Tainted(own) /\ {merged[own].web, merged[own].player} \subseteq contested \cup {Null}
             ELSE ~Tainted(own) /\ merged[own].player = t.id /\ t.id \in DOMAIN profiles

\* The row a player's trigger writes to: that of the two while nobody contests them, and
\* none only of a new player.
LEMMA OwnRow ==
    ASSUME MergeAssumption, MergeTypeOK, LegacyFits, RowsFit, Mirrored, NEW x \in Writers,
           writing[x].kind = "player", ReadFits(writing[x])
    PROVE  LET t == writing[x]
               own == Own(t)
           IN  /\ own = NoRef => /\ \A i \in DOMAIN merged : merged[i].player # t.id
                                 /\ t.id \notin contested => t.id \notin DOMAIN profiles
               /\ own # NoRef /\ t.id \notin contested =>
                     /\ own \in DOMAIN merged /\ merged[own].player = t.id
                     /\ ~Tainted(own) /\ t.id \in DOMAIN profiles
               /\ own \in DOMAIN merged /\ t.id \in contested =>
                     Tainted(own) /\ {merged[own].web, merged[own].player} \subseteq contested \cup {Null}
<1> DEFINE t == writing[x]
           own == Own(t)
<1>1. /\ MergeTypeOK /\ LegacyFits /\ RowsFit /\ Mirrored /\ ReadFits(t) /\ t.kind = "player"
    OBVIOUS
<1>2. t.id \in ProfileIds /\ t.id # Null
    BY <1>1, Transactions DEF MergeAssumption
<1>3. own = IF t.mine # NoRef THEN t.mine ELSE UserOf("player", t.id)
    BY DEF Own
<1>4. NoRef \notin DOMAIN merged
    BY <1>1, NoRefIsNone
<1>5. own = NoRef => (\A i \in DOMAIN merged : merged[i].player # t.id)
                      /\ (t.id \notin contested => t.id \notin DOMAIN profiles)
    BY <1>1, <1>2, <1>3, <1>4, UserLookups, PeacefulRows
<1>6. ASSUME t.id \notin contested, own # NoRef
       PROVE  own \in DOMAIN merged /\ merged[own].player = t.id /\ ~Tainted(own) /\ t.id \in DOMAIN profiles
    <2>1. own \in DOMAIN merged /\ merged[own].player = t.id
        <3>1. CASE t.mine # NoRef
            <4>1. PICK w \in Linkers(t.id) : t.mine = UserOf("web", w)
                BY <1>1, <1>6, <3>1 DEF ReadFits
            <4>2. w \in DOMAIN webUsers /\ webUsers[w].link = t.id
                BY <4>1 DEF Linkers
            <4>3. w \notin contested
                BY <1>1, <1>2, <1>6, <4>2 DEF RowsFit
            <4> QED BY <1>1, <1>3, <3>1, <4>1, <4>2, <4>3, PeacefulRows
        <3>2. CASE t.mine = NoRef
            BY <1>1, <1>2, <1>3, <1>6, <3>2, UserLookups
        <3> QED BY <3>1, <3>2
    <2>2. t.id \in DOMAIN profiles
        BY <1>1, <1>2, <2>1 DEF RowsFit
    <2>3. ~Tainted(own)
        <3>1. SUFFICES ASSUME Tainted(own) PROVE FALSE
            OBVIOUS
        <3>2. merged[own].player \in contested \cup {Null}
            BY <1>1, <2>1, <3>1, Taints
        <3> QED BY <1>2, <1>6, <2>1, <3>2
    <2> QED BY <2>1, <2>2, <2>3
<1>7. ASSUME t.id \in contested, own \in DOMAIN merged
       PROVE  Tainted(own) /\ merged[own].web \in contested \cup {Null} /\ merged[own].player \in contested \cup {Null}
    <2>1. Tainted(own)
        <3>1. CASE t.mine # NoRef
            BY <1>1, <1>3, <1>7, <3>1 DEF ReadFits
        <3>2. CASE t.mine = NoRef
            <4>1. merged[own].player = t.id
                BY <1>1, <1>2, <1>3, <1>4, <1>7, <3>2, UserLookups
            <4> QED BY <1>7, <4>1 DEF Tainted
        <3> QED BY <3>1, <3>2
    <2> QED BY <1>1, <1>7, <2>1, Taints
<1> HIDE DEF t, own
<1> HIDE DEF t, own
<1>8. own \in DOMAIN merged /\ t.id \in contested =>
          Tainted(own) /\ {merged[own].web, merged[own].player} \subseteq contested \cup {Null}
    BY <1>7
<1> QED BY <1>5, <1>6, <1>8 DEF t, own

\* A commit of a player does so.
LEMMA PlayerIsStored ==
    ASSUME MergeAssumption, MergeInv, Mirroring, NEW x \in Writers, PlayerEnds(x)
    PROVE  PlayerStored(x, writing[x], Own(writing[x]))
<1> DEFINE t == writing[x]
           own == Own(t)
<1>1. /\ MergeTypeOK /\ FlightsFit /\ LegacyFits /\ RowsFit /\ Mirrored /\ ReadFits(t)
      /\ t.kind = "player" /\ profiles' = Set(profiles, t.id, t.row)
      /\ webUsers' = webUsers /\ contested' = contested /\ dirty' = dirty \ {t.id}
      /\ writing' = [writing EXCEPT ![x] = Quiet]
    BY DEF MergeInv, PlayerEnds, CommitProfile, MirrorFits, ReadsFit
<1>2. t.id \in ProfileIds /\ t.id # Null /\ t.mine \in UserNumbers \cup {NoRef}
    BY <1>1, Transactions DEF MergeAssumption
<1>3. t.id \in DOMAIN profiles => profiles[t.id].steam = Null /\ t.row.steam # Null
    BY <1>1 DEF FlightsFit, FlightFits
<1>4. writing'[x] = Quiet /\ \A y \in Writers \ {x} : writing'[y] = writing[y]
    BY <1>1, QuietsOne
<1>5. /\ DOMAIN profiles' = DOMAIN profiles \cup {t.id} /\ profiles'[t.id] = t.row
      /\ \A p \in DOMAIN profiles \ {t.id} : profiles'[p] = profiles[p]
    <2>1. profiles' = Set(profiles, t.id, t.row)
        BY <1>1
    <2> HIDE DEF t
    <2> QED BY <2>1 DEF Set
<1>6. \A p \in DOMAIN profiles : profiles[p].steam # Null => profiles'[p].steam = profiles[p].steam
    BY <1>3, <1>5
<1>7. merged' = AfterPlayer(t) /\ IsFiniteSet(DOMAIN merged)
    BY <1>1, RowsAreStored DEF RowsStored, After, RowsFit
<1>8. /\ DOMAIN merged' = DOMAIN merged \cup (IF own = NoRef THEN {Fresh} ELSE {})
      /\ \A i \in DOMAIN merged \ {own} : merged'[i] = merged[i]
      /\ own = NoRef => merged'[Fresh] = [web |-> Null, player |-> t.id, steam |-> t.row.steam]
      /\ own \in DOMAIN merged =>
            /\ merged'[own].web = merged[own].web /\ merged'[own].player = t.id
            /\ merged'[own].steam = Coalesce(t.row.steam, merged[own].steam)
    BY <1>1, <1>7, AfterPlayerRows
<1>9. /\ own = NoRef => /\ \A i \in DOMAIN merged : merged[i].player # t.id
                        /\ t.id \notin contested => t.id \notin DOMAIN profiles
      /\ own # NoRef /\ t.id \notin contested =>
            own \in DOMAIN merged /\ merged[own].player = t.id /\ ~Tainted(own) /\ t.id \in DOMAIN profiles
      /\ own \in DOMAIN merged /\ t.id \in contested =>
            Tainted(own) /\ {merged[own].web, merged[own].player} \subseteq contested \cup {Null}
    BY <1>1, OwnRow
<1>10. NoRef \notin DOMAIN merged
    BY <1>1, NoRefIsNone
<1> HIDE DEF t, own
<1>11. own \in DOMAIN merged =>
           IF t.id \in contested
           THEN Tainted(own) /\ {merged[own].web, merged[own].player} \subseteq contested \cup {Null}
           ELSE ~Tainted(own) /\ merged[own].player = t.id /\ t.id \in DOMAIN profiles
    BY <1>9, <1>10
<1>12. PlayerStored(x, t, own)
    BY <1>1, <1>2, <1>3, <1>4, <1>5, <1>6, <1>8, <1>9, <1>11, Zenon DEF PlayerStored
<1> QED BY <1>12 DEF t, own

\* The invariant after such a commit.
LEMMA PlayerEndsMirror ==
    ASSUME MergeAssumption, MergeInv, Mirroring, NEW x \in Writers, PlayerEnds(x), MergeTypeOK'
    PROVE  MirrorFits' /\ Referred'
<1> DEFINE t == writing[x]
           own == Own(t)
           p == t.id
<1>1. /\ MergeTypeOK /\ LegacyFits /\ RowsFit /\ SteamOwned /\ Mirrored /\ ReadsFit /\ Referred /\ FlightsFit
      /\ t.kind = "player"
    BY DEF MergeInv, MirrorFits, PlayerEnds
<1>2. RowsStored(t)
    BY RowsAreStored
<1>3. PlayerStored(x, t, own)
    BY PlayerIsStored
<1> HIDE DEF t, own
<1>4. /\ p \in ProfileIds /\ p # Null
      /\ DOMAIN profiles' = DOMAIN profiles \cup {p} /\ profiles'[p] = t.row
      /\ \A q \in DOMAIN profiles \ {p} : profiles'[q] = profiles[q]
      /\ \A q \in DOMAIN profiles : profiles[q].steam # Null => profiles'[q].steam = profiles[q].steam
      /\ p \in DOMAIN profiles => t.row.steam # Null
      /\ webUsers' = webUsers /\ contested' = contested /\ dirty' = dirty \ {p}
      /\ DOMAIN merged' = DOMAIN merged \cup (IF own = NoRef THEN {Fresh} ELSE {})
      /\ \A i \in DOMAIN merged \ {own} : merged'[i] = merged[i]
    BY <1>3 DEF PlayerStored
<1>5. /\ own = NoRef =>
            /\ merged'[Fresh] = [web |-> Null, player |-> p, steam |-> t.row.steam]
            /\ \A i \in DOMAIN merged : merged[i].player # p
            /\ p \notin contested => p \notin DOMAIN profiles
      /\ own # NoRef /\ p \notin contested => own \in DOMAIN merged
      /\ own \in DOMAIN merged =>
            /\ merged'[own].web = merged[own].web /\ merged'[own].player = p
            /\ merged'[own].steam = Coalesce(t.row.steam, merged[own].steam)
            /\ p \in contested =>
                  Tainted(own) /\ merged[own].web \in contested \cup {Null} /\ merged[own].player \in contested \cup {Null}
            /\ p \notin contested => ~Tainted(own) /\ merged[own].player = p /\ p \in DOMAIN profiles
    BY <1>3 DEF PlayerStored
<1> HIDE DEF p
<1>6. /\ Null \notin contested /\ NoRef \notin DOMAIN merged /\ NoRef \notin DOMAIN merged' /\ Fresh \notin DOMAIN merged
      /\ \A w \in DOMAIN webUsers : w \in WebIds /\ w # Null
      /\ \A q \in DOMAIN profiles' : q \in ProfileIds /\ q # Null
    BY <1>1, <1>2, <1>4, NoRefIsNone, PeacefulRows, LegacyRows DEF RowsStored, MergeAssumption
<1>7. /\ \A i \in DOMAIN merged : i \in DOMAIN merged' /\ merged'[i].web = merged[i].web /\ (Tainted(i)' <=> Tainted(i))
      /\ \A i \in DOMAIN merged : merged[i].player \notin contested \cup {Null} => merged'[i].player = merged[i].player
      /\ \A i \in DOMAIN merged : merged'[i].player \in {merged[i].player, p}
      /\ \A i \in DOMAIN merged' \ DOMAIN merged : i = Fresh /\ own = NoRef
    BY <1>4, <1>5 DEF Tainted
<1>8. ASSUME NEW w \in WebIds PROVE UserOf("web", w)' = UserOf("web", w)
    <2>1. w # Null
        BY DEF MergeAssumption
    <2>2. Unique(merged', "web")
        BY <1>2 DEF RowsStored
    <2>3. /\ \A i \in DOMAIN merged' : merged'[i].web = w => UserOf("web", w)' = i
          /\ \/ UserOf("web", w)' = NoRef /\ \A i \in DOMAIN merged' : merged'[i].web # w
             \/ UserOf("web", w)' \in DOMAIN merged' /\ merged'[UserOf("web", w)'].web = w
        BY <1>6, <2>1, <2>2, WebLookup DEF UserOf
    <2>4. /\ \A i \in DOMAIN merged : merged[i].web = w => UserOf("web", w) = i
          /\ \/ UserOf("web", w) = NoRef /\ \A i \in DOMAIN merged : merged[i].web # w
             \/ UserOf("web", w) \in DOMAIN merged /\ merged[UserOf("web", w)].web = w
        BY <1>1, UserLookups
    <2>5. \A i : i \in DOMAIN merged /\ merged[i].web = w <=> i \in DOMAIN merged' /\ merged'[i].web = w
        BY <1>5, <1>7, <2>1
    <2> QED BY <2>3, <2>4, <2>5
<1>9. ASSUME NEW q \in ProfileIds, q \notin contested, q # p \/ own # NoRef
      PROVE  UserOf("player", q)' = UserOf("player", q)
    <2>1. q # Null
        BY DEF MergeAssumption
    <2>2. Unique(merged', "player")
        BY <1>2 DEF RowsStored
    <2>3. /\ \A i \in DOMAIN merged' : merged'[i].player = q => UserOf("player", q)' = i
          /\ \/ UserOf("player", q)' = NoRef /\ \A i \in DOMAIN merged' : merged'[i].player # q
             \/ UserOf("player", q)' \in DOMAIN merged' /\ merged'[UserOf("player", q)'].player = q
        BY <1>6, <2>1, <2>2, PlayerLookup DEF UserOf
    <2>4. /\ \A i \in DOMAIN merged : merged[i].player = q => UserOf("player", q) = i
          /\ \/ UserOf("player", q) = NoRef /\ \A i \in DOMAIN merged : merged[i].player # q
             \/ UserOf("player", q) \in DOMAIN merged /\ merged[UserOf("player", q)].player = q
        BY <1>1, UserLookups
    <2>5. \A i : i \in DOMAIN merged /\ merged[i].player = q <=> i \in DOMAIN merged' /\ merged'[i].player = q
        BY <1>4, <1>5, <1>6, <1>7, <1>9, <2>1
    <2> QED BY <2>3, <2>4, <2>5
<1>10. \A q : Linkers(q)' = Linkers(q)
    BY <1>4 DEF Linkers
<1>11. RowsFit'
    <2>1. \A i \in DOMAIN merged' : /\ merged'[i].web \in DOMAIN webUsers' \cup {Null}
                                    /\ merged'[i].player \in DOMAIN profiles' \cup {Null}
        BY <1>1, <1>4, <1>5, <1>7 DEF RowsFit
    <2>2. contested' \subseteq DOMAIN webUsers' \cup DOMAIN profiles'
        BY <1>1, <1>4 DEF RowsFit
    <2>3. \A w \in DOMAIN webUsers' : webUsers'[w].link # Null =>
              (w \in contested' <=> webUsers'[w].link \in contested')
        BY <1>1, <1>4 DEF RowsFit
    <2>4. \A q \in ProfileIds \ contested' : \A v, w \in Linkers(q)' : v = w
        BY <1>1, <1>4, <1>10 DEF RowsFit
    <2> QED BY <1>2, <2>1, <2>2, <2>3, <2>4 DEF RowsFit, RowsStored
<1>12. ASSUME own \in DOMAIN merged, p \notin contested
       PROVE  own = UserOf("player", p) /\ merged'[own].steam = t.row.steam /\ t.row.steam # Null
    BY <1>1, <1>4, <1>5, <1>12, UserLookups DEF Coalesce
<1>13. Mirrored'
    <2>1. ASSUME NEW w \in DOMAIN webUsers' \ contested'
          PROVE  LET i == UserOf("web", w)'
                 IN  /\ i # NoRef /\ merged'[i].player = webUsers'[w].link
                     /\ merged'[i].steam = Coalesce(SteamOf(webUsers[w].link)', webUsers'[w].steam)
                           \/ webUsers'[w].link \in dirty'
        <3> DEFINE i == UserOf("web", w)
                   link == webUsers[w].link
        <3>1. w \in DOMAIN webUsers \ contested /\ w \in WebIds /\ webUsers'[w] = webUsers[w]
            BY <1>4, <1>6
        <3>2. /\ i \in DOMAIN merged /\ merged[i].player = link /\ link \notin contested /\ merged[i].web = w
              /\ merged[i].steam = Coalesce(SteamOf(link), webUsers[w].steam) \/ link \in dirty
            BY <1>1, <3>1, PeacefulRows
        <3>3. UserOf("web", w)' = i
            BY <1>8, <3>1
        <3>4. link \in DOMAIN profiles \cup {Null}
            BY <1>1, <3>1 DEF LegacyFits
        <3> HIDE DEF i
        <3>5. CASE link = p
            <4>1. p \in DOMAIN profiles \ contested
                BY <1>4, <3>2, <3>4, <3>5
            <4>2. own = i
                BY <1>1, <1>4, <1>5, <1>12, <3>2, <3>5, <4>1, UserLookups
            <4>3. SteamOf(webUsers[w].link)' = t.row.steam
                BY <1>4, <3>5 DEF SteamOf
            <4>4. merged'[i].player = link /\ merged'[i].steam = t.row.steam /\ t.row.steam # Null
                BY <1>5, <1>12, <3>2, <3>5, <4>1, <4>2
            <4> QED BY <1>6, <3>1, <3>2, <3>3, <4>3, <4>4 DEF Coalesce
        <3>6. CASE link # p
            <4>1. i # own
                <5>1. SUFFICES ASSUME i = own PROVE FALSE
                    OBVIOUS
                <5> QED BY <1>5, <3>1, <3>2, <3>6, <5>1, <1>6 DEF Tainted
            <4>2. merged'[i] = merged[i]
                BY <1>4, <3>2, <4>1
            <4>3. SteamOf(webUsers[w].link)' = SteamOf(link)
                BY <1>4, <3>4, <3>6 DEF SteamOf
            <4> QED BY <1>4, <1>6, <3>1, <3>2, <3>3, <3>6, <4>2, <4>3
        <3> QED BY <3>5, <3>6
    <2>2. ASSUME NEW q \in DOMAIN profiles' \ contested', Linkers(q)' = {}
          PROVE  \E i \in DOMAIN merged' : merged'[i] = [web |-> Null, player |-> q, steam |-> profiles'[q].steam]
        <3>1. q \notin contested /\ q \in ProfileIds /\ q # Null /\ Linkers(q) = {}
            BY <1>4, <1>6, <1>10, <2>2
        <3>2. CASE q = p /\ own = NoRef
            BY <1>4, <1>5, <3>2
        <3>3. CASE q = p /\ own # NoRef
            <4>1. own \in DOMAIN merged /\ p \in DOMAIN profiles
                BY <1>5, <3>1, <3>3
            <4>2. PICK i \in DOMAIN merged : merged[i] = [web |-> Null, player |-> p, steam |-> profiles[p].steam]
                BY <1>1, <3>1, <3>3, <4>1 DEF Mirrored
            <4>3. i = own
                BY <1>1, <1>4, <1>12, <3>1, <3>3, <4>1, <4>2, UserLookups
            <4>4. merged'[own].web = Null /\ merged'[own].player = p /\ merged'[own].steam = profiles'[p].steam
                BY <1>4, <1>5, <1>12, <3>1, <3>3, <4>1, <4>2, <4>3
            <4>5. merged'[own] \in UserRow
                BY <1>4, <4>1 DEF MergeTypeOK, Partial
            <4>6. merged'[own] = [web |-> Null, player |-> p, steam |-> profiles'[p].steam]
                BY <4>4, <4>5 DEF UserRow
            <4> QED BY <1>4, <3>3, <4>1, <4>6
        <3>4. CASE q # p
            <4>1. q \in DOMAIN profiles /\ profiles'[q] = profiles[q]
                BY <1>4, <3>4
            <4>2. PICK i \in DOMAIN merged : merged[i] = [web |-> Null, player |-> q, steam |-> profiles[q].steam]
                BY <1>1, <3>1, <4>1 DEF Mirrored
            <4>3. i # own
                BY <1>5, <3>1, <3>4, <4>2
            <4> QED BY <1>4, <4>1, <4>2, <4>3
        <3> QED BY <3>2, <3>3, <3>4
    <2> QED BY <2>1, <2>2, Zenon DEF Mirrored
<1>14. SteamOwned'
    <2>1. ASSUME NEW i \in DOMAIN merged', merged'[i].steam # Null
          PROVE  \/ \E w \in DOMAIN webUsers' :
                       /\ webUsers'[w].steam = merged'[i].steam
                       /\ merged'[i].web = w \/ (Tainted(i)' /\ w \in contested')
                 \/ \E q \in DOMAIN profiles' :
                       /\ profiles'[q].steam = merged'[i].steam
                       /\ merged'[i].player = q \/ (Tainted(i)' /\ q \in contested')
        <3>1. CASE merged'[i].player = p /\ merged'[i].steam = t.row.steam
            BY <1>4, <3>1
        <3>2. CASE i \in DOMAIN merged /\ merged'[i].steam = merged[i].steam
            <4>1. CASE \E w \in DOMAIN webUsers : /\ webUsers[w].steam = merged[i].steam
                                                  /\ merged[i].web = w \/ (Tainted(i) /\ w \in contested)
                BY <1>4, <1>7, <3>2, <4>1
            <4>2. CASE \E q \in DOMAIN profiles : /\ profiles[q].steam = merged[i].steam
                                                  /\ merged[i].player = q \/ (Tainted(i) /\ q \in contested)
                <5>1. PICK q \in DOMAIN profiles : /\ profiles[q].steam = merged[i].steam
                                                   /\ merged[i].player = q \/ (Tainted(i) /\ q \in contested)
                    BY <4>2
                <5>2. q \in DOMAIN profiles' /\ profiles'[q].steam = merged'[i].steam /\ q # Null
                    BY <1>4, <1>6, <2>1, <3>2, <5>1
                <5>3. merged'[i].player = q \/ (Tainted(i)' /\ q \in contested')
                    <6>1. CASE Tainted(i) /\ q \in contested
                        BY <1>4, <1>7, <3>2, <6>1
                    <6>2. CASE merged[i].player = q /\ q \notin contested
                        BY <1>7, <3>2, <5>2, <6>2
                    <6>3. CASE merged[i].player = q /\ q \in contested
                        BY <1>4, <1>7, <3>2, <6>3 DEF Tainted
                    <6> QED BY <5>1, <6>1, <6>2, <6>3
                <5> QED BY <5>2, <5>3
            <4> QED BY <1>1, <2>1, <3>2, <4>1, <4>2 DEF SteamOwned
        <3>3. \/ merged'[i].player = p /\ merged'[i].steam = t.row.steam
              \/ i \in DOMAIN merged /\ merged'[i].steam = merged[i].steam
            <4>1. CASE i = own /\ own \in DOMAIN merged
                BY <1>5, <4>1 DEF Coalesce
            <4>2. CASE i \in DOMAIN merged \ {own}
                BY <1>4, <4>2
            <4>3. CASE i \notin DOMAIN merged
                BY <1>5, <1>7, <4>3
            <4> QED BY <4>1, <4>2, <4>3
        <3> QED BY <3>1, <3>2, <3>3
    <2> QED BY <2>1 DEF SteamOwned
<1>15. ReadsFit'
    <2>1. ASSUME NEW y \in Writers \ {x} PROVE ReadFits(writing[y])'
        <3>1. PICK u : u = writing[y] /\ u = writing'[y] /\ ReadFits(u) /\ FlightFits(u)
            BY <1>1, <1>3 DEF ReadsFit, FlightsFit, PlayerStored
        <3>2. CASE u.kind = "web"
            <4>1. u.id \in WebIds /\ u.row.link \in ProfileIds \cup {Null} /\ Fresh # u.mine /\ Fresh # u.other
                BY <1>1, <1>2, <3>1, <3>2, Transactions DEF RowsStored
            <4>2. u.id \notin contested' => u.mine = UserOf("web", u.id)'
                BY <1>4, <1>8, <3>1, <3>2, <4>1 DEF ReadFits
            <4>3. u.id \in contested' /\ u.mine \in DOMAIN merged' => Tainted(u.mine)'
                BY <1>4, <1>7, <3>1, <3>2, <4>1 DEF ReadFits
            <4>4. u.row.link \notin contested' \cup {Null} =>
                      u.other = ByPlayer(u.row.link)' \/ Linkers(u.row.link)' \ {u.id} # {}
                <5>1. SUFFICES ASSUME u.row.link \notin contested' \cup {Null}
                               PROVE  u.other = ByPlayer(u.row.link)' \/ Linkers(u.row.link)' \ {u.id} # {}
                    OBVIOUS
                <5> DEFINE q == u.row.link
                <5>2. q \in ProfileIds /\ q # Null /\ q \notin contested /\ q \in DOMAIN profiles
                    BY <1>4, <3>1, <3>2, <4>1, <5>1 DEF FlightFits
                <5>3. u.other = UserOf("player", q) \/ Linkers(q) \ {u.id} # {}
                    BY <3>1, <3>2, <5>2 DEF ReadFits, ByPlayer
                <5>4. UserOf("player", q)' = UserOf("player", q)
                    BY <1>5, <1>9, <5>2
                <5>5. ByPlayer(q)' = UserOf("player", q)'
                    BY <5>2 DEF ByPlayer
                <5> QED BY <1>10, <5>3, <5>4, <5>5
            <4>5. u.other \in DOMAIN merged' => merged'[u.other].player = u.row.link \/ Tainted(u.other)'
                <5>1. SUFFICES ASSUME u.other \in DOMAIN merged', ~Tainted(u.other)'
                               PROVE  merged'[u.other].player = u.row.link
                    OBVIOUS
                <5>2. u.other \in DOMAIN merged /\ ~Tainted(u.other)
                    BY <1>7, <4>1, <5>1
                <5>3. merged[u.other].player = u.row.link
                    BY <3>1, <3>2, <5>2 DEF ReadFits
                <5>4. u.row.link # Null
                    BY <1>6, <3>1, <3>2, <5>2 DEF FlightFits
                <5> QED BY <1>7, <5>2, <5>3, <5>4 DEF Tainted
            <4>6. u.kind # "player"
                BY <3>2
            <4> QED BY <3>1, <4>2, <4>3, <4>4, <4>5, <4>6 DEF ReadFits, Tainted, Linkers, UserOf, ByPlayer
        <3>3. CASE u.kind = "player"
            <4>1. u.id \in ProfileIds /\ Fresh # u.mine
                BY <1>1, <1>2, <3>1, <3>3, Transactions DEF RowsStored
            <4>2. ASSUME u.id \notin contested', u.mine # NoRef
                  PROVE  \E w \in Linkers(u.id)' : u.mine = UserOf("web", w)'
                <5>1. PICK w \in Linkers(u.id) : u.mine = UserOf("web", w)
                    BY <1>4, <3>1, <3>3, <4>2 DEF ReadFits
                <5>2. w \in WebIds
                    BY <1>6, <5>1 DEF Linkers
                <5> QED BY <1>8, <1>10, <5>1, <5>2
            <4>3. u.id \in contested' /\ u.mine \in DOMAIN merged' => Tainted(u.mine)'
                BY <1>4, <1>7, <3>1, <3>3, <4>1 DEF ReadFits
            <4>4. u.kind # "web"
                BY <3>3
            <4> QED BY <3>1, <4>2, <4>3, <4>4 DEF ReadFits, Tainted, Linkers, UserOf
        <3>4. CASE u.kind \notin {"web", "player"}
            BY <3>1, <3>4 DEF ReadFits
        <3> QED BY <3>2, <3>3, <3>4
    <2>2. ReadFits(writing[x])'
        BY <1>3, QuietIs DEF PlayerStored, ReadFits
    <2> QED BY <2>1, <2>2 DEF ReadsFit
<1>16. Referred'
    <2>1. ASSUME NEW q \in ProfileIds, resultUser'[q] \notin {Absent, NoRef}
          PROVE  resultUser'[q] \in DOMAIN merged' /\ (q \notin contested' => merged'[resultUser'[q]].player = q)
        <3>1. resultUser'[q] \in DOMAIN merged /\ (q \notin contested => merged[resultUser'[q]].player = q)
            BY <1>1, <1>2, <2>1 DEF Referred, RowsStored
        <3>2. q # Null
            BY DEF MergeAssumption
        <3> QED BY <1>4, <1>7, <3>1, <3>2
    <2>2. ASSUME NEW w \in WebIds, lobbyUser'[w] \notin {Absent, Gone, NoRef}
          PROVE  lobbyUser'[w] \in DOMAIN merged' /\ (w \notin contested' => merged'[lobbyUser'[w]].web = w)
        <3>1. lobbyUser'[w] = lobbyUser[w] /\ lobbyUser[w] \in DOMAIN merged
              /\ (w \notin contested => merged[lobbyUser[w]].web = w)
            BY <1>1, <1>2, <2>2 DEF Referred, RowsStored
        <3> QED BY <1>4, <1>7, <3>1
    <2>3. ASSUME NEW w \in WebIds, lobbyUser'[w] = Gone PROVE w \in contested'
        <3>1. CASE lobbyUser[w] = Gone
            BY <1>1, <1>4, <3>1 DEF Referred
        <3>2. CASE lobbyUser[w] # Gone
            <4>1. lobbyUser[w] \in DOMAIN merged \ DOMAIN merged' /\ w # Null
                BY <1>2, <2>3, <3>2 DEF RowsStored, MergeAssumption
            <4>2. w \notin contested => merged[lobbyUser[w]].web = w
                BY <1>1, <4>1, NumbersAreNone DEF Referred
            <4> QED BY <1>4, <1>7, <4>1, <4>2
        <3> QED BY <3>1, <3>2
    <2> QED BY <2>1, <2>2, <2>3 DEF Referred
<1> QED BY <1>11, <1>13, <1>14, <1>15, <1>16 DEF MirrorFits

-----------------------------------------------------------------------------
(* The end of a transaction, and the migration.                            *)

\* Before the mirror there is nothing to keep in step.
LEMMA EndsUnmirrored ==
    ASSUME MergeAssumption, MergeInv, ~Mirroring, NEW x \in Writers, WebEnds(x) \/ PlayerEnds(x), SchemaFits'
    PROVE  ~Mirroring' /\ Referred'
<1>1. schema # "merged"
    <2>1. writing[x] # Quiet
        BY Transactions, QuietIs DEF MergeInv, WebEnds, PlayerEnds
    <2> QED BY <2>1 DEF MergeInv, FlightsFit
<1>2. schema = "legacy" /\ schema' = schema
    BY <1>1 DEF MergeInv, MergeTypeOK, Mirroring, WebEnds, PlayerEnds
<1> QED BY <1>2, NumbersAreNone DEF SchemaFits, Referred, Mirroring, MergeInv

\* Whichever way a transaction ends.
LEMMA EndWriteInv ==
    ASSUME MergeAssumption, MergeInv, NEW x \in Writers, EndWrite(x) PROVE MergeInv'
<1>1. \/ Abort(x)
      \/ WebEnds(x)
      \/ PlayerEnds(x)
    BY DEF EndWrite, WebEnds, PlayerEnds, CommitWebRow, CommitProfile
<1>2. CASE Abort(x)
    BY <1>2, AbortInv DEF EndWrite
<1>3. CASE WebEnds(x)
    <2>1. MergeTypeOK' /\ FlightsFit' /\ LegacyFits' /\ SchemaFits'
        BY <1>3, WebEndsBase
    <2>2. CASE Mirroring
        <3>1. MirrorFits' /\ Referred'
            BY <1>3, <2>1, <2>2, ContestedInv, PeacefulWebInv
        <3> QED BY <2>1, <3>1 DEF MergeInv
    <2>3. CASE ~Mirroring
        BY <1>3, <2>1, <2>3, EndsUnmirrored DEF MergeInv
    <2> QED BY <2>2, <2>3
<1>4. CASE PlayerEnds(x)
    <2>1. MergeTypeOK' /\ FlightsFit' /\ LegacyFits' /\ SchemaFits'
        BY <1>4, PlayerEndsBase
    <2>2. CASE Mirroring
        <3>1. MirrorFits' /\ Referred'
            BY <1>4, <2>1, <2>2, PlayerEndsMirror
        <3> QED BY <2>1, <3>1 DEF MergeInv
    <2>3. CASE ~Mirroring
        BY <1>4, <2>1, <2>3, EndsUnmirrored DEF MergeInv
    <2> QED BY <2>2, <2>3
<1> QED BY <1>1, <1>2, <1>3, <1>4

\* Each row 0013 makes is of a web user, with his player, or of a player alone.
LEMMA BackfillRows ==
    ASSUME MergeAssumption, MergeTypeOK, LegacyFits
    PROVE  /\ Backfill \subseteq UserRow
           /\ \A r \in Backfill :
                 \/ /\ r.web \in DOMAIN webUsers /\ r.player = webUsers[r.web].link
                    /\ r.steam = Coalesce(SteamOf(r.player), webUsers[r.web].steam)
                 \/ /\ r.web = Null /\ r.player \in DOMAIN profiles /\ Linkers(r.player) = {}
                    /\ r.steam = profiles[r.player].steam
           /\ \A w \in DOMAIN webUsers : \E r \in Backfill : r.web = w
           /\ \A p \in DOMAIN profiles : Linkers(p) = {} =>
                 [web |-> Null, player |-> p, steam |-> profiles[p].steam] \in Backfill
<1> DEFINE pair(w) == [web |-> w, player |-> webUsers[w].link,
                       steam |-> Coalesce(SteamOf(webUsers[w].link), webUsers[w].steam)]
           lone(w) == [web |-> w, player |-> Null, steam |-> webUsers[w].steam]
           alone(p) == [web |-> Null, player |-> p, steam |-> profiles[p].steam]
<1>1. \A w \in DOMAIN webUsers : /\ w \in WebIds /\ webUsers[w].steam \in Steam
                                 /\ webUsers[w].link \in DOMAIN profiles \cup {Null}
                                 /\ webUsers[w].link \in ProfileIds \cup {Null}
    BY LegacyRows DEF LegacyFits
<1>2. \A p \in DOMAIN profiles : p \in ProfileIds /\ profiles[p].steam \in Steam
    BY LegacyRows
<1>3. ASSUME NEW r \in Pairs
      PROVE  /\ r \in UserRow /\ r.web \in DOMAIN webUsers /\ r.player = webUsers[r.web].link
             /\ r.steam = Coalesce(SteamOf(r.player), webUsers[r.web].steam)
    <2>1. PICK w \in DOMAIN webUsers : webUsers[w].link # Null /\ r = pair(w)
        BY DEF Pairs
    <2>2. Coalesce(SteamOf(webUsers[w].link), webUsers[w].steam) \in Steam
        BY <1>1, <1>2 DEF Coalesce, SteamOf
    <2>3. r \in UserRow
        BY <1>1, <2>1, <2>2 DEF UserRow
    <2> QED BY <2>1, <2>3
<1>4. ASSUME NEW r \in WebOnly
      PROVE  /\ r \in UserRow /\ r.web \in DOMAIN webUsers /\ r.player = webUsers[r.web].link
             /\ r.steam = Coalesce(SteamOf(r.player), webUsers[r.web].steam)
    <2>1. PICK w \in DOMAIN webUsers : webUsers[w].link = Null /\ r = lone(w)
        BY DEF WebOnly
    <2>2. r \in UserRow
        BY <1>1, <2>1 DEF UserRow
    <2> QED BY <2>1, <2>2 DEF Coalesce, SteamOf
<1>5. ASSUME NEW r \in PlayerOnly
      PROVE  /\ r \in UserRow /\ r.web = Null /\ r.player \in DOMAIN profiles /\ Linkers(r.player) = {}
             /\ r.steam = profiles[r.player].steam
    <2>1. PICK p \in DOMAIN profiles : Linkers(p) = {} /\ r = alone(p)
        BY DEF PlayerOnly
    <2>2. r \in UserRow
        BY <1>2, <2>1 DEF UserRow
    <2> QED BY <2>1, <2>2
<1>6. ASSUME NEW w \in DOMAIN webUsers PROVE \E r \in Backfill : r.web = w
    <2>1. pair(w) \in Pairs \/ lone(w) \in WebOnly
        BY DEF Pairs, WebOnly
    <2>2. pair(w).web = w /\ lone(w).web = w
        OBVIOUS
    <2> HIDE DEF pair, lone
    <2> QED BY <2>1, <2>2 DEF Backfill
<1>7. ASSUME NEW p \in DOMAIN profiles, Linkers(p) = {} PROVE alone(p) \in Backfill
    BY <1>7 DEF Backfill, PlayerOnly
<1> QED BY <1>3, <1>4, <1>5, <1>6, <1>7 DEF Backfill

\* There are finitely many of them.
LEMMA BackfillFinite ==
    ASSUME MergeAssumption, MergeTypeOK
    PROVE  IsFiniteSet(Backfill)
<1>1. IsFiniteSet(DOMAIN webUsers) /\ IsFiniteSet(DOMAIN profiles)
    BY FS_Subset DEF MergeAssumption, MergeTypeOK, Partial
<1> DEFINE A == {v \in DOMAIN webUsers : webUsers[v].link # Null}
           B == {v \in DOMAIN webUsers : webUsers[v].link = Null}
           C == {q \in DOMAIN profiles : Linkers(q) = {}}
           f == [w \in A |-> [web |-> w, player |-> webUsers[w].link,
                              steam |-> Coalesce(SteamOf(webUsers[w].link), webUsers[w].steam)]]
           g == [w \in B |-> [web |-> w, player |-> Null, steam |-> webUsers[w].steam]]
           h == [p \in C |-> [web |-> Null, player |-> p, steam |-> profiles[p].steam]]
<1>2. IsFiniteSet(A) /\ IsFiniteSet(B) /\ IsFiniteSet(C)
    <2>1. A \in SUBSET DOMAIN webUsers /\ B \in SUBSET DOMAIN webUsers /\ C \in SUBSET DOMAIN profiles
        OBVIOUS
    <2> HIDE DEF A, B, C
    <2> QED BY <1>1, <2>1, FS_Subset
<1>3. f \in Surjection(A, Pairs) /\ g \in Surjection(B, WebOnly) /\ h \in Surjection(C, PlayerOnly)
    <2>1. f \in Surjection(A, Pairs)
        BY DEF Surjection, Pairs
    <2>2. g \in Surjection(B, WebOnly)
        BY DEF Surjection, WebOnly
    <2>3. h \in Surjection(C, PlayerOnly)
        BY DEF Surjection, PlayerOnly
    <2> QED BY <2>1, <2>2, <2>3
<1> HIDE DEF A, B, C, f, g, h
<1>4. IsFiniteSet(Pairs) /\ IsFiniteSet(WebOnly) /\ IsFiniteSet(PlayerOnly)
    BY <1>2, <1>3, FS_Surjection
<1>5. IsFiniteSet(Pairs \cup WebOnly)
    BY <1>4, FS_Union
<1>6. IsFiniteSet((Pairs \cup WebOnly) \cup PlayerOnly)
    BY <1>4, <1>5, FS_Union
<1> QED BY <1>6 DEF Backfill

\* Numbering a finite set gives each of its rows one number.
LEMMA NumberedRows ==
    ASSUME NEW S, IsFiniteSet(S)
    PROVE  LET f == Numbered(S) IN
           /\ Cardinality(S) \in Nat /\ f \in [1..Cardinality(S) -> S]
           /\ \A i, j \in DOMAIN f : f[i] = f[j] => i = j
           /\ \A r \in S : \E i \in DOMAIN f : f[i] = r
<1> DEFINE n == Cardinality(S)
           f == Numbered(S)
<1>1. n \in Nat /\ ExistsBijection(1..n, S)
    BY FS_CardinalityType
<1>2. \E g \in [1..n -> S] : IsInjective(g)
    BY <1>1 DEF ExistsBijection, Bijection, Injection
<1>3. f \in [1..n -> S] /\ IsInjective(f)
    BY <1>2 DEF Numbered
<1>4. f \in Injection(1..n, S)
    BY <1>3 DEF Injection
<1>5. Cardinality(1..n) = n
    BY <1>1, FS_Interval
<1>6. f \in Surjection(1..n, S)
    BY <1>4, <1>5, FS_Injection
<1> QED BY <1>1, <1>3, <1>6 DEF IsInjective, Surjection

\* The numbered rows, by what they are of.
LEMMA MigratedRows ==
    ASSUME MergeAssumption, MergeTypeOK, LegacyFits
    PROVE  LET rows == Numbered(Backfill) IN
           /\ Partial(rows, UserNumbers, UserRow) /\ IsFiniteSet(DOMAIN rows)
           /\ \A i, j \in DOMAIN rows : rows[i] = rows[j] => i = j
           /\ \A i \in DOMAIN rows :
                 \/ /\ rows[i].web \in DOMAIN webUsers /\ rows[i].player = webUsers[rows[i].web].link
                    /\ rows[i].steam = Coalesce(SteamOf(rows[i].player), webUsers[rows[i].web].steam)
                 \/ /\ rows[i].web = Null /\ rows[i].player \in DOMAIN profiles /\ Linkers(rows[i].player) = {}
                    /\ rows[i].steam = profiles[rows[i].player].steam
           /\ \A w \in DOMAIN webUsers : \E i \in DOMAIN rows : rows[i].web = w
           /\ \A p \in DOMAIN profiles : Linkers(p) = {} =>
                 \E i \in DOMAIN rows : rows[i] = [web |-> Null, player |-> p, steam |-> profiles[p].steam]
<1> DEFINE rows == Numbered(Backfill)
           n == Cardinality(Backfill)
<1>1. /\ n \in Nat /\ rows \in [1..n -> Backfill]
      /\ \A i, j \in DOMAIN rows : rows[i] = rows[j] => i = j
      /\ \A r \in Backfill : \E i \in DOMAIN rows : rows[i] = r
    BY BackfillFinite, NumberedRows
<1>2. IsFiniteSet(1..n)
    BY <1>1, FS_Interval
<1> HIDE DEF rows, n
<1>3. IsFiniteSet(DOMAIN rows)
    BY <1>1, <1>2
<1>4. Partial(rows, UserNumbers, UserRow)
    <2>1. 1..n \subseteq UserNumbers
        BY <1>1 DEF UserNumbers
    <2>2. Backfill \subseteq UserRow
        BY BackfillRows
    <2> QED BY <1>1, <2>1, <2>2 DEF Partial
<1>5. \A i \in DOMAIN rows : rows[i] \in Backfill
    BY <1>1
<1>6. \A i \in DOMAIN rows :
         \/ /\ rows[i].web \in DOMAIN webUsers /\ rows[i].player = webUsers[rows[i].web].link
            /\ rows[i].steam = Coalesce(SteamOf(rows[i].player), webUsers[rows[i].web].steam)
         \/ /\ rows[i].web = Null /\ rows[i].player \in DOMAIN profiles /\ Linkers(rows[i].player) = {}
            /\ rows[i].steam = profiles[rows[i].player].steam
    BY <1>5, BackfillRows
<1>7. \A w \in DOMAIN webUsers : \E i \in DOMAIN rows : rows[i].web = w
    BY <1>1, BackfillRows
<1>8. \A p \in DOMAIN profiles : Linkers(p) = {} =>
         \E i \in DOMAIN rows : rows[i] = [web |-> Null, player |-> p, steam |-> profiles[p].steam]
    <2>1. ASSUME NEW p \in DOMAIN profiles, Linkers(p) = {}
          PROVE  \E i \in DOMAIN rows : rows[i] = [web |-> Null, player |-> p, steam |-> profiles[p].steam]
        <3>1. [web |-> Null, player |-> p, steam |-> profiles[p].steam] \in Backfill
            BY <2>1, BackfillRows
        <3> QED BY <1>1, <3>1
    <2> QED BY <2>1
<1> QED BY <1>1, <1>3, <1>4, <1>6, <1>7, <1>8 DEF rows

\* 0013 copies every identity, or fails.
LEMMA CreateUsersInv ==
    ASSUME MergeAssumption, MergeInv, CreateUsers PROVE MergeInv'
<1>1. /\ MergeTypeOK /\ FlightsFit /\ LegacyFits /\ SchemaFits /\ schema = "legacy" /\ ~running
      /\ schema' = "mirrored" /\ verdict' = "none" /\ contested' = {} /\ dirty' = {} /\ running' = running
      /\ webUsers' = webUsers /\ profiles' = profiles /\ writing' = writing
      /\ resultUser' = resultUser /\ lobbyUser' = lobbyUser
      /\ Unique(merged', "web") /\ Unique(merged', "player") /\ Unique(merged', "steam")
      /\ merged' = Numbered(Backfill)
    BY DEF MergeInv, CreateUsers, legacyRows, keys, Clash
<1>2. /\ Partial(merged', UserNumbers, UserRow) /\ IsFiniteSet(DOMAIN merged')
      /\ \A i \in DOMAIN merged' :
            \/ /\ merged'[i].web \in DOMAIN webUsers /\ merged'[i].player = webUsers[merged'[i].web].link
               /\ merged'[i].steam = Coalesce(SteamOf(merged'[i].player), webUsers[merged'[i].web].steam)
            \/ /\ merged'[i].web = Null /\ merged'[i].player \in DOMAIN profiles
               /\ Linkers(merged'[i].player) = {} /\ merged'[i].steam = profiles[merged'[i].player].steam
      /\ \A w \in DOMAIN webUsers : \E i \in DOMAIN merged' : merged'[i].web = w
      /\ \A p \in DOMAIN profiles : Linkers(p) = {} =>
            \E i \in DOMAIN merged' : merged'[i] = [web |-> Null, player |-> p, steam |-> profiles[p].steam]
    BY <1>1, MigratedRows
<1>3. \A x \in Writers : writing[x] = Quiet
    BY <1>1, Zenon DEF FlightsFit, MergeTypeOK
<1>4. MergeTypeOK' /\ LegacyFits' /\ SchemaFits' /\ Referred'
    <2>1. MergeTypeOK'
        BY <1>1, <1>2 DEF MergeTypeOK
    <2>2. LegacyFits'
        BY <1>1 DEF LegacyFits
    <2>3. SchemaFits' /\ Referred'
        BY <1>1, NumbersAreNone DEF SchemaFits, Referred
    <2> QED BY <2>1, <2>2, <2>3
<1>5. FlightsFit'
    BY <1>1, <1>3, FlightsStay DEF legacyRows
<1>6. /\ \A w \in DOMAIN webUsers : w \in WebIds /\ w # Null /\ webUsers[w].link \in DOMAIN profiles \cup {Null}
      /\ Null \notin DOMAIN profiles /\ NoRef \notin DOMAIN merged'
    BY <1>1, <1>2, LegacyRows DEF LegacyFits, MergeAssumption, Partial, UserNumbers, NoRef
<1>7. RowsFit'
    <2>1. \A i \in DOMAIN merged' : /\ merged'[i].web \in DOMAIN webUsers' \cup {Null}
                                    /\ merged'[i].player \in DOMAIN profiles' \cup {Null}
        BY <1>1, <1>2, <1>6
    <2>2. ASSUME NEW p \in ProfileIds, NEW v \in Linkers(p)', NEW w \in Linkers(p)' PROVE v = w
        <3>1. /\ v \in DOMAIN webUsers /\ webUsers[v].link = p /\ v # Null
              /\ w \in DOMAIN webUsers /\ webUsers[w].link = p /\ w # Null /\ p # Null
            BY <1>1, <1>6 DEF Linkers, MergeAssumption
        <3>2. PICK i, j \in DOMAIN merged' : merged'[i].web = v /\ merged'[j].web = w
            BY <1>2, <3>1
        <3>3. merged'[i].player = p /\ merged'[j].player = p
            BY <1>2, <3>1, <3>2
        <3>4. i = j
            BY <1>1, <3>1, <3>3, Columns
        <3> QED BY <3>2, <3>4
    <2> QED BY <1>1, <1>2, <2>1, <2>2 DEF RowsFit
<1>8. SteamOwned'
    <2>1. ASSUME NEW i \in DOMAIN merged', merged'[i].steam # Null
          PROVE  \/ \E w \in DOMAIN webUsers : webUsers[w].steam = merged'[i].steam /\ merged'[i].web = w
                 \/ \E p \in DOMAIN profiles : profiles[p].steam = merged'[i].steam /\ merged'[i].player = p
        BY <1>2, <1>6, <2>1 DEF Coalesce, SteamOf
    <2> QED BY <1>1, <2>1 DEF SteamOwned
<1>9. Mirrored'
    <2>1. ASSUME NEW w \in DOMAIN webUsers' \ contested'
          PROVE  LET i == UserOf("web", w)'
                 IN  /\ i # NoRef /\ merged'[i].player = webUsers'[w].link
                     /\ merged'[i].steam = Coalesce(SteamOf(webUsers[w].link)', webUsers'[w].steam)
                           \/ webUsers'[w].link \in dirty'
        <3>1. w \in DOMAIN webUsers /\ w # Null
            BY <1>1, <1>6
        <3>2. UserOf("web", w)' \in DOMAIN merged' /\ merged'[UserOf("web", w)'].web = w
            BY <1>1, <1>2, <1>6, <3>1, WebLookup DEF UserOf
        <3>3. SteamOf(webUsers[w].link)' = SteamOf(webUsers[w].link)
            BY <1>1 DEF SteamOf
        <3> QED BY <1>1, <1>2, <1>6, <3>1, <3>2, <3>3
    <2>2. ASSUME NEW p \in DOMAIN profiles' \ contested', Linkers(p)' = {}
          PROVE  \E i \in DOMAIN merged' : merged'[i] = [web |-> Null, player |-> p, steam |-> profiles'[p].steam]
        <3>1. p \in DOMAIN profiles /\ Linkers(p) = {}
            BY <1>1, <2>2 DEF Linkers
        <3> QED BY <1>1, <1>2, <3>1
    <2> QED BY <2>1, <2>2, Zenon DEF Mirrored
<1>10. ReadsFit'
    BY <1>1, <1>3, QuietIs DEF ReadsFit, ReadFits
<1> QED BY <1>4, <1>5, <1>7, <1>8, <1>9, <1>10 DEF MergeInv, MirrorFits

-----------------------------------------------------------------------------
(* What the invariant implies.                                             *)

\* A Steam id of some other's row is not of the identities of a peaceful write.
LEMMA AcceptedWeb ==
    ASSUME MergeAssumption, MergeInv, Mirroring, NEW x \in Writers, writing[x].kind = "web", Peaceful(writing[x])
    PROVE  LET t == writing[x] IN
           /\ ~Clash(After(t))
           /\ Unique(After(t), "steam") \/ SharedSteam(Set(webUsers, t.id, t.row), profiles)
<1> DEFINE t == writing[x]
           link == t.row.link
           web == Set(webUsers, t.id, t.row)
           rows == After(t)
<1>1. /\ MergeTypeOK /\ LegacyFits /\ RowsFit /\ SteamOwned /\ Mirrored /\ ReadFits(t) /\ FlightFits(t)
      /\ t.kind = "web" /\ Contenders(t) = {}
    BY DEF MergeInv, MirrorFits, ReadsFit, FlightsFit, Peaceful
<1>2. PICK j \in DOMAIN rows : PeacefulWeb(t, rows, j)
    <2>1. \E j \in DOMAIN AfterWeb(t) : PeacefulWeb(t, AfterWeb(t), j)
        BY <1>1, PeacefulAfterWeb
    <2>2. rows = AfterWeb(t)
        BY <1>1 DEF After
    <2> HIDE DEF t, rows
    <2> QED BY <2>1, <2>2
<1>3. /\ (link # Null => Linkers(link) \ {t.id} = {})
      /\ t.id \notin contested /\ link \notin contested
    BY <1>1, ContendersAre, PeacefulRows
<1>4. /\ link # Null => link \in DOMAIN profiles /\ t.seen \in {Null, profiles[link].steam}
      /\ link = Null => t.seen = Null
      /\ Unique(web, "steam")
    BY <1>1 DEF FlightFits
<1> HIDE DEF t, link, rows
<1>5. DOMAIN web = DOMAIN webUsers \cup {t.id} /\ web[t.id] = t.row
      /\ \A w \in DOMAIN webUsers \ {t.id} : web[w] = webUsers[w]
    BY DEF Set
<1> HIDE DEF web
<1>6. /\ rows[j].web = t.id /\ rows[j].player = link
      /\ \A i \in DOMAIN rows \ {j} : i \in DOMAIN merged /\ rows[i] = merged[i] /\ merged[i].web # t.id
      /\ \A i \in DOMAIN rows \ {j} : link # Null => merged[i].player # link
      /\ rows[j].steam \in {Null, t.seen, t.row.steam} \/ (j \in DOMAIN merged /\ rows[j].steam = merged[j].steam)
    BY <1>2 DEF PeacefulWeb, link, Coalesce
<1>7. Unique(merged, "web") /\ Unique(merged, "player") /\ Unique(merged, "steam")
    BY <1>1 DEF RowsFit
<1>8. Unique(rows, "web") /\ Unique(rows, "player")
    BY <1>6, <1>7, Columns
<1>9. ASSUME NEW k \in DOMAIN rows \ {j}, rows[k].steam = rows[j].steam, rows[k].steam # Null
      PROVE  SharedSteam(web, profiles)
    <2>1. k \in DOMAIN merged /\ merged[k].steam = rows[j].steam /\ merged[k].steam # Null
          /\ merged[k].web # t.id /\ (link # Null => merged[k].player # link)
        BY <1>6, <1>9
    <2>2. rows[j].steam \in {t.seen, t.row.steam}
        <3>1. ~(j \in DOMAIN merged /\ rows[j].steam = merged[j].steam)
            BY <1>7, <1>9, <2>1, Columns
        <3> QED BY <1>6, <1>9, <3>1
    <2>3. ASSUME NEW w \in DOMAIN webUsers, webUsers[w].steam = merged[k].steam,
                 merged[k].web = w \/ (Tainted(k) /\ w \in contested)
          PROVE  SharedSteam(web, profiles)
        <3>1. w # t.id /\ w \in DOMAIN web /\ web[w] = webUsers[w]
            BY <1>3, <1>5, <2>1, <2>3
        <3>2. web[t.id].steam # web[w].steam
            BY <1>4, <1>5, <2>1, <2>3, <3>1, Columns
        <3>3. t.seen = merged[k].steam /\ link # Null /\ link \in DOMAIN profiles /\ profiles[link].steam = t.seen
            BY <1>4, <1>5, <2>1, <2>2, <2>3, <3>1, <3>2
        <3>4. webUsers[w].link # link
            BY <1>3, <3>1, <3>3 DEF Linkers
        <3> QED BY <2>1, <2>3, <3>1, <3>3, <3>4 DEF SharedSteam
    <2>4. ASSUME NEW p \in DOMAIN profiles, profiles[p].steam = merged[k].steam,
                 merged[k].player = p \/ (Tainted(k) /\ p \in contested)
          PROVE  SharedSteam(web, profiles)
        <3>1. p # Null
            BY <1>1, LegacyRows DEF MergeAssumption
        <3>2. p # link
            BY <1>3, <2>1, <2>4, <3>1
        <3>3. t.seen # merged[k].steam
            <4>1. Unique(profiles, "steam")
                BY <1>1 DEF LegacyFits
            <4> QED BY <1>4, <2>1, <2>4, <3>2, <4>1, Columns
        <3>4. t.row.steam = merged[k].steam
            BY <2>1, <2>2, <3>3
        <3> QED BY <1>5, <2>1, <2>4, <3>2, <3>4 DEF SharedSteam, link
    <2> QED BY <1>1, <2>1, <2>3, <2>4 DEF SteamOwned
<1>10. Unique(rows, "steam") \/ SharedSteam(web, profiles)
    <2>1. SUFFICES ASSUME ~SharedSteam(web, profiles) PROVE Unique(rows, "steam")
        OBVIOUS
    <2>2. \A i, k \in DOMAIN rows : rows[i].steam = rows[k].steam /\ rows[i].steam # Null => i = k
        BY <1>6, <1>7, <1>9, <2>1, Columns
    <2> QED BY <2>2, Columns
<1> QED BY <1>8, <1>10 DEF Clash, t, rows, web

\* Nor of a peaceful write of a player.
LEMMA AcceptedPlayer ==
    ASSUME MergeAssumption, MergeInv, Mirroring, NEW x \in Writers, writing[x].kind = "player", Peaceful(writing[x])
    PROVE  LET t == writing[x] IN
           /\ ~Clash(After(t))
           /\ Unique(After(t), "steam") \/ SharedSteam(webUsers, Set(profiles, t.id, t.row))
<1> DEFINE t == writing[x]
           p == t.id
           own == Own(t)
           players == Set(profiles, t.id, t.row)
           rows == After(t)
<1>1. /\ MergeTypeOK /\ LegacyFits /\ RowsFit /\ SteamOwned /\ Mirrored /\ ReadFits(t) /\ FlightFits(t)
      /\ t.kind = "player" /\ t.id \notin contested
    BY DEF MergeInv, MirrorFits, ReadsFit, FlightsFit, Peaceful
<1>2. p \in ProfileIds /\ p # Null
    BY <1>1, Transactions DEF MergeAssumption
<1>3. Unique(players, "steam")
    BY <1>1 DEF FlightFits
<1>4. /\ own = NoRef => (\A i \in DOMAIN merged : merged[i].player # p) /\ p \notin DOMAIN profiles
      /\ own # NoRef => own \in DOMAIN merged /\ merged[own].player = p /\ ~Tainted(own) /\ p \in DOMAIN profiles
    BY <1>1, OwnRow
<1>5. /\ DOMAIN rows = DOMAIN merged \cup (IF own = NoRef THEN {Fresh} ELSE {})
      /\ \A i \in DOMAIN merged \ {own} : rows[i] = merged[i]
      /\ own = NoRef => rows[Fresh] = [web |-> Null, player |-> p, steam |-> t.row.steam]
      /\ own \in DOMAIN merged => /\ rows[own].web = merged[own].web /\ rows[own].player = p
                                  /\ rows[own].steam = Coalesce(t.row.steam, merged[own].steam)
    <2>1. IsFiniteSet(DOMAIN merged)
        BY <1>1 DEF RowsFit
    <2>2. rows = AfterPlayer(t)
        BY <1>1 DEF After
    <2> QED BY <1>1, <2>1, <2>2, AfterPlayerRows
<1>6. Fresh \notin DOMAIN merged /\ NoRef \notin DOMAIN merged
    BY <1>1, FreshIsNew, NoRefIsNone DEF RowsFit
<1> HIDE DEF t, own, rows
<1>7. DOMAIN players = DOMAIN profiles \cup {p} /\ players[p] = t.row
      /\ \A q \in DOMAIN profiles \ {p} : players[q] = profiles[q]
    BY DEF Set
<1> HIDE DEF players, p
<1>8. Unique(merged, "web") /\ Unique(merged, "player") /\ Unique(merged, "steam")
    BY <1>1 DEF RowsFit
<1> DEFINE j == IF own = NoRef THEN Fresh ELSE own
<1>9. /\ j \in DOMAIN rows /\ rows[j].player = p
      /\ \A i \in DOMAIN rows \ {j} : i \in DOMAIN merged /\ rows[i] = merged[i] /\ merged[i].player # p
      /\ rows[j].web = Null \/ (j \in DOMAIN merged /\ rows[j].web = merged[j].web)
      /\ rows[j].steam = t.row.steam \/ (j \in DOMAIN merged /\ rows[j].steam = merged[j].steam)
    <2>1. CASE own = NoRef
        BY <1>4, <1>5, <1>6, <2>1
    <2>2. CASE own # NoRef
        <3>1. \A i \in DOMAIN merged \ {own} : merged[i].player # p
            BY <1>2, <1>4, <1>8, <2>2, Columns
        <3> QED BY <1>4, <1>5, <1>6, <2>2, <3>1 DEF Coalesce
    <2> QED BY <2>1, <2>2
<1> HIDE DEF j
<1>10. Unique(rows, "web") /\ Unique(rows, "player")
    BY <1>8, <1>9, Columns
<1>11. ASSUME NEW k \in DOMAIN rows \ {j}, rows[k].steam = rows[j].steam, rows[k].steam # Null
       PROVE  SharedSteam(webUsers, players)
    <2>1. k \in DOMAIN merged /\ merged[k].steam = rows[j].steam /\ merged[k].steam # Null /\ merged[k].player # p
        BY <1>9, <1>11
    <2>2. t.row.steam = merged[k].steam
        <3>1. ~(j \in DOMAIN merged /\ rows[j].steam = merged[j].steam)
            BY <1>8, <1>11, <2>1, Columns
        <3> QED BY <1>9, <2>1, <3>1
    <2>3. ASSUME NEW w \in DOMAIN webUsers, webUsers[w].steam = merged[k].steam,
                 merged[k].web = w \/ (Tainted(k) /\ w \in contested)
          PROVE  SharedSteam(webUsers, players)
        <3>1. webUsers[w].link # p
            <4>1. SUFFICES ASSUME webUsers[w].link = p PROVE FALSE
                OBVIOUS
            <4>2. w \notin contested /\ merged[k].web = w
                BY <1>1, <1>2, <2>3, <4>1 DEF RowsFit, p
            <4>3. w \in WebIds
                BY <1>1, LegacyRows
            <4>4. k = UserOf("web", w)
                BY <1>1, <2>1, <4>2, <4>3, UserLookups
            <4>5. merged[k].player = p
                BY <1>1, <4>1, <4>2, <4>4, PeacefulRows
            <4> QED BY <2>1, <4>5
        <3> QED BY <1>7, <2>1, <2>2, <2>3, <3>1 DEF SharedSteam
    <2>4. ASSUME NEW q \in DOMAIN profiles, profiles[q].steam = merged[k].steam,
                 merged[k].player = q \/ (Tainted(k) /\ q \in contested)
          PROVE  FALSE
        <3>1. q # p
            BY <1>1, <2>1, <2>4 DEF p
        <3>2. players[q].steam = players[p].steam /\ players[q].steam # Null /\ q \in DOMAIN players /\ p \in DOMAIN players
            BY <1>7, <2>1, <2>2, <2>4, <3>1
        <3> QED BY <1>3, <3>1, <3>2, Columns
    <2> QED BY <1>1, <2>1, <2>3, <2>4 DEF SteamOwned
<1>12. Unique(rows, "steam") \/ SharedSteam(webUsers, players)
    <2>1. SUFFICES ASSUME ~SharedSteam(webUsers, players) PROVE Unique(rows, "steam")
        OBVIOUS
    <2>2. \A i, k \in DOMAIN rows : rows[i].steam = rows[k].steam /\ rows[i].steam # Null => i = k
        BY <1>8, <1>9, <1>11, <2>1, Columns
    <2> QED BY <2>2, Columns
<1> QED BY <1>10, <1>12 DEF Clash, t, rows, players

\* The mirror refuses a write for nothing but a Steam id shared.
LEMMA AcceptedHolds == ASSUME MergeAssumption, MergeInv PROVE Accepted
<1>1. SUFFICES ASSUME NEW x \in Writers, writing[x] # Quiet, Mirroring, Peaceful(writing[x])
               PROVE  LET t == writing[x] IN
                      /\ ~Clash(After(t))
                      /\ Unique(After(t), "steam")
                         \/ SharedSteam(IF t.kind = "web" THEN Set(webUsers, t.id, t.row) ELSE webUsers,
                                        IF t.kind = "player" THEN Set(profiles, t.id, t.row) ELSE profiles)
    BY Zenon DEF Accepted
<1>2. writing[x].kind = "web" \/ writing[x].kind = "player"
    BY <1>1, Transactions DEF MergeInv
<1>3. CASE writing[x].kind = "web"
    BY <1>1, <1>3, AcceptedWeb
<1>4. CASE writing[x].kind = "player"
    BY <1>1, <1>4, AcceptedPlayer
<1> QED BY <1>2, <1>3, <1>4

\* What the analysis allows 0013 can copy.
LEMMA AllowedHolds == ASSUME MergeAssumption, MergeInv PROVE Allowed
<1>1. SUFFICES ASSUME schema = "legacy", verdict = "ok"
               PROVE  LET rows == Numbered(Backfill)
                      IN  ~Clash(rows) /\ (Unique(rows, "steam") \/ SharedSteam(webUsers, profiles))
    BY DEF Allowed
<1> DEFINE rows == Numbered(Backfill)
<1>2. MergeTypeOK /\ LegacyFits /\ \A p \in ProfileIds : ~(Cardinality(Linkers(p)) > 1)
    BY <1>1 DEF MergeInv, SchemaFits
<1>3. /\ Partial(rows, UserNumbers, UserRow) /\ \A i, j \in DOMAIN rows : rows[i] = rows[j] => i = j
      /\ \A i \in DOMAIN rows :
            \/ /\ rows[i].web \in DOMAIN webUsers /\ rows[i].player = webUsers[rows[i].web].link
               /\ rows[i].steam = Coalesce(SteamOf(rows[i].player), webUsers[rows[i].web].steam)
            \/ /\ rows[i].web = Null /\ rows[i].player \in DOMAIN profiles /\ Linkers(rows[i].player) = {}
               /\ rows[i].steam = profiles[rows[i].player].steam
    BY <1>2, MigratedRows
<1> HIDE DEF rows
<1>4. /\ \A w \in DOMAIN webUsers : w \in WebIds /\ w # Null /\ webUsers[w].link \in DOMAIN profiles \cup {Null}
      /\ Null \notin DOMAIN profiles
    BY <1>2, LegacyRows DEF LegacyFits, MergeAssumption
<1>5. ASSUME NEW p \in ProfileIds, NEW v \in Linkers(p), NEW w \in Linkers(p) PROVE v = w
    <2>1. SUFFICES ASSUME v # w PROVE FALSE
        OBVIOUS
    <2>2. IsFiniteSet(DOMAIN webUsers)
        BY <1>2, FS_Subset DEF MergeAssumption, MergeTypeOK, Partial
    <2>3. Linkers(p) \in SUBSET DOMAIN webUsers
        BY DEF Linkers
    <2>4. IsFiniteSet(Linkers(p))
        BY <2>2, <2>3, FS_Subset
    <2>5. IsFiniteSet({v}) /\ Cardinality({v}) = 1
        BY FS_Singleton
    <2>6. Cardinality({v} \cup {w}) = Cardinality({v}) + 1
        BY <2>1, <2>5, FS_AddElement
    <2>7. {v} \cup {w} \in SUBSET Linkers(p)
        OBVIOUS
    <2>8. Cardinality({v} \cup {w}) <= Cardinality(Linkers(p))
        BY <2>4, <2>7, FS_Subset
    <2>9. Cardinality(Linkers(p)) \in Nat
        BY <2>4, FS_CardinalityType
    <2> QED BY <1>2, <2>5, <2>6, <2>8, <2>9
<1>6. ASSUME NEW i \in DOMAIN rows, NEW j \in DOMAIN rows, rows[i].web = rows[j].web, rows[i].web # Null
      PROVE  i = j
    <2>1. rows[i].player = rows[j].player /\ rows[i].steam = rows[j].steam
        BY <1>3, <1>6
    <2>2. rows[i] \in UserRow /\ rows[j] \in UserRow
        BY <1>3 DEF Partial
    <2>3. rows[i] = rows[j]
        BY <1>6, <2>1, <2>2 DEF UserRow
    <2> QED BY <1>3, <2>3
<1>7. ASSUME NEW i \in DOMAIN rows, NEW j \in DOMAIN rows, rows[i].player = rows[j].player, rows[i].player # Null
      PROVE  i = j
    <2>1. rows[i] \in UserRow /\ rows[j] \in UserRow
        BY <1>3 DEF Partial
    <2>2. rows[i].player \in ProfileIds
        BY <1>7, <2>1 DEF UserRow
    <2>3. \A k \in {i, j} : rows[k].web # Null => rows[k].web \in Linkers(rows[i].player)
        BY <1>3, <1>7 DEF Linkers
    <2>4. \A k \in {i, j} : rows[k].web = Null => Linkers(rows[i].player) = {}
        BY <1>3, <1>4, <1>7
    <2>5. rows[i].web = rows[j].web
        BY <1>5, <2>2, <2>3, <2>4
    <2>6. rows[i].steam = rows[j].steam
        BY <1>3, <1>4, <1>7, <2>5
    <2>7. rows[i] = rows[j]
        BY <1>7, <2>1, <2>5, <2>6 DEF UserRow
    <2> QED BY <1>3, <2>7
<1>8. ASSUME NEW i \in DOMAIN rows, NEW j \in DOMAIN rows, rows[i].steam = rows[j].steam, rows[i].steam # Null,
             ~SharedSteam(webUsers, profiles)
      PROVE  i = j
    <2>1. \A k \in {i, j} :
             \/ rows[k].web \in DOMAIN webUsers /\ webUsers[rows[k].web].steam = rows[k].steam
                /\ rows[k].player = webUsers[rows[k].web].link
             \/ rows[k].player \in DOMAIN profiles /\ profiles[rows[k].player].steam = rows[k].steam
        BY <1>3, <1>4, <1>8 DEF Coalesce, SteamOf
    <2>2. ASSUME NEW k \in {i, j}, NEW l \in {i, j}, rows[k].web \in DOMAIN webUsers,
                 webUsers[rows[k].web].steam = rows[k].steam, rows[k].player = webUsers[rows[k].web].link,
                 rows[l].player \in DOMAIN profiles, profiles[rows[l].player].steam = rows[l].steam
          PROVE  k = l
        <3>1. webUsers[rows[k].web].link = rows[l].player
            BY <1>8, <2>2 DEF SharedSteam
        <3> QED BY <1>4, <1>7, <2>2, <3>1
    <2>3. ASSUME \A k \in {i, j} : rows[k].web \in DOMAIN webUsers /\ webUsers[rows[k].web].steam = rows[k].steam
          PROVE  i = j
        <3>1. Unique(webUsers, "steam")
            BY <1>2 DEF LegacyFits
        <3>2. rows[i].web = rows[j].web /\ rows[i].web # Null
            BY <1>4, <1>8, <2>3, <3>1, Columns
        <3> QED BY <1>6, <3>2
    <2>4. ASSUME \A k \in {i, j} : rows[k].player \in DOMAIN profiles /\ profiles[rows[k].player].steam = rows[k].steam
          PROVE  i = j
        <3>1. Unique(profiles, "steam")
            BY <1>2 DEF LegacyFits
        <3>2. rows[i].player = rows[j].player /\ rows[i].player # Null
            BY <1>4, <1>8, <2>4, <3>1, Columns
        <3> QED BY <1>7, <3>2
    <2> QED BY <2>1, <2>2, <2>3, <2>4
<1>9. ~Clash(rows)
    BY <1>6, <1>7, Columns DEF Clash
<1>10. Unique(rows, "steam") \/ SharedSteam(webUsers, profiles)
    BY <1>8, Columns
<1> QED BY <1>9, <1>10 DEF rows

\* Every step keeps the invariant (MergeInv).
THEOREM MergeInvariant == MergeSpec => []MergeInv
<1>1. MergeInit => MergeInv
    BY MergeInitInv, MergeAssumption
<1>2. MergeInv /\ [MergeNext]_mergeVars => MergeInv'
    <2>1. SUFFICES ASSUME MergeInv, [MergeNext]_mergeVars PROVE MergeInv'
        OBVIOUS
    <2>2. ASSUME NEW x \in Writers, WriteWeb(x) \/ WritePlayer(x) \/ EndWrite(x) PROVE MergeInv'
        BY <2>1, <2>2, MergeAssumption, WriteWebInv, WritePlayerInv, EndWriteInv
    <2>3. ASSUME NEW p \in ProfileIds, Race(p) PROVE MergeInv'
        BY <2>1, <2>3, MergeAssumption, RaceInv
    <2>4. ASSUME NEW w \in WebIds, Join(w) PROVE MergeInv'
        BY <2>1, <2>4, MergeAssumption, JoinInv
    <2>5. ASSUME AnalyseLinks \/ AnalyseSteam \/ Stop \/ Start \/ CreateUsers \/ KeyTables \/ DropLegacy \/ Downgrade PROVE MergeInv'
        BY <2>1, <2>5, MergeAssumption, AnalyseInv, StopInv, CreateUsersInv, KeyTablesInv, DropLegacyInv, DowngradeInv
    <2>6. CASE UNCHANGED mergeVars
        <3> USE DEF mergeVars, legacyRows, keys, troubles
        <3>1. FlightsFit' /\ LegacyFits'
            BY <2>1, <2>6, FlightsStay, LegacyStays DEF MergeInv, FlightsFit
        <3>2. MergeTypeOK' /\ SchemaFits' /\ Referred'
            BY <2>1, <2>6 DEF MergeInv, MergeTypeOK, SchemaFits, Referred, Linkers, SteamOf
        <3>3. Mirroring' => MirrorFits'
            BY <2>1, <2>6, MirrorStays DEF MergeInv, Mirroring
        <3> QED BY <3>1, <3>2, <3>3 DEF MergeInv
    <2> QED BY <2>1, <2>2, <2>3, <2>4, <2>5, <2>6 DEF MergeNext
<1> QED BY <1>1, <1>2, PTL DEF MergeSpec

\* The merge keeps every identity, and everything that refers to one, through writes that
\* overlap, failures and downgrades, and refuses nothing it should take (MergeSound).
THEOREM MergeIsSound == MergeSpec => []MergeSound
<1>1. MergeInv => MergeSound
    BY MergeAssumption, AcceptedHolds, AllowedHolds DEF MergeSound, MergeInv, MirrorFits
<1> QED BY <1>1, MergeInvariant, PTL

=============================================================================
