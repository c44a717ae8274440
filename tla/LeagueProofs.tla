----------------------------- MODULE LeagueProofs -----------------------------
(***************************************************************************)
(* Proofs about what a race leaves players with: standing and achievements.*)
(*                                                                         *)
(* League tables, whatever jobs overlap: the championship tables are one   *)
(* recalculation's, ratings are booked for whole races, and what the       *)
(* standings and times count is exact where no two jobs overlap.           *)
(*                                                                         *)
(* Achievements, for any number of players, races and restarts, and for    *)
(* any record of a race: a job saves codes its players do not have, so     *)
(* only two jobs that wait for one player save one twice (OnceEach).  Each *)
(* checker sees the races committed when it runs, so one may miss what a   *)
(* race committed later completes; the job of the last race of those that  *)
(* count sees them all, in each of its checkers, and finds it: a first win *)
(* (FirstWins), three wins at the end of a season, where LIMIT 3 finds     *)
(* three races that nothing committed since has replaced (Dominations,     *)
(* LimitIsLast, LastRoundsStay), or a code that another includes           *)
(* (Included, ReturnedIsDeserved, DeservedIsReturned).                     *)
(***************************************************************************)
EXTENDS Achievements, LeagueTables, FiniteSetTheorems, WellFoundedInduction, TLAPS

-----------------------------------------------------------------------------
(* League tables: the inductive invariant.                                 *)

\* Where a job is says what it has loaded.
JobsFit ==
    /\ \A r \in Races : step[r] \notin {"fix", "order", "place"} /\ (r \in DOMAIN results <=> ~At(r, "new"))
    /\ \A p \in Penalties : /\ step[p] \notin {"rate", "flush", "rated"}
                            /\ ~At(p, "new") => target[p].race \in DOMAIN results
                            /\ Correcting(p) => DOMAIN view[p] = {target[p].race}
    /\ \A j \in Jobs : /\ ids[j] \subseteq DOMAIN results
                       /\ Recalculating(j) => ids[j] # {}
                       /\ step[j] \in {"delete", "wait", "insert"} => DOMAIN view[j] = ids[j]

TablesInv == TablesAgree /\ (wdc = {} => wcc = {})

\* The lines of a race a call has loaded are those of the table, unless calls for it overlap.
CallsInv ==
    /\ \A p, q \in Penalties :
          Correcting(p) /\ Correcting(q) /\ target[p].race = target[q].race => p = q \/ target[p].race \in overlapped
    /\ \A p \in Penalties : LET r == target[p].race
                            IN  Correcting(p) => view[p][r] = results[r] \/ r \in overlapped
    /\ \A r \in DOMAIN results \ overlapped : \A d \in Drivers : results[r][d].points = CalcPoints(results[r][d])

\* A recalculation that has no rival deletes all there is ...
DeletesAll ==
    "standings" \notin overlapped =>
        /\ \A j, k \in Jobs : Recalculating(j) /\ Recalculating(k) => j = k
        /\ \A j \in Jobs : step[j] \in {"wait", "insert"} => {row.by : row \in wdc} \subseteq doomed[j]

\* ... and what it inserts counts every race, if none has come or changed since it listed them.
Counts(j) ==
    IF At(j, "read") THEN ids[j] = DOMAIN results
    ELSE /\ ids[j] = DOMAIN results
         /\ \A r \in ids[j], d \in Drivers : CalcPoints(view[j][r][d]) = results[r][d].points

NothingMissed ==
    reboots = 0 /\ overlapped \cap ({"standings"} \cup Races) = {} =>
        \/ \E j \in Jobs : At(j, "list")
        \/ /\ \A j \in Jobs : Recalculating(j) => Counts(j)
           /\ (\E j \in Jobs : Recalculating(j)) \/ Current \/ DOMAIN results = {}

Booked(h) == {x \in history : x[2] = h}

RatingsInv ==
    /\ IsFiniteSet(history)
    /\ \A x \in history : At(x[1], "done")
    /\ \A r \in Races : At(r, "flush") \/ At(r, "rated") => Cardinality(Humans) > 1
    /\ \A r \in Races, h \in Humans : seen[r][h] # Unrated =>
          rating[h] # Unrated /\ seen[r][h].rated =< Cardinality(Booked(h))
    /\ "ratings" \notin overlapped =>
          /\ \A r, k \in Races : Rating(r) /\ Rating(k) => r = k
          /\ \A r \in Races : Rating(r) => seen[r] = rating
    /\ RatingsBooked

\* Times grow by recorded corrections only, and whoever changes one goes on to the places.
Placed(r) == \A a, b \in Drivers : Before(results[r][a], results[r][b]) => results[r][a].pos < results[r][b].pos

PenaltiesInv ==
    /\ IsFiniteSet(penalties)
    /\ \A x \in penalties : step[x[1]] \notin {"new", "fix"} /\ x[2] = target[x[1]]
    /\ \A r \in DOMAIN results \ overlapped : \A d \in Drivers : results[r][d].time # NoTime =>
          results[r][d].flag \in Int /\ results[r][d].time = results[r][d].flag + SecondsOf(r, d)
    /\ reboots = 0 => \A r \in DOMAIN results \ overlapped : (\E x \in penalties : x[2].race = r) =>
          Placed(r) \/ \E p \in Penalties : step[p] \in {"order", "place"} /\ target[p].race = r

LeagueInv ==
    /\ LeagueTypeOK /\ JobsFit /\ TablesInv /\ CallsInv /\ DeletesAll /\ NothingMissed
    /\ RatingsInv /\ PenaltiesInv

-----------------------------------------------------------------------------
(* Induction over finite sets, and sums.                                    *)

\* A set of subsets of S that has T whenever it has T without any one element has all of them.
LEMMA SetInduction ==
    ASSUME NEW S, IsFiniteSet(S), NEW G,
           \A T \in SUBSET S : (\A x \in T : T \ {x} \in G) => T \in G
    PROVE  \A T \in SUBSET S : T \in G
<1> DEFINE Bad == {T \in SUBSET S : T \notin G}
<1> SUFFICES ASSUME Bad # {} PROVE FALSE
    OBVIOUS
<1>1. Bad \subseteq FiniteSubsetsOf(S)
    BY FS_Subset DEF FiniteSubsetsOf
<1>2. PICK T \in Bad : \A U \in Bad : <<U, T>> \notin StrictSubsetOrdering(S)
    <2> HIDE DEF Bad
    <2> QED BY <1>1, WFMin, FS_StrictSubsetOrderingWellFounded
<1>3. ASSUME NEW x \in T PROVE T \ {x} \notin Bad
    <2>1. T \ {x} \in SUBSET S /\ T \in SUBSET S /\ T \ {x} # T
        OBVIOUS
    <2>2. <<T \ {x}, T>> \in StrictSubsetOrdering(S)
        BY <2>1 DEF StrictSubsetOrdering
    <2> QED BY <1>2, <2>2
<1> QED BY <1>2, <1>3

\* A sum over all subsets of a set, element by element, as the folds compute it.
SumStep(f, T, g) == IF T = {} THEN 0 ELSE LET x == CHOOSE x \in T : TRUE IN f[x] + g[T \ {x}]
IsSum(f, S, g) == g = [T \in SUBSET S |-> SumStep(f, T, g)]
SumOf(f, S) == CHOOSE g : IsSum(f, S, g)

\* The library's fold is the sum defined here.
LEMMA SumIs == \A f, S : SumFunctionOnSet(f, S) = SumOf(f, S)[S]
BY DEF SumFunctionOnSet, FoldFunctionOnSet, MapThenFoldSet, SumOf, IsSum, SumStep

\* Two sums of the same values agree where both are defined.
LEMMA SumUnique ==
    ASSUME NEW f, NEW S, IsFiniteSet(S), NEW g, IsSum(f, S, g), NEW U, NEW h, IsSum(f, U, h)
    PROVE  \A T \in SUBSET S : T \subseteq U => g[T] = h[T]
<1> DEFINE G == {T \in SUBSET S : T \subseteq U => g[T] = h[T]}
<1>1. ASSUME NEW T \in SUBSET S, \A x \in T : T \ {x} \in G PROVE T \in G
    <2> SUFFICES ASSUME T \subseteq U PROVE g[T] = h[T]
        OBVIOUS
    <2>1. g[T] = SumStep(f, T, g) /\ h[T] = SumStep(f, T, h)
        BY DEF IsSum
    <2>2. CASE T = {}
        BY <2>1, <2>2 DEF SumStep
    <2>3. CASE T # {}
        <3>1. (CHOOSE x \in T : TRUE) \in T
            BY <2>3
        <3> QED BY <1>1, <2>1, <3>1 DEF SumStep
    <2> QED BY <2>2, <2>3
<1> HIDE DEF G
<1>2. \A T \in SUBSET S : T \in G
    BY <1>1, SetInduction
<1> QED BY <1>2 DEF G

\* A sum over the subsets of S is one over the subsets of a part of S.
LEMMA SumRestricts ==
    ASSUME NEW f, NEW S, NEW g, IsSum(f, S, g), NEW U \in SUBSET S
    PROVE  IsSum(f, U, [T \in SUBSET U |-> g[T]])
<1> DEFINE h == [T \in SUBSET U |-> g[T]]
<1>1. ASSUME NEW T \in SUBSET U PROVE g[T] = SumStep(f, T, h)
    <2>1. g[T] = SumStep(f, T, g)
        BY DEF IsSum
    <2>2. T # {} => T \ {CHOOSE x \in T : TRUE} \in SUBSET U
        OBVIOUS
    <2> QED BY <2>1, <2>2 DEF SumStep
<1> QED BY <1>1 DEF IsSum

\* Over a finite set there is such a sum.
LEMMA SumExists ==
    ASSUME NEW f, NEW S, IsFiniteSet(S)
    PROVE  \A U \in SUBSET S : IsSum(f, U, SumOf(f, U))
<1> DEFINE G == {U \in SUBSET S : \E g : IsSum(f, U, g)}
<1>1. ASSUME NEW U \in SUBSET S, \A x \in U : U \ {x} \in G PROVE U \in G
    <2> DEFINE val(T) == IF T = {} THEN 0 
                         ELSE LET x == CHOOSE x \in T : TRUE IN f[x] + SumOf(f, T \ {x})[T \ {x}]
               g == [T \in SUBSET U |-> val(T)]
    <2>1. ASSUME NEW V \in SUBSET U, V # U PROVE IsSum(f, V, SumOf(f, V))
        <3>1. PICK x \in U : x \notin V
            BY <2>1
        <3>2. PICK h : IsSum(f, U \ {x}, h)
            BY <1>1
        <3>3. IsSum(f, V, [T \in SUBSET V |-> h[T]])
            BY <3>1, <3>2, SumRestricts, V \in SUBSET (U \ {x})
        <3> QED BY <3>3 DEF SumOf
    <2>2. ASSUME NEW V \in SUBSET U, V # U PROVE SumOf(f, V)[V] = val(V)
        <3> DEFINE k == SumOf(f, V)
                   x == CHOOSE x \in V : TRUE
                   W == V \ {x}
        <3>1. k[V] = SumStep(f, V, k)
            BY <2>1, <2>2 DEF IsSum
        <3>2. CASE V = {}
            BY <3>1, <3>2 DEF SumStep
        <3>3. CASE V # {}
            <4>1. x \in V /\ W \in SUBSET U /\ W # U /\ W \subseteq V
                BY <3>3
            <4>2. IsFiniteSet(V)
                BY FS_Subset
            <4>3. k[W] = SumOf(f, W)[W]
                BY <2>1, <2>2, <4>1, <4>2, SumUnique
            <4> QED BY <3>1, <3>3, <4>3 DEF SumStep
        <3> QED BY <3>2, <3>3
    <2>3. ASSUME NEW T \in SUBSET U PROVE val(T) = SumStep(f, T, g)
        <3>1. CASE T = {}
            BY <3>1 DEF SumStep
        <3>2. CASE T # {}
            <4> DEFINE x == CHOOSE x \in T : TRUE
            <4>1. x \in T /\ T \ {x} \in SUBSET U /\ T \ {x} # U
                BY <3>2
            <4>2. g[T \ {x}] = SumOf(f, T \ {x})[T \ {x}]
                <5> HIDE DEF x
                <5>1. g[T \ {x}] = val(T \ {x})
                    BY <4>1
                <5> HIDE DEF val, g
                <5> QED BY <2>2, <4>1, <5>1
            <4> QED BY <3>2, <4>2 DEF SumStep
        <3> QED BY <3>1, <3>2
    <2>4. IsSum(f, U, g)
        <3> HIDE DEF val
        <3> QED BY <2>3 DEF IsSum
    <2> QED BY <2>4
<1> HIDE DEF G
<1>2. \A T \in SUBSET S : T \in G
    BY <1>1, SetInduction
<1> QED BY <1>2 DEF SumOf, G

\* Nothing sums to zero.
LEMMA SumEmpty == \A f : SumFunctionOnSet(f, {}) = 0
<1> TAKE f
<1>1. IsSum(f, {}, SumOf(f, {}))
    BY SumExists, FS_EmptySet
<1> QED BY <1>1, SumIs DEF IsSum, SumStep

\* The fold takes one of the elements out.
LEMMA SumTakesOut ==
    \A f, S : IsFiniteSet(S) /\ S # {} =>
        \E x \in S : SumFunctionOnSet(f, S) = f[x] + SumFunctionOnSet(f, S \ {x})
<1> SUFFICES ASSUME NEW f, NEW S, IsFiniteSet(S), S # {}
             PROVE  \E x \in S : SumFunctionOnSet(f, S) = f[x] + SumFunctionOnSet(f, S \ {x})
    OBVIOUS
<1> DEFINE x == CHOOSE y \in S : TRUE
           g == SumOf(f, S)
           h == SumOf(f, S \ {x})
<1>1. x \in S
    OBVIOUS
<1>2. IsSum(f, S, g) /\ IsSum(f, S \ {x}, h)
    BY SumExists
<1>3. g[S] = f[x] + g[S \ {x}]
    BY <1>2 DEF IsSum, SumStep
<1>4. g[S \ {x}] = h[S \ {x}]
    BY <1>2, SumUnique
<1> HIDE DEF g, h, x
<1>5. SumFunctionOnSet(f, S) = f[x] + SumFunctionOnSet(f, S \ {x})
    BY <1>3, <1>4, SumIs DEF g, h
<1> QED BY <1>1, <1>5

\* Naturals sum to a natural, integers to an integer.
LEMMA SumType ==
    ASSUME NEW f, NEW S, IsFiniteSet(S), NEW V, V \in {Nat, Int}, \A x \in S : f[x] \in V
    PROVE  \A T \in SUBSET S : SumFunctionOnSet(f, T) \in V
<1> DEFINE G == {T \in SUBSET S : SumFunctionOnSet(f, T) \in V}
<1>1. ASSUME NEW T \in SUBSET S, \A x \in T : T \ {x} \in G PROVE T \in G
    <2>1. CASE T = {}
        BY <2>1, SumEmpty
    <2>2. CASE T # {}
        <3>1. IsFiniteSet(T)
            BY FS_Subset
        <3>2. PICK x \in T : SumFunctionOnSet(f, T) = f[x] + SumFunctionOnSet(f, T \ {x})
            BY <2>2, <3>1, SumTakesOut
        <3>3. f[x] \in V /\ SumFunctionOnSet(f, T \ {x}) \in V
            BY <1>1
        <3> QED BY <3>2, <3>3
    <2> QED BY <2>1, <2>2
<1> HIDE DEF G
<1>2. \A T \in SUBSET S : T \in G
    BY <1>1, SetInduction
<1> QED BY <1>2 DEF G

\* The order makes no difference: any element can be taken out.
LEMMA SumRemove ==
    ASSUME NEW f, NEW S, IsFiniteSet(S), \A x \in S : f[x] \in Int
    PROVE  \A T \in SUBSET S : \A x \in T :
               SumFunctionOnSet(f, T) = f[x] + SumFunctionOnSet(f, T \ {x})
<1> DEFINE G == {T \in SUBSET S : \A x \in T :
                    SumFunctionOnSet(f, T) = f[x] + SumFunctionOnSet(f, T \ {x})}
<1>1. ASSUME NEW T \in SUBSET S, \A x \in T : T \ {x} \in G PROVE T \in G
    <2> SUFFICES ASSUME NEW x \in T
                 PROVE  SumFunctionOnSet(f, T) = f[x] + SumFunctionOnSet(f, T \ {x})
        OBVIOUS
    <2>1. IsFiniteSet(T)
        BY FS_Subset
    <2>2. PICK c \in T : SumFunctionOnSet(f, T) = f[c] + SumFunctionOnSet(f, T \ {c})
        BY <2>1, SumTakesOut
    <2>3. CASE x # c
        <3>1. SumFunctionOnSet(f, T \ {c}) = f[x] + SumFunctionOnSet(f, (T \ {c}) \ {x})
            BY <1>1, <2>3
        <3>2. SumFunctionOnSet(f, T \ {x}) = f[c] + SumFunctionOnSet(f, (T \ {x}) \ {c})
            BY <1>1, <2>3
        <3>3. (T \ {c}) \ {x} = (T \ {x}) \ {c}
            OBVIOUS
        <3> DEFINE m == SumFunctionOnSet(f, (T \ {x}) \ {c})
        <3>4. m \in Int
            BY SumType, (T \ {x}) \ {c} \in SUBSET S
        <3>5. f[x] \in Int /\ f[c] \in Int
            OBVIOUS
        <3>6. /\ SumFunctionOnSet(f, T \ {c}) = f[x] + m
              /\ SumFunctionOnSet(f, T \ {x}) = f[c] + m
            BY <3>1, <3>2, <3>3
        <3> HIDE DEF m
        <3>7. f[c] + (f[x] + m) = f[x] + (f[c] + m)
            BY <3>4, <3>5
        <3> QED BY <2>2, <3>6, <3>7
    <2> QED BY <2>2, <2>3
<1> HIDE DEF G
<1>2. \A T \in SUBSET S : T \in G
    BY <1>1, SetInduction
<1> QED BY <1>2 DEF G

\* Functions with the same values have the same sum.
LEMMA SumSame ==
    ASSUME NEW f, NEW g, NEW S, IsFiniteSet(S), \A x \in S : f[x] \in Int /\ f[x] = g[x]
    PROVE  SumFunctionOnSet(f, S) = SumFunctionOnSet(g, S)
<1> DEFINE G == {T \in SUBSET S : SumFunctionOnSet(f, T) = SumFunctionOnSet(g, T)}
<1>1. ASSUME NEW T \in SUBSET S, \A x \in T : T \ {x} \in G PROVE T \in G
    <2>1. CASE T = {}
        BY <2>1, SumEmpty
    <2>2. CASE T # {}
        <3>1. IsFiniteSet(T)
            BY FS_Subset
        <3>2. PICK x \in T : SumFunctionOnSet(f, T) = f[x] + SumFunctionOnSet(f, T \ {x})
            BY <2>2, <3>1, SumTakesOut
        <3>3. SumFunctionOnSet(g, T) = g[x] + SumFunctionOnSet(g, T \ {x})
            BY SumRemove
        <3>4. f[x] = g[x] /\ SumFunctionOnSet(f, T \ {x}) = SumFunctionOnSet(g, T \ {x})
            BY <1>1
        <3> QED BY <3>2, <3>3, <3>4
    <2> QED BY <2>1, <2>2
<1> HIDE DEF G
<1>2. \A T \in SUBSET S : T \in G
    BY <1>1, SetInduction
<1> QED BY <1>2 DEF G
-----------------------------------------------------------------------------
(* The lines of the tables.                                                 *)

\* Points are natural numbers.
LEMMA PointsNat ==
    ASSUME NEW row, row.pos \in Nat \ {0}
    PROVE  CalcPoints(row) \in Nat
<1>1. row.pos =< 10 => row.pos \in 1..10
    OBVIOUS
<1> QED BY <1>1 DEF CalcPoints, PointsMap

\* So are those of every result.
LEMMA ResultPoints ==
    ASSUME NEW row \in Result
    PROVE  CalcPoints(row) \in Nat
BY PointsNat, FS_CardinalityType, LeagueAssumption DEF Result, Places

\* Naturals are well-ordered.
LEMMA LowestFound ==
    ASSUME NEW S \in SUBSET Nat, S # {}
    PROVE  Lowest(S) \in S
<1>1. PICK x \in S : \A y \in S : <<y, x>> \notin OpToRel(<, Nat)
    BY WFMin, NatLessThanWellFounded
<1>2. ASSUME NEW y \in S, ~(x =< y) PROVE FALSE
    <2>1. y < x /\ <<y, x>> \in Nat \X Nat
        BY <1>2
    <2>2. <<y, x>> \in OpToRel(<, Nat)
        BY <2>1 DEF OpToRel
    <2> QED BY <1>1, <2>2
<1> QED BY <1>2 DEF Lowest

\* A driver's line of the standings has its type.
LEMMA LineType ==
    ASSUME NEW res, IsResults(res), DOMAIN res # {}, NEW d \in Drivers
    PROVE  CalcWdc(res, d) \in [points : Nat, wins : Nat, best : Nat]
<1> DEFINE D == DOMAIN res
           scored == [r \in D |-> CalcPoints(res[r][d])]
           won    == {r \in D : res[r][d].pos = 1}
           places == {res[r][d].pos : r \in D}
<1>1. IsFiniteSet(D)
    BY FS_Subset, LeagueAssumption DEF IsResults
<1>2. \A r \in D : res[r][d] \in Result
    BY DEF IsResults
<1>3. SumFunctionOnSet(scored, D) \in Nat
    <2>1. \A r \in D : scored[r] \in Nat
        BY <1>2, ResultPoints
    <2> HIDE DEF scored, D
    <2> QED BY <1>1, <2>1, SumType
<1>4. Cardinality(won) \in Nat
    BY <1>1, FS_Subset, FS_CardinalityType
<1>5. Lowest(places) \in Nat
    <2>0. \A r \in D : res[r][d].pos \in Nat
        BY <1>2, FS_CardinalityType, LeagueAssumption DEF Result, Places
    <2>1. places \subseteq Nat /\ places # {}
        BY <2>0
    <2> HIDE DEF places
    <2> QED BY <2>1, LowestFound
<1> QED BY <1>3, <1>4, <1>5 DEF CalcWdc

\* So have the rows inserted into the drivers' championship ...
LEMMA RowsType ==
    ASSUME NEW res, IsResults(res), DOMAIN res # {}, NEW j \in Jobs,
           NEW order \in [Drivers -> Places], NEW line, line = [d \in Drivers |-> CalcWdc(res, d)]
    PROVE  /\ WdcRows(line, order, j) \subseteq WdcRow
           /\ IsFiniteSet(WdcRows(line, order, j))
<1>1. WdcRows(line, order, j) \subseteq WdcRow
    <2>1. \A d \in Drivers : line[d] \in [points : Nat, wins : Nat, best : Nat]
        BY LineType
    <2>2. \A d \in Drivers : order[d] \in Nat
        BY FS_CardinalityType, LeagueAssumption DEF Places
    <2> QED BY <2>1, <2>2 DEF WdcRows, WdcRow
<1>2. IsFiniteSet(WdcRows(line, order, j))
    <2> DEFINE rows == WdcRows(line, order, j)
               f == [d \in Drivers |-> [driver |-> d, points |-> line[d].points, wins |-> line[d].wins,
                                        best |-> line[d].best, position |-> order[d], by |-> j]]
    <2>1. f \in Surjection(Drivers, rows)
        BY DEF Surjection, WdcRows
    <2> HIDE DEF f, rows
    <2>2. IsFiniteSet(rows)
        BY <2>1, FS_Surjection, LeagueAssumption
    <2> QED BY <2>2 DEF rows
<1> QED BY <1>1, <1>2

\* ... and those of the constructors.
LEMMA TeamType ==
    ASSUME NEW rows \in SUBSET WdcRow, IsFiniteSet(rows), NEW j \in Jobs
    PROVE  WccRows(rows, j) \subseteq WccRow
<1> SUFFICES ASSUME NEW row \in rows, NEW t, t = TeamOf[row.driver]
             PROVE  CalcWcc(rows, t, j) \in WccRow
    BY DEF WccRows
<1> DEFINE own == {x \in rows : TeamOf[x.driver] = t}
           points == [x \in own |-> x.points]
           wins == [x \in own |-> x.wins]
<1>1. t \in Constructors
    BY LeagueAssumption DEF WdcRow
<1>2. IsFiniteSet(own)
    BY FS_Subset
<1>3. \A x \in own : points[x] \in Nat /\ wins[x] \in Nat
    BY DEF WdcRow
<1>4. SumFunctionOnSet(points, own) \in Nat /\ SumFunctionOnSet(wins, own) \in Nat
    <2> HIDE DEF own, points, wins
    <2> QED BY <1>2, <1>3, SumType
<1>5. CalcWcc(rows, t, j) = [team |-> t, points |-> SumFunctionOnSet(points, own),
                             wins |-> SumFunctionOnSet(wins, own), by |-> j]
    BY DEF CalcWcc
<1> HIDE DEF own, points, wins
<1> QED BY <1>1, <1>4, <1>5 DEF WccRow

-----------------------------------------------------------------------------
(* Types.                                                                   *)

\* The types at the start.
LEMMA LeagueTypeInit == LeagueInit => LeagueTypeOK
<1> SUFFICES ASSUME LeagueInit PROVE LeagueTypeOK
    OBVIOUS
<1>1. IsResults(NoResults)
    BY DEF IsResults, NoResults
<1> QED BY <1>1, LeagueAssumption DEF LeagueInit, LeagueTypeOK, Steps, Jobs

\* A job that only reads or deletes keeps the types.
LEMMA LoadedType ==
    ASSUME LeagueTypeOK, JobsFit, NEW j \in Jobs, ListRaces(j) \/ ReadResults(j) \/ BeginDelete(j) \/ EndDelete(j)
    PROVE  LeagueTypeOK'
<1> USE DEF LeagueTypeOK, Jobs, Steps, At, To, Reload, tables
<1>1. CASE ListRaces(j)
    BY <1>1 DEF ListRaces, IsResults
<1>2. CASE ReadResults(j)
    <2>1. IsResults([r \in ids[j] |-> results[r]])
        BY <1>2 DEF ReadResults, IsResults, JobsFit
    <2> QED BY <1>2, <2>1 DEF ReadResults
<1>3. CASE BeginDelete(j)
    <2>1. {row.by : row \in wdc} \subseteq Jobs
        BY DEF WdcRow
    <2> QED BY <1>3, <2>1 DEF BeginDelete
<1>4. CASE EndDelete(j)
    BY <1>4 DEF EndDelete
<1> QED BY <1>1, <1>2, <1>3, <1>4

\* A job that ends keeps the types of what jobs hold.
LEMMA ForgetType ==
    ASSUME LeagueTypeOK, NEW j \in Jobs, Forget(j)
    PROVE  /\ ids' \in [Jobs -> SUBSET Races]
           /\ DOMAIN view' = Jobs /\ \A k \in Jobs : IsResults(view'[k])
           /\ doomed' \in [Jobs -> SUBSET Jobs]
<1>1. IsResults(NoResults)
    BY DEF IsResults, NoResults
<1> QED BY <1>1 DEF Forget, Reload, LeagueTypeOK

\* So does the insertion of the standings, done or refused.
LEMMA InsertType ==
    ASSUME LeagueTypeOK, JobsFit, NEW j \in Jobs, InsertStandings(j) \/ InsertFails(j)
    PROVE  LeagueTypeOK'
<1>1. /\ step' \in [Jobs -> Steps]
      /\ ids' \in [Jobs -> SUBSET Races]
      /\ DOMAIN view' = Jobs /\ \A k \in Jobs : IsResults(view'[k])
      /\ doomed' \in [Jobs -> SUBSET Jobs]
    BY ForgetType DEF InsertStandings, InsertFails, AfterStandings, To, LeagueTypeOK, Steps, Jobs
<1>2. CASE InsertStandings(j)
    <2> DEFINE line == [d \in Drivers |-> CalcWdc(view[j], d)]
    <2>1. PICK order \in [Drivers -> Places] :
               /\ wdc' = Left(j) \cup WdcRows(line, order, j)
               /\ wcc' = {row \in wcc : row.by \notin doomed[j]} \cup WccRows(WdcRows(line, order, j), j)
        BY <1>2 DEF InsertStandings, Rankings, Bijection, Injection
    <2>2. IsResults(view[j]) /\ DOMAIN view[j] # {}
        BY <1>2 DEF InsertStandings, At, JobsFit, LeagueTypeOK, Recalculating
    <2>3. WdcRows(line, order, j) \subseteq WdcRow /\ IsFiniteSet(WdcRows(line, order, j))
        BY <2>2, RowsType
    <2>4. WccRows(WdcRows(line, order, j), j) \subseteq WccRow
        BY <2>3, TeamType
    <2> HIDE DEF line
    <2>5. wdc' \subseteq WdcRow /\ wcc' \subseteq WccRow
        BY <2>1, <2>3, <2>4 DEF Left, LeagueTypeOK
    <2> QED BY <1>1, <1>2, <2>5 DEF InsertStandings, LeagueTypeOK
<1>3. CASE InsertFails(j)
    BY <1>1, <1>3 DEF InsertFails, LeagueTypeOK, tables
<1> QED BY <1>2, <1>3

\* A rating read or computed has the type of a row.
LEMMA RatingRowType ==
    ASSUME LeagueTypeOK, NEW r \in Races, NEW h \in Humans, NEW new \in Ratings,
           h \notin Missing(r) => rating[h] # Unrated
    PROVE  /\ RowSeen(r, h) \in RatingRow
           /\ Rated(r, h, new) \in RatingRow
<1>1. RowSeen(r, h) \in RatingRow
    BY LeagueAssumption DEF RowSeen, Missing, LeagueTypeOK, RatingRow
<1>2. h \notin Missing(r) => rating[h] \in RatingRow
    BY DEF LeagueTypeOK
<1> QED BY <1>1, <1>2 DEF Rated, RatingRow, Greater

\* The rating job keeps the types.
LEMMA RatingsType ==
    ASSUME LeagueTypeOK, JobsFit, RatingsInv, NEW r \in Races, RatingJob(r)
    PROVE  LeagueTypeOK'
<1> USE DEF At, To, Reload
<1>1. step' \in [Jobs -> Steps]
    BY DEF RatingJob, LoadRatings, FlushRatings, FlushFails, SaveRatings, LeagueTypeOK, Jobs, Steps
<1>2. CASE LoadRatings(r)
    BY <1>1, <1>2 DEF LoadRatings, LeagueTypeOK, tables
<1>3. CASE FlushRatings(r)
    BY <1>1, <1>3 DEF FlushRatings, LeagueTypeOK, tables, local, loaded
<1>4. CASE FlushFails(r)
    BY <1>1, <1>4 DEF FlushFails, LeagueTypeOK, tables, loaded, Unseen
<1>5. CASE SaveRatings(r)
    <2>1. PICK new \in [Humans -> Ratings] :
              /\ rating' = [h \in Humans |-> Rated(r, h, new[h])]
              /\ history' = history \cup {<<r, h, RowSeen(r, h).rating, new[h]>> : h \in Humans}
        BY <1>5 DEF SaveRatings
    <2>2. \A h \in Humans : RowSeen(r, h) \in RatingRow /\ Rated(r, h, new[h]) \in RatingRow
        BY RatingRowType DEF RatingsInv, Missing
    <2>3. rating' \in [Humans -> RatingRow \cup {Unrated}]
        BY <2>1, <2>2
    <2>4. \A h \in Humans : RowSeen(r, h).rating \in Ratings
        BY <2>2 DEF RatingRow
    <2>5. history' \subseteq Races \X Humans \X Ratings \X Ratings
        BY <2>1, <2>4 DEF LeagueTypeOK
    <2>6. seen' \in [Races -> [Humans -> RatingRow \cup {Unrated}]]
        BY <1>5 DEF SaveRatings, LeagueTypeOK, Unseen
    <2> QED BY <1>1, <1>5, <2>3, <2>5, <2>6 DEF SaveRatings, LeagueTypeOK, loaded
<1> QED BY <1>2, <1>3, <1>4, <1>5 DEF RatingJob

\* The commit of a race keeps the types.
LEMMA CommitType ==
    ASSUME LeagueTypeOK, NEW r \in Races, CommitRace(r)
    PROVE  LeagueTypeOK'
<1>1. PICK o \in Outcomes :
          results' = [q \in DOMAIN results \cup {r} |->
                         IF q = r THEN [d \in Drivers |-> [o[d] EXCEPT !.points = CalcPoints(o[d])]]
                         ELSE results[q]]
    BY DEF CommitRace
<1>2. [d \in Drivers |-> [o[d] EXCEPT !.points = CalcPoints(o[d])]] \in [Drivers -> Result]
    <2>1. \A d \in Drivers : o[d] \in Result /\ CalcPoints(o[d]) \in Nat
        BY ResultPoints, LeagueAssumption
    <2> QED BY <2>1 DEF Result
<1>3. IsResults(results')
    BY <1>1, <1>2 DEF IsResults, LeagueTypeOK
<1> QED BY <1>3 DEF CommitRace, LeagueTypeOK, To, local, loaded, Jobs, Steps

\* Results placed anew are results.
LEMMA ReplacedType ==
    ASSUME NEW now \in [Drivers -> Result], NEW old \in [Drivers -> Result], NEW order \in [Drivers -> Places]
    PROVE  Replaced(now, old, order) \in [Drivers -> Result]
<1> SUFFICES ASSUME NEW d \in Drivers PROVE Replaced(now, old, order)[d] \in Result
    BY DEF Replaced
<1> DEFINE points == CalcPoints([old[d] EXCEPT !.pos = order[d]])
<1>1. points \in Nat
    <2>1. [old[d] EXCEPT !.pos = order[d]] \in Result
        BY DEF Result
    <2> QED BY <2>1, ResultPoints
<1>2. Replaced(now, old, order)[d] =
          [now[d] EXCEPT !.pos    = IF order[d] = old[d].pos THEN @ ELSE order[d],
                         !.points = IF points = old[d].points THEN @ ELSE points]
    BY DEF Replaced
<1>3. /\ now[d] \in Result
      /\ (IF order[d] = old[d].pos THEN now[d].pos ELSE order[d]) \in Places
      /\ (IF points = old[d].points THEN now[d].points ELSE points) \in Nat
    BY <1>1 DEF Result
<1> HIDE DEF points
<1> QED BY <1>2, <1>3 DEF Result

\* A penalty call keeps the types.
LEMMA CallType ==
    ASSUME LeagueTypeOK, JobsFit, NEW p \in Penalties, PenaltyCall(p)
    PROVE  LeagueTypeOK'
<1> DEFINE r == target[p].race
           d == target[p].driver
<1> USE DEF At, To, Reload
<1>1. /\ r \in Races /\ d \in Humans /\ d \in Drivers /\ target[p].sec \in Int /\ p \in Jobs
      /\ target[p] \in Target
    BY LeagueAssumption DEF LeagueTypeOK, Target, Jobs
<1>2. step' \in [Jobs -> Steps]
    BY DEF PenaltyCall, LoadResult, FixTime, ReadOrder, PlaceAll, AfterPlaces, LeagueTypeOK, Jobs, Steps
<1>3. CASE LoadResult(p)
    <2>1. IsResults([q \in {r} |-> results[q]])
        BY <1>3, <1>1 DEF LoadResult, LeagueTypeOK, IsResults
    <2> QED BY <1>1, <1>2, <1>3, <2>1 DEF LoadResult, LeagueTypeOK, tables
<1>4. CASE FixTime(p)
    <2> DEFINE row == Corrected(view[p][r][d], target[p].sec)
    <2>1. r \in DOMAIN results /\ DOMAIN view[p] = {r}
        BY <1>4 DEF FixTime, JobsFit, Correcting
    <2>2. view[p][r] \in [Drivers -> Result] /\ results[r] \in [Drivers -> Result]
        BY <1>1, <2>1 DEF LeagueTypeOK, IsResults
    <2>3. row \in Result /\ row.time \in Times
        <3> DEFINE w == view[p][r][d]
        <3>1. w \in Result
            BY <1>1, <2>2
        <3> HIDE DEF w
        <3>2. Corrected(w, target[p].sec) \in Result
            <4>1. CASE w.time = NoTime
                BY <3>1, <4>1 DEF Corrected
            <4>2. CASE w.time # NoTime
                <5>1. w.time + target[p].sec \in Times
                    BY <1>1, <3>1, <4>2 DEF Result, Times
                <5> QED BY <3>1, <4>2, <5>1 DEF Corrected, Result
            <4> QED BY <4>1, <4>2
        <3> QED BY <3>2 DEF w, Result
    <2>4. PICK t \in Times : results' = [results EXCEPT ![r][d].time = t]
        <3>1. results' = [results EXCEPT ![r][d].time =
                             IF row = view[p][r][d] THEN results[r][d].time ELSE row.time]
            BY <1>4 DEF FixTime
        <3>2. results[r][d].time \in Times
            BY <1>1, <2>2 DEF Result
        <3> QED BY <2>3, <3>1, <3>2
    <2>5. [results[r][d] EXCEPT !.time = t] \in Result
        BY <1>1, <2>2 DEF Result
    <2>6. IsResults(results')
        BY <1>1, <2>1, <2>2, <2>4, <2>5 DEF IsResults, LeagueTypeOK
    <2>7. view' = [view EXCEPT ![p][r][d] = row]
        BY <1>4 DEF FixTime
    <2>8. DOMAIN view' = Jobs /\ \A j \in Jobs : IsResults(view'[j])
        <3> HIDE DEF row
        <3>1. IsResults([view[p] EXCEPT ![r][d] = row])
            BY <1>1, <2>1, <2>2, <2>3 DEF IsResults
        <3> QED BY <1>1, <2>7, <3>1 DEF LeagueTypeOK
    <2>9. penalties' \subseteq Penalties \X Target
        BY <1>1, <1>4 DEF FixTime, LeagueTypeOK
    <2> QED BY <1>2, <1>4, <2>6, <2>8, <2>9 DEF FixTime, LeagueTypeOK
<1>5. CASE ReadOrder(p)
    <2>1. r \in DOMAIN results /\ DOMAIN view[p] = {r}
        BY <1>5 DEF ReadOrder, JobsFit, Correcting
    <2>2. [results[r] EXCEPT ![d] = view[p][r][d]] \in [Drivers -> Result]
        BY <1>1, <2>1 DEF LeagueTypeOK, IsResults
    <2>3. IsResults([view[p] EXCEPT ![r] = [results[r] EXCEPT ![d] = view[p][r][d]]])
        BY <1>1, <2>1, <2>2 DEF LeagueTypeOK, IsResults
    <2>4. view' = [view EXCEPT ![p][r] = [results[r] EXCEPT ![d] = view[p][r][d]]]
        BY <1>5 DEF ReadOrder
    <2>5. DOMAIN view' = Jobs /\ \A j \in Jobs : IsResults(view'[j])
        BY <1>1, <2>3, <2>4 DEF LeagueTypeOK
    <2> QED BY <1>2, <1>5, <2>5 DEF ReadOrder, LeagueTypeOK, tables
<1>6. CASE PlaceAll(p)
    <2> DEFINE old == view[p][r]
    <2>1. r \in DOMAIN results /\ DOMAIN view[p] = {r}
        BY <1>6 DEF PlaceAll, JobsFit, Correcting
    <2>2. old \in [Drivers -> Result] /\ results[r] \in [Drivers -> Result]
        BY <1>1, <2>1 DEF LeagueTypeOK, IsResults
    <2>3. PICK order \in [Drivers -> Places] :
              results' = [results EXCEPT ![r] = Replaced(results[r], old, order)]
        BY <1>6, <2>1 DEF PlaceAll, Rankings, Bijection, Injection, LeagueTypeOK, IsResults
    <2>5. Replaced(results[r], old, order) \in [Drivers -> Result]
        BY <2>2, ReplacedType
    <2>6. IsResults(results')
        BY <1>1, <2>1, <2>3, <2>5 DEF LeagueTypeOK, IsResults
    <2> QED BY <1>2, <1>6, <2>6 DEF PlaceAll, LeagueTypeOK, local, loaded
<1> QED BY <1>3, <1>4, <1>5, <1>6 DEF PenaltyCall

\* A restart keeps the types.
LEMMA RestartType ==
    ASSUME LeagueTypeOK, RestartBackend
    PROVE  LeagueTypeOK'
<1>1. IsResults(NoResults)
    BY DEF IsResults, NoResults
<1>2. reboots' \in 0..MaxRestarts
    BY LeagueAssumption DEF LeagueTypeOK, RestartBackend
<1> QED BY <1>1, <1>2 DEF LeagueTypeOK, RestartBackend, Unseen, tables, Steps

\* Every step keeps the types.
LEMMA LeagueTypeStep ==
    ASSUME LeagueTypeOK, JobsFit, RatingsInv, [LeagueNext]_leagueVars
    PROVE  LeagueTypeOK'
<1>1. CASE UNCHANGED leagueVars
    BY <1>1 DEF leagueVars, tables, local, loaded, LeagueTypeOK
<1>2. ASSUME NEW r \in Races, CommitRace(r) \/ RatingJob(r) PROVE LeagueTypeOK'
    BY <1>2, CommitType, RatingsType
<1>3. ASSUME NEW p \in Penalties, PenaltyCall(p) PROVE LeagueTypeOK'
    BY <1>3, CallType
<1>4. ASSUME NEW j \in Jobs, Standings(j) PROVE LeagueTypeOK'
    BY <1>4, LoadedType, InsertType DEF Standings
<1> QED BY <1>1, <1>2, <1>3, <1>4, RestartType DEF LeagueNext

-----------------------------------------------------------------------------
(* Jobs and the championship tables.                                        *)

\* At the start no job has loaded anything.
LEMMA JobsFitInit == LeagueInit => JobsFit
BY LeagueAssumption DEF LeagueInit, JobsFit, Correcting, Recalculating, At, Jobs, NoResults

\* Every step keeps what the position of a job says about what it has loaded.
LEMMA JobsFitStep ==
    ASSUME LeagueTypeOK, JobsFit, [LeagueNext]_leagueVars
    PROVE  JobsFit'
<1> USE LeagueAssumption DEF JobsFit, Correcting, Recalculating, At, To, Reload, Jobs
<1>1. CASE UNCHANGED leagueVars
    BY <1>1 DEF leagueVars, tables, local, loaded
<1>2. ASSUME NEW r \in Races, CommitRace(r) PROVE JobsFit'
    <2>1. DOMAIN results' = DOMAIN results \cup {r}
        BY <1>2 DEF CommitRace
    <2> QED BY <1>2, <2>1 DEF CommitRace, local, loaded, LeagueTypeOK
<1>3. ASSUME NEW r \in Races, RatingJob(r) PROVE JobsFit'
    BY <1>3 DEF RatingJob, LoadRatings, FlushRatings, FlushFails, SaveRatings, tables, local, loaded, LeagueTypeOK
<1>4. ASSUME NEW p \in Penalties, PenaltyCall(p) PROVE JobsFit'
    <2>1. CASE LoadResult(p)
        BY <1>4, <2>1 DEF LoadResult, tables, LeagueTypeOK
    <2>2. CASE FixTime(p)
        <3>1. DOMAIN results' = DOMAIN results
            BY <2>2 DEF FixTime, LeagueTypeOK, IsResults
        <3>2. \A j \in Jobs : DOMAIN view'[j] = DOMAIN view[j]
            BY <2>2 DEF FixTime, LeagueTypeOK
        <3> QED BY <1>4, <2>2, <3>1, <3>2 DEF FixTime, LeagueTypeOK
    <2>3. CASE ReadOrder(p)
        <3>1. \A j \in Jobs : DOMAIN view'[j] = DOMAIN view[j]
            BY <2>3 DEF ReadOrder, LeagueTypeOK
        <3> QED BY <1>4, <2>3, <3>1 DEF ReadOrder, LeagueTypeOK, tables
    <2>4. CASE PlaceAll(p)
        <3>1. DOMAIN results' = DOMAIN results
            BY <2>4 DEF PlaceAll, LeagueTypeOK, IsResults
        <3> QED BY <1>4, <2>4, <3>1 DEF PlaceAll, AfterPlaces, LeagueTypeOK, local, loaded
    <2> QED BY <1>4, <2>1, <2>2, <2>3, <2>4 DEF PenaltyCall
<1>5. ASSUME NEW j \in Jobs, Standings(j) PROVE JobsFit'
    <2>1. CASE ListRaces(j)
        <3>1. DOMAIN results # {}
            BY <2>1 DEF ListRaces
        <3> QED BY <1>5, <2>1, <3>1 DEF ListRaces, tables, LeagueTypeOK
    <2>2. CASE ReadResults(j)
        BY <1>5, <2>2 DEF ReadResults, tables, LeagueTypeOK
    <2>3. CASE BeginDelete(j) \/ EndDelete(j)
        BY <1>5, <2>3 DEF BeginDelete, EndDelete, tables, LeagueTypeOK
    <2>4. CASE InsertStandings(j) \/ InsertFails(j)
        <3>1. results' = results /\ target' = target /\ Forget(j) /\ To(j, AfterStandings(j))
            BY <2>4 DEF InsertStandings, InsertFails, tables
        <3>2. /\ \A k \in Jobs \ {j} : ids'[k] = ids[k] /\ view'[k] = view[k] /\ step'[k] = step[k]
              /\ ids'[j] = {} /\ step'[j] \in {"rate", "done"} /\ (j \in Penalties => step'[j] = "done")
            BY <1>5, <3>1 DEF Forget, LeagueTypeOK, AfterStandings
        <3>3. step[j] # "new"
            BY <2>4 DEF InsertStandings, InsertFails
        <3> QED BY <1>5, <3>1, <3>2, <3>3
    <2> QED BY <1>5, <2>1, <2>2, <2>3, <2>4 DEF Standings
<1>6. CASE RestartBackend
    BY <1>6 DEF RestartBackend, tables, LeagueTypeOK
<1> QED BY <1>1, <1>2, <1>3, <1>4, <1>5, <1>6 DEF LeagueNext

\* At the start the tables are empty.
LEMMA TablesInit == LeagueInit => TablesInv
BY DEF LeagueInit, TablesInv, TablesAgree

\* The primary key lets a recalculation insert only where it has deleted everything.
LEMMA TablesStep ==
    ASSUME LeagueTypeOK, TablesInv, [LeagueNext]_leagueVars
    PROVE  TablesInv'
<1>1. CASE UNCHANGED <<wdc, wcc>>
    BY <1>1 DEF TablesInv, TablesAgree
<1>2. ASSUME NEW j \in Jobs, InsertStandings(j) PROVE TablesInv'
    <2> DEFINE line == [d \in Drivers |-> CalcWdc(view[j], d)]
    <2>1. PICK order \in [Drivers -> Places] :
               /\ \A a, b \in Drivers : Ahead(line[a], line[b]) => order[a] < order[b]
               /\ wdc' = Left(j) \cup WdcRows(line, order, j)
               /\ wcc' = {row \in wcc : row.by \notin doomed[j]} \cup WccRows(WdcRows(line, order, j), j)
        BY <1>2 DEF InsertStandings, Rankings, Bijection, Injection
    <2> HIDE DEF line
    <2> DEFINE rows == WdcRows(line, order, j)
    <2>2. Left(j) = {} /\ {row \in wcc : row.by \notin doomed[j]} = {}
        <3>1. Left(j) = {}
            BY <1>2 DEF InsertStandings, Conflicts, Left, LeagueTypeOK, WdcRow
        <3> QED BY <3>1 DEF Left, TablesInv, TablesAgree
    <2>3. wdc' = rows /\ wcc' = WccRows(rows, j)
        BY <2>1, <2>2
    <2>4. \A a \in rows : a.by = j /\ a.driver \in Drivers /\ a.position = order[a.driver]
                          /\ a.points = line[a.driver].points /\ a.best = line[a.driver].best
        BY DEF WdcRows
    <2>5. \A a, b \in rows : a.driver = b.driver => a = b
        BY DEF WdcRows
    <2>6. rows # {}
        <3> PICK d \in Drivers : TRUE
            BY LeagueAssumption
        <3> DEFINE row == [driver |-> d, points |-> line[d].points, wins |-> line[d].wins, best |-> line[d].best,
                           position |-> order[d], by |-> j]
        <3>1. row \in rows
            BY DEF WdcRows
        <3> QED BY <3>1
    <2> HIDE DEF rows
    <2>7. \A t \in WccRows(rows, j) : t.by = j /\ t = CalcWcc(rows, t.team, t.by)
        <3> SUFFICES ASSUME NEW u, NEW t, t = CalcWcc(rows, u, j)
                     PROVE  t.by = j /\ t = CalcWcc(rows, t.team, t.by)
            BY DEF WccRows
        <3>1. t.team = u /\ t.by = j
            BY DEF CalcWcc
        <3> QED BY <3>1
    <2>8. \A a, b \in rows : Ahead(a, b) => a.position < b.position
        BY <2>1, <2>4 DEF Ahead
    <2> QED BY <2>3, <2>4, <2>5, <2>6, <2>7, <2>8 DEF TablesInv, TablesAgree
<1> QED BY <1>1, <1>2 DEF LeagueNext, leagueVars, tables, CommitRace, RatingJob, LoadRatings, FlushRatings,
        FlushFails, SaveRatings, PenaltyCall, LoadResult, FixTime, ReadOrder, PlaceAll, Standings, ListRaces,
        ReadResults, BeginDelete, EndDelete, InsertFails, RestartBackend

-----------------------------------------------------------------------------
(* What the actions write to the results.                                   *)

Race(p)   == target[p].race
Driven(p) == target[p].driver

\* The target of a penalty is a human's result in a race.
LEMMA TargetType ==
    ASSUME LeagueTypeOK, NEW p \in Penalties
    PROVE  /\ Race(p) \in Races /\ Driven(p) \in Humans /\ Driven(p) \in Drivers
           /\ target[p].sec \in Int /\ target[p] \in Target /\ p \in Jobs /\ p \notin Races
BY LeagueAssumption DEF LeagueTypeOK, Target, Jobs, Race, Driven

\* What the commit of a race writes.
LEMMA CommitWrites ==
    ASSUME LeagueTypeOK, JobsFit, NEW r \in Races, CommitRace(r)
    PROVE  /\ r \notin DOMAIN results /\ DOMAIN results' = DOMAIN results \cup {r}
           /\ \A q \in DOMAIN results : results'[q] = results[q]
           /\ \A d \in Drivers : /\ results'[r][d].points = CalcPoints(results'[r][d])
                                 /\ results'[r][d].time = results'[r][d].flag
           /\ UNCHANGED <<penalties, wdc, wcc, rating, history, local, overlapped, reboots>>
           /\ To(r, "list") /\ At(r, "new")
<1>1. PICK o \in Outcomes :
          results' = [q \in DOMAIN results \cup {r} |->
                         IF q = r THEN [d \in Drivers |-> [o[d] EXCEPT !.points = CalcPoints(o[d])]]
                         ELSE results[q]]
    BY DEF CommitRace
<1>2. r \notin DOMAIN results
    BY DEF CommitRace, JobsFit
<1>3. ASSUME NEW d \in Drivers
      PROVE  /\ results'[r][d].points = CalcPoints(results'[r][d])
             /\ results'[r][d].time = results'[r][d].flag
    <2>1. o[d] \in Result /\ o[d].flag = o[d].time
        BY LeagueAssumption
    <2> DEFINE row == [o[d] EXCEPT !.points = CalcPoints(o[d])]
    <2>2. results'[r][d] = row
        BY <1>1
    <2>3. row.points = CalcPoints(o[d]) /\ row.time = o[d].time /\ row.flag = o[d].flag
          /\ row.status = o[d].status /\ row.pos = o[d].pos /\ row.fastest = o[d].fastest
        BY <2>1 DEF Result
    <2> HIDE DEF row
    <2>4. CalcPoints(row) = CalcPoints(o[d])
        BY <2>3 DEF CalcPoints
    <2> QED BY <2>1, <2>2, <2>3, <2>4
<1> QED BY <1>1, <1>2, <1>3 DEF CommitRace

\* What the correction of a time writes.
LEMMA FixWrites ==
    ASSUME LeagueTypeOK, JobsFit, NEW p \in Penalties, FixTime(p)
    PROVE  LET r == Race(p)  d == Driven(p)
               old == view[p][r][d]
               row == Corrected(old, target[p].sec)
               t == IF row = old THEN results[r][d].time ELSE row.time
           IN  /\ r \in DOMAIN results /\ DOMAIN results' = DOMAIN results
               /\ \A q \in DOMAIN results \ {r} : results'[q] = results[q]
               /\ \A e \in Drivers \ {d} : results'[r][e] = results[r][e]
               /\ results'[r] \in [Drivers -> Result] /\ results[r] \in [Drivers -> Result]
               /\ view[p][r] \in [Drivers -> Result] /\ DOMAIN view[p] = {r}
               /\ results'[r][d] = [results[r][d] EXCEPT !.time = t]
               /\ view' = [view EXCEPT ![p] = [view[p] EXCEPT ![r] = [view[p][r] EXCEPT ![d] = row]]]
               /\ To(p, "order") /\ At(p, "fix")
               /\ penalties' = penalties \cup {<<p, target[p]>>}
               /\ UNCHANGED <<wdc, wcc, rating, history, ids, doomed, seen, target, overlapped, reboots>>
<1> DEFINE r == Race(p)
           d == Driven(p)
           old == view[p][r][d]
           row == Corrected(old, target[p].sec)
           t == IF row = old THEN results[r][d].time ELSE row.time
<1>1. r \in DOMAIN results /\ DOMAIN view[p] = {r}
    BY DEF FixTime, JobsFit, Correcting, At, Race
<1>2. /\ results[r] \in [Drivers -> Result] /\ view[p][r] \in [Drivers -> Result]
      /\ d \in Drivers /\ p \in Jobs
    BY <1>1, TargetType DEF LeagueTypeOK, IsResults
<1>3. results' = [results EXCEPT ![r][d].time = t]
    BY DEF FixTime, Race, Driven
<1>4. view' = [view EXCEPT ![p][r][d] = row]
    BY DEF FixTime, Race, Driven
<1> HIDE DEF r, d, t, row
<1>5. /\ DOMAIN results' = DOMAIN results
      /\ \A q \in DOMAIN results \ {r} : results'[q] = results[q]
      /\ \A e \in Drivers \ {d} : results'[r][e] = results[r][e]
      /\ results'[r][d] = [results[r][d] EXCEPT !.time = t]
    BY <1>1, <1>2, <1>3 DEF LeagueTypeOK, IsResults
<1>6. view' = [view EXCEPT ![p] = [view[p] EXCEPT ![r] = [view[p][r] EXCEPT ![d] = row]]]
    BY <1>1, <1>2, <1>4 DEF LeagueTypeOK, IsResults
<1>7. results'[r] \in [Drivers -> Result]
    <2>1. IsResults(results')
        BY CallType DEF PenaltyCall, LeagueTypeOK
    <2> QED BY <1>1, <1>5, <2>1 DEF IsResults
<1>8. /\ To(p, "order") /\ At(p, "fix") /\ penalties' = penalties \cup {<<p, target[p]>>}
      /\ UNCHANGED <<wdc, wcc, rating, history, ids, doomed, seen, target, overlapped, reboots>>
    BY DEF FixTime
<1> QED BY <1>1, <1>2, <1>5, <1>6, <1>7, <1>8 DEF r, d, t, row

\* What placing a race anew writes.
LEMMA PlaceWrites ==
    ASSUME LeagueTypeOK, JobsFit, NEW p \in Penalties, PlaceAll(p)
    PROVE  LET r == Race(p)
               old == view[p][r]
           IN  /\ r \in DOMAIN results /\ DOMAIN results' = DOMAIN results
               /\ \A q \in DOMAIN results \ {r} : results'[q] = results[q]
               /\ old \in [Drivers -> Result] /\ results[r] \in [Drivers -> Result]
               /\ \E order \in [Drivers -> Places] :
                     /\ \A a, b \in Drivers : Before(old[a], old[b]) => order[a] < order[b]
                     /\ results'[r] = Replaced(results[r], old, order)
               /\ To(p, "list") /\ At(p, "place")
               /\ UNCHANGED <<penalties, wdc, wcc, rating, history, local, overlapped, reboots>>
<1> DEFINE r == Race(p)
           old == view[p][r]
<1>1. r \in DOMAIN results /\ DOMAIN view[p] = {r}
    BY DEF PlaceAll, JobsFit, Correcting, At, Race
<1>2. old \in [Drivers -> Result] /\ results[r] \in [Drivers -> Result]
    BY <1>1, TargetType DEF LeagueTypeOK, IsResults
<1>3. PICK order \in [Drivers -> Places] :
          /\ \A a, b \in Drivers : Before(old[a], old[b]) => order[a] < order[b]
          /\ results' = [results EXCEPT ![r] = Replaced(results[r], old, order)]
    BY <1>1 DEF PlaceAll, Rankings, Bijection, Injection, Race
<1>4. To(p, "list") /\ At(p, "place")
      /\ UNCHANGED <<penalties, wdc, wcc, rating, history, local, overlapped, reboots>>
    BY DEF PlaceAll, AfterPlaces
<1> QED BY <1>1, <1>2, <1>3, <1>4 DEF LeagueTypeOK, IsResults

\* Whoever places a race that nobody else corrects writes what he has computed.
LEMMA PlacedRow ==
    ASSUME NEW now \in [Drivers -> Result], NEW order \in [Drivers -> Places], NEW d \in Drivers
    PROVE  LET row == Replaced(now, now, order)[d]
           IN  /\ row.pos = order[d] /\ row.points = CalcPoints(row)
               /\ row.time = now[d].time /\ row.flag = now[d].flag /\ row.status = now[d].status
<1> DEFINE row == Replaced(now, now, order)[d]
           moved == [now[d] EXCEPT !.pos = order[d]]
           points == CalcPoints(moved)
<1>1. row = [now[d] EXCEPT !.pos    = IF order[d] = now[d].pos THEN @ ELSE order[d],
                           !.points = IF points = now[d].points THEN @ ELSE points]
    BY DEF Replaced
<1>2. now[d] \in Result
    OBVIOUS
<1> HIDE DEF row
<1>3. /\ row.pos = order[d] /\ row.points = points /\ row.time = now[d].time /\ row.flag = now[d].flag
      /\ row.status = now[d].status /\ row.fastest = now[d].fastest
    <2> HIDE DEF points
    <2> QED BY <1>1, <1>2 DEF Result
<1>4. moved.pos = row.pos /\ moved.status = row.status /\ moved.fastest = row.fastest
    BY <1>2, <1>3 DEF Result
<1> HIDE DEF moved
<1>5. CalcPoints(row) = points
    BY <1>4 DEF CalcPoints
<1> QED BY <1>3, <1>5 DEF row

-----------------------------------------------------------------------------
(* Penalties see the rows as they are, recalculations count every race.     *)

\* At the start there is no call.
LEMMA CallsInit == LeagueInit => CallsInv
BY LeagueAssumption DEF LeagueInit, CallsInv, Correcting, Jobs, NoResults

\* Calls that do not overlap keep seeing the lines of the table.
LEMMA CallsStep ==
    ASSUME LeagueTypeOK, JobsFit, CallsInv, [LeagueNext]_leagueVars
    PROVE  CallsInv'
<1> USE DEF Correcting, At, To, Reload
<1>1. CASE /\ UNCHANGED <<results, target, overlapped>>
           /\ \A p \in Penalties : Correcting(p)' => Correcting(p) /\ view'[p] = view[p]
    BY <1>1 DEF CallsInv
<1>2. ASSUME NEW r \in Races, CommitRace(r) PROVE CallsInv'
    <2>1. /\ r \notin DOMAIN results /\ DOMAIN results' = DOMAIN results \cup {r}
          /\ \A q \in DOMAIN results : results'[q] = results[q]
          /\ \A d \in Drivers : results'[r][d].points = CalcPoints(results'[r][d])
          /\ UNCHANGED <<view, target, overlapped>> /\ step' = [step EXCEPT ![r] = "list"]
        BY <1>2, CommitWrites DEF local, loaded
    <2>2. \A p \in Penalties : step'[p] = step[p]
        BY <2>1, LeagueAssumption DEF LeagueTypeOK
    <2>3. \A p \in Penalties : Correcting(p) => target[p].race \in DOMAIN results
        BY DEF JobsFit
    <2> QED BY <2>1, <2>2, <2>3 DEF CallsInv
<1>3. ASSUME NEW p \in Penalties, PenaltyCall(p) PROVE CallsInv'
    <2> DEFINE r == Race(p)
               d == Driven(p)
    <2>1. CASE LoadResult(p)
        <3>1. /\ step'[p] = "fix" /\ view'[p][r] = results[r] /\ UNCHANGED <<results, target>>
              /\ \A q \in Penalties \ {p} : step'[q] = step[q] /\ view'[q] = view[q]
              /\ overlapped \subseteq overlapped'
              /\ \A q \in Penalties \ {p} : Correcting(q) /\ Race(q) = r => r \in overlapped'
            BY <1>3, <2>1 DEF LoadResult, LeagueTypeOK, Jobs, tables, Race
        <3> QED BY <3>1 DEF CallsInv, Race
    <2>2. CASE FixTime(p)
        <3> DEFINE old == view[p][r][d]
                   row == Corrected(old, target[p].sec)
        <3>1. /\ step'[p] = "order" /\ step[p] = "fix" /\ UNCHANGED <<target, overlapped>>
              /\ view'[p][r] = [view[p][r] EXCEPT ![d] = row]
              /\ \A q \in Penalties \ {p} : step'[q] = step[q] /\ view'[q] = view[q]
            <4>1. /\ step' = [step EXCEPT ![p] = "order"] /\ step[p] = "fix" /\ UNCHANGED <<target, overlapped>>
                  /\ view' = [view EXCEPT ![p] = [view[p] EXCEPT ![r] = [view[p][r] EXCEPT ![d] = row]]]
                  /\ DOMAIN view[p] = {r}
                BY <1>3, <2>2, FixWrites
            <4>2. p \in Jobs /\ Penalties \subseteq Jobs
                BY <1>3 DEF Jobs
            <4> HIDE DEF row
            <4> QED BY <4>1, <4>2 DEF LeagueTypeOK
        <3>2. /\ r \in DOMAIN results /\ DOMAIN results' = DOMAIN results
              /\ \A q \in DOMAIN results \ {r} : results'[q] = results[q]
              /\ \A e \in Drivers \ {d} : results'[r][e] = results[r][e]
              /\ results'[r] \in [Drivers -> Result] /\ results[r] \in [Drivers -> Result]
              /\ view[p][r] \in [Drivers -> Result]
              /\ results'[r][d] = [results[r][d] EXCEPT
                                     !.time = IF row = old THEN results[r][d].time ELSE row.time]
            BY <2>2, FixWrites
        <3>3. \A q \in Penalties \ {p} : Correcting(q) => Race(q) # r \/ r \in overlapped
            BY <3>1 DEF CallsInv, Race
        <3>4. r \notin overlapped => view'[p][r] = results'[r]
            <4> SUFFICES ASSUME r \notin overlapped PROVE view'[p][r] = results'[r]
                OBVIOUS
            <4>1. view[p][r] = results[r]
                BY <3>1 DEF CallsInv, Race
            <4>2. old \in Result /\ old = results[r][d] /\ d \in Drivers
                BY <3>2, <4>1, TargetType
            <4>3. results'[r][d] = row
                BY <3>2, <4>2 DEF Corrected, Result
            <4> HIDE DEF row
            <4> QED BY <3>1, <3>2, <4>1, <4>3
        <3>5. \A e \in Drivers : /\ results'[r][e].points = results[r][e].points
                                 /\ CalcPoints(results'[r][e]) = CalcPoints(results[r][e])
            <4>1. results[r][d] \in Result
                BY <3>2, TargetType
            <4> QED BY <3>2, <4>1 DEF CalcPoints, Result
        <3> HIDE DEF r, d, row
        <3>6. \A q \in Penalties : Correcting(q)' => Correcting(q)
            BY <3>1
        <3>7. \A q \in Penalties : Correcting(q) => Race(q) \in DOMAIN results
            BY DEF JobsFit, Race
        <3>8. ASSUME NEW q \in Penalties, Correcting(q)'
              PROVE  view'[q][Race(q)] = results'[Race(q)] \/ Race(q) \in overlapped
            <4>1. CASE q = p
                BY <3>4, <4>1 DEF r
            <4>2. CASE q # p
                BY <3>1, <3>2, <3>3, <3>6, <3>7, <3>8, <4>2 DEF CallsInv, Race
            <4> QED BY <4>1, <4>2
        <3>9. \A q \in DOMAIN results' \ overlapped : \A e \in Drivers :
                  results'[q][e].points = CalcPoints(results'[q][e])
            BY <3>2, <3>5 DEF CallsInv
        <3> QED BY <3>1, <3>6, <3>8, <3>9 DEF CallsInv, Race
    <2>3. CASE ReadOrder(p)
        <3>1. /\ UNCHANGED <<results, target, overlapped>> /\ step'[p] = "place" /\ step[p] = "order"
              /\ view' = [view EXCEPT ![p][r] = [results[r] EXCEPT ![d] = view[p][r][d]]]
              /\ \A q \in Penalties \ {p} : step'[q] = step[q]
            BY <1>3, <2>3 DEF ReadOrder, tables, LeagueTypeOK, Jobs, Race, Driven
        <3>2. /\ DOMAIN view[p] = {r} /\ r \in DOMAIN results /\ p \in Jobs
            BY <3>1 DEF JobsFit, Race, Jobs
        <3>3. /\ \A q \in Penalties \ {p} : view'[q] = view[q]
              /\ view'[p][r] = [results[r] EXCEPT ![d] = view[p][r][d]]
            BY <3>1, <3>2 DEF LeagueTypeOK, IsResults, Jobs
        <3>4. results[r] \in [Drivers -> Result]
            BY <3>2 DEF LeagueTypeOK, IsResults
        <3>5. r \notin overlapped => view'[p][r] = results[r]
            BY <3>1, <3>3, <3>4 DEF CallsInv, Race
        <3> HIDE DEF r, d
        <3>6. \A q \in Penalties : Correcting(q)' => Correcting(q)
            BY <3>1
        <3> QED BY <3>1, <3>3, <3>5, <3>6 DEF CallsInv, Race, r
    <2>4. CASE PlaceAll(p)
        <3>1. /\ step'[p] = "list" /\ step[p] = "place" /\ UNCHANGED <<view, target, overlapped>>
              /\ \A q \in Penalties \ {p} : step'[q] = step[q]
              /\ DOMAIN results' = DOMAIN results
              /\ \A q \in DOMAIN results \ {r} : results'[q] = results[q]
            BY <1>3, <2>4, PlaceWrites DEF LeagueTypeOK, Jobs, local, loaded
        <3>2. \A q \in Penalties \ {p} : Correcting(q) => Race(q) # r \/ r \in overlapped
            BY <3>1 DEF CallsInv, Race
        <3>3. ASSUME r \notin overlapped, NEW e \in Drivers
              PROVE  results'[r][e].points = CalcPoints(results'[r][e])
            <4>1. view[p][r] = results[r]
                BY <3>1, <3>3 DEF CallsInv, Race
            <4> QED BY <2>4, <4>1, PlaceWrites, PlacedRow
        <3>4. \A q \in Penalties : Correcting(q) => Race(q) \in DOMAIN results
            BY DEF JobsFit, Race
        <3> HIDE DEF r, d
        <3>5. \A q \in Penalties : Correcting(q)' => Correcting(q) /\ q # p
            BY <3>1
        <3> QED BY <3>1, <3>2, <3>3, <3>4, <3>5 DEF CallsInv, Race, r
    <2> QED BY <1>3, <2>1, <2>2, <2>3, <2>4 DEF PenaltyCall
<1>4. ASSUME NEW j \in Jobs, Standings(j) PROVE CallsInv'
    <2>1. /\ UNCHANGED <<results, target>>
          /\ \A p \in Penalties : Correcting(p)' => Correcting(p) /\ view'[p] = view[p]
          /\ overlapped' \in {overlapped, overlapped \cup {"standings"}}
        BY <1>4 DEF Standings, ListRaces, ReadResults, BeginDelete, EndDelete, InsertStandings, InsertFails,
           tables, Forget, AfterStandings, LeagueTypeOK, Jobs
    <2> QED BY <2>1 DEF CallsInv
<1>5. ASSUME NEW r \in Races, RatingJob(r) PROVE CallsInv'
    <2>1. /\ UNCHANGED <<results, target, view>>
          /\ \A p \in Penalties : Correcting(p)' => Correcting(p)
          /\ overlapped' \in {overlapped, overlapped \cup {"ratings"}}
        BY <1>5 DEF RatingJob, LoadRatings, FlushRatings, FlushFails, SaveRatings, tables, loaded, local,
           LeagueTypeOK, Jobs
    <2> QED BY <2>1 DEF CallsInv
<1>6. CASE RestartBackend
    BY <1>1, <1>6 DEF RestartBackend, tables, Jobs
<1>7. CASE UNCHANGED leagueVars
    BY <1>1, <1>7 DEF leagueVars, tables, local, loaded
<1> QED BY <1>2, <1>3, <1>4, <1>5, <1>6, <1>7 DEF LeagueNext

\* At the start nothing is recalculated.
LEMMA DeletesInit == LeagueInit => DeletesAll
BY DEF LeagueInit, DeletesAll, Recalculating

\* A recalculation without a rival goes on to delete every row.
LEMMA DeletesStep ==
    ASSUME LeagueTypeOK, DeletesAll, [LeagueNext]_leagueVars
    PROVE  DeletesAll'
<1> USE DEF Recalculating, At, To, Reload
<1>1. CASE /\ UNCHANGED <<wdc, doomed>> /\ overlapped \subseteq overlapped'
           /\ \A j \in Jobs : Recalculating(j)' => step'[j] = step[j]
    BY <1>1 DEF DeletesAll
<1>2. ASSUME NEW j \in Jobs, ListRaces(j) PROVE DeletesAll'
    <2>1. /\ UNCHANGED <<wdc, doomed>> /\ overlapped \subseteq overlapped' /\ step'[j] = "read"
          /\ \A k \in Jobs \ {j} : step'[k] = step[k] /\ (Recalculating(k) => "standings" \in overlapped')
        BY <1>2 DEF ListRaces, tables, LeagueTypeOK
    <2> QED BY <2>1 DEF DeletesAll
<1>3. ASSUME NEW j \in Jobs, ReadResults(j) PROVE DeletesAll'
    BY <1>3 DEF ReadResults, tables, LeagueTypeOK, DeletesAll
<1>4. ASSUME NEW j \in Jobs, BeginDelete(j) \/ EndDelete(j) PROVE DeletesAll'
    <2>1. /\ UNCHANGED <<wdc, overlapped>> /\ Recalculating(j) /\ Recalculating(j)'
          /\ \A k \in Jobs \ {j} : step'[k] = step[k] /\ doomed'[k] = doomed[k]
        BY <1>4 DEF BeginDelete, EndDelete, tables, LeagueTypeOK
    <2>2. \/ doomed'[j] = {row.by : row \in wdc}
          \/ step[j] = "wait" /\ doomed'[j] = doomed[j] \cap {row.by : row \in wdc}
        BY <1>4 DEF BeginDelete, EndDelete, LeagueTypeOK
    <2> QED BY <2>1, <2>2 DEF DeletesAll
<1>5. ASSUME NEW j \in Jobs, InsertStandings(j) \/ InsertFails(j) PROVE DeletesAll'
    <2>1. /\ UNCHANGED overlapped /\ Recalculating(j) /\ ~Recalculating(j)'
          /\ \A k \in Jobs \ {j} : step'[k] = step[k] /\ doomed'[k] = doomed[k]
        BY <1>5 DEF InsertStandings, InsertFails, Forget, AfterStandings, LeagueTypeOK
    <2> QED BY <2>1 DEF DeletesAll
<1>6. ASSUME NEW r \in Races, CommitRace(r) \/ RatingJob(r) PROVE DeletesAll'
    <2>1. UNCHANGED <<wdc, doomed>> /\ overlapped \subseteq overlapped'
        BY <1>6 DEF CommitRace, RatingJob, LoadRatings, FlushRatings, FlushFails, SaveRatings, tables, local, loaded
    <2>2. \A j \in Jobs : Recalculating(j)' => step'[j] = step[j]
        BY <1>6 DEF CommitRace, RatingJob, LoadRatings, FlushRatings, FlushFails, SaveRatings, LeagueTypeOK
    <2> QED BY <1>1, <2>1, <2>2
<1>7. ASSUME NEW p \in Penalties, PenaltyCall(p) PROVE DeletesAll'
    <2>1. UNCHANGED <<wdc, doomed>> /\ overlapped \subseteq overlapped'
        BY <1>7 DEF PenaltyCall, LoadResult, FixTime, ReadOrder, PlaceAll, tables, local, loaded
    <2>2. \A j \in Jobs : Recalculating(j)' => step'[j] = step[j]
        BY <1>7 DEF PenaltyCall, LoadResult, FixTime, ReadOrder, PlaceAll, AfterPlaces, LeagueTypeOK
    <2> QED BY <1>1, <2>1, <2>2
<1>8. CASE RestartBackend
    BY <1>8 DEF RestartBackend, DeletesAll
<1>9. CASE UNCHANGED leagueVars
    BY <1>1, <1>9 DEF leagueVars, tables, local, loaded
<1> QED BY <1>2, <1>3, <1>4, <1>5, <1>6, <1>7, <1>8, <1>9 DEF LeagueNext, Standings

\* At the start there is no race to be missed.
LEMMA MissedInit == LeagueInit => NothingMissed
BY DEF LeagueInit, NothingMissed, Recalculating, NoResults

\* A recalculation without a rival deletes all rows and so inserts its own, and if it counts
\* every race the table is current.
LEMMA InsertIsCurrent ==
    ASSUME LeagueTypeOK, JobsFit, DeletesAll, NEW j \in Jobs, InsertStandings(j), Counts(j)
    PROVE  Current'
<1> DEFINE line == [d \in Drivers |-> CalcWdc(view[j], d)]
<1>1. PICK order \in [Drivers -> Places] : wdc' = Left(j) \cup WdcRows(line, order, j)
    BY DEF InsertStandings, Rankings, Bijection, Injection
<1>2. UNCHANGED results
    BY DEF InsertStandings
<1>3. DOMAIN view[j] = DOMAIN results /\ ids[j] = DOMAIN results
    BY DEF InsertStandings, At, JobsFit, Counts
<1> SUFFICES ASSUME NEW d \in Drivers
             PROVE  \E row \in wdc' : row.driver = d /\ row.points =
                        SumFunctionOnSet([r \in DOMAIN results |-> results[r][d].points], DOMAIN results)
    BY <1>2 DEF Current
<1> DEFINE row == [driver |-> d, points |-> line[d].points, wins |-> line[d].wins, best |-> line[d].best,
                   position |-> order[d], by |-> j]
           D == DOMAIN results
           f == [r \in D |-> CalcPoints(view[j][r][d])]
           g == [r \in D |-> results[r][d].points]
<1>4. row \in wdc' /\ row.driver = d /\ row.points = line[d].points
    BY <1>1 DEF WdcRows
<1>5. line[d].points = SumFunctionOnSet(f, D)
    BY <1>3 DEF CalcWdc
<1>6. IsFiniteSet(D)
    BY FS_Subset, LeagueAssumption DEF LeagueTypeOK, IsResults
<1>7. \A r \in D : f[r] \in Int /\ f[r] = g[r]
    <2>1. \A r \in D : f[r] = g[r]
        BY <1>3 DEF Counts, InsertStandings, At
    <2>2. \A r \in D : g[r] \in Int
        BY DEF LeagueTypeOK, IsResults, Result
    <2> HIDE DEF f, g
    <2> QED BY <2>1, <2>2
<1> HIDE DEF f, g, D, row, line
<1>8. SumFunctionOnSet(f, D) = SumFunctionOnSet(g, D)
    BY <1>6, <1>7, SumSame
<1> QED BY <1>4, <1>5, <1>8 DEF D, g

PointsOf(res, d) == SumFunctionOnSet([r \in DOMAIN res |-> res[r][d].points], DOMAIN res)

\* Every race stays counted, or waits for a recalculation that will count it.
LEMMA MissedStep ==
    ASSUME LeagueTypeOK, JobsFit, CallsInv, DeletesAll, NothingMissed, [LeagueNext]_leagueVars
    PROVE  NothingMissed'
<1> USE DEF Recalculating, At, To, Reload
<1>1. CASE /\ UNCHANGED <<wdc, results, reboots>> /\ overlapped \subseteq overlapped'
           /\ \A j \in Jobs : /\ At(j, "list") => At(j, "list")'
                              /\ Recalculating(j) \/ Recalculating(j)' =>
                                    step'[j] = step[j] /\ ids'[j] = ids[j] /\ view'[j] = view[j]
    <2>1. (Current' <=> Current) /\ \A j \in Jobs : Recalculating(j) => (Counts(j) <=> Counts(j)')
        BY <1>1 DEF Counts, Current
    <2> QED BY <1>1, <2>1 DEF NothingMissed
<1>2. CASE \E j \in Jobs : step'[j] = "list"
    BY <1>2 DEF NothingMissed
<1>3. ASSUME NEW j \in Jobs, ListRaces(j) PROVE NothingMissed'
    <2>1. /\ step'[j] = "read" /\ ids'[j] = DOMAIN results /\ UNCHANGED <<results, reboots>>
          /\ \A k \in Jobs \ {j} : step'[k] = step[k] /\ (Recalculating(k) => "standings" \in overlapped')
        BY <1>3 DEF ListRaces, tables, LeagueTypeOK
    <2> QED BY <2>1 DEF NothingMissed, Counts
<1>4. ASSUME NEW j \in Jobs, ReadResults(j) \/ BeginDelete(j) \/ EndDelete(j) PROVE NothingMissed'
    <2>1. /\ UNCHANGED <<wdc, results, reboots, overlapped, ids>>
          /\ Recalculating(j) /\ Recalculating(j)' /\ step'[j] # "read"
          /\ \A k \in Jobs \ {j} : step'[k] = step[k] /\ view'[k] = view[k]
        BY <1>4 DEF ReadResults, BeginDelete, EndDelete, tables, LeagueTypeOK
    <2>2. /\ step[j] = "read" => view'[j] = [r \in ids[j] |-> results[r]]
          /\ step[j] # "read" => view'[j] = view[j]
        <3>1. CASE ReadResults(j)
            <4>1. step[j] = "read" /\ view' = [view EXCEPT ![j] = [r \in ids[j] |-> results[r]]]
                BY <3>1 DEF ReadResults
            <4> DEFINE v == [r \in ids[j] |-> results[r]]
            <4> HIDE DEF v
            <4>2. view'[j] = v
                BY <1>4, <4>1 DEF LeagueTypeOK, v
            <4> QED BY <4>1, <4>2, Zenon DEF v
        <3>2. CASE BeginDelete(j) \/ EndDelete(j)
            BY <1>4, <3>2 DEF BeginDelete, EndDelete, LeagueTypeOK
        <3> QED BY <1>4, <3>1, <3>2
    <2>3. Current' <=> Current
        BY <2>1 DEF Current
    <2>4. "standings" \notin overlapped => \A k \in Jobs : Recalculating(k) => k = j
        BY <2>1 DEF DeletesAll
    <2>5. overlapped \cap ({"standings"} \cup Races) = {} /\ Counts(j) => Counts(j)'
        <3> SUFFICES ASSUME overlapped \cap ({"standings"} \cup Races) = {}, Counts(j) PROVE Counts(j)'
            OBVIOUS
        <3>1. ids'[j] = DOMAIN results' /\ ids'[j] = ids[j] /\ UNCHANGED results
            BY <2>1, <2>2 DEF Counts
        <3>2. ASSUME NEW r \in ids[j], NEW d \in Drivers
              PROVE  CalcPoints(view'[j][r][d]) = results[r][d].points
            <4>1. CASE step[j] = "read"
                <5>1. view'[j][r] = results[r] /\ r \in DOMAIN results \ overlapped
                    BY <2>2, <3>1, <3>2, <4>1 DEF LeagueTypeOK, IsResults
                <5> QED BY <5>1 DEF CallsInv
            <4>2. CASE step[j] # "read"
                BY <2>2, <3>2, <4>2 DEF Counts
            <4> QED BY <4>1, <4>2
        <3> QED BY <2>1, <3>1, <3>2 DEF Counts
    <2> QED BY <2>1, <2>3, <2>4, <2>5 DEF NothingMissed
<1>5. ASSUME NEW j \in Jobs, InsertStandings(j) PROVE NothingMissed'
    <2>1. /\ UNCHANGED <<results, reboots, overlapped>> /\ Recalculating(j) /\ ~Recalculating(j)'
          /\ \A k \in Jobs \ {j} : step'[k] = step[k]
          /\ step[j] = "insert"
        BY <1>5 DEF InsertStandings, AfterStandings, LeagueTypeOK
    <2>2. "standings" \notin overlapped => \A k \in Jobs : Recalculating(k) => k = j
        BY <2>1 DEF DeletesAll
    <2>3. Counts(j) => Current'
        BY <1>5, InsertIsCurrent
    <2> QED BY <2>1, <2>2, <2>3 DEF NothingMissed
<1>6. ASSUME NEW j \in Jobs, InsertFails(j) PROVE NothingMissed'
    <2>1. "standings" \in overlapped /\ UNCHANGED overlapped
        BY <1>6 DEF InsertFails, Conflicts, Left, DeletesAll
    <2> QED BY <2>1 DEF NothingMissed
<1>7. ASSUME NEW r \in Races, CommitRace(r) PROVE NothingMissed'
    <2>1. step'[r] = "list" /\ r \in Jobs
        BY <1>7 DEF CommitRace, LeagueTypeOK, Jobs
    <2> QED BY <1>2, <2>1
<1>8. ASSUME NEW r \in Races, RatingJob(r) PROVE NothingMissed'
    <2>1. /\ UNCHANGED <<wdc, results, reboots, ids, view>> /\ overlapped \subseteq overlapped'
          /\ \A j \in Jobs : /\ At(j, "list") => At(j, "list")'
                             /\ Recalculating(j) \/ Recalculating(j)' => step'[j] = step[j]
        BY <1>8 DEF RatingJob, LoadRatings, FlushRatings, FlushFails, SaveRatings, tables, local, loaded, LeagueTypeOK
    <2> QED BY <1>1, <2>1
<1>9. ASSUME NEW p \in Penalties, LoadResult(p) \/ ReadOrder(p) PROVE NothingMissed'
    <2>0. p \in Jobs
        BY DEF Jobs
    <2>1. /\ UNCHANGED <<wdc, results, reboots, ids>> /\ overlapped \subseteq overlapped'
          /\ \A j \in Jobs : /\ At(j, "list") => At(j, "list")'
                             /\ Recalculating(j) \/ Recalculating(j)' => step'[j] = step[j] /\ view'[j] = view[j]
        BY <1>9, <2>0 DEF LoadResult, ReadOrder, tables, LeagueTypeOK
    <2> QED BY <1>1, <2>1
<1>10. ASSUME NEW p \in Penalties, FixTime(p) PROVE NothingMissed'
    <2> DEFINE r == Race(p)
               d == Driven(p)
    <2>1. /\ UNCHANGED <<wdc, reboots, ids, overlapped>>
          /\ step' = [step EXCEPT ![p] = "order"] /\ step[p] = "fix" /\ p \in Jobs
          /\ \E v : view' = [view EXCEPT ![p] = v]
        BY <1>10, FixWrites DEF Jobs
    <2>2. /\ \A j \in Jobs \ {p} : step'[j] = step[j] /\ view'[j] = view[j]
          /\ step'[p] = "order"
        BY <2>1 DEF LeagueTypeOK
    <2>3. /\ r \in DOMAIN results /\ DOMAIN results' = DOMAIN results
          /\ \A q \in DOMAIN results, e \in Drivers : results'[q][e].points = results[q][e].points
        <3>1. d \in Drivers /\ results[r][d] \in Result
            BY <1>10, FixWrites, TargetType
        <3>2. results'[r][d].points = results[r][d].points
            BY <1>10, <3>1, FixWrites DEF Result
        <3>3. /\ r \in DOMAIN results /\ DOMAIN results' = DOMAIN results
              /\ \A q \in DOMAIN results \ {r} : results'[q] = results[q]
              /\ \A e \in Drivers \ {d} : results'[r][e] = results[r][e]
            BY <1>10, FixWrites
        <3> HIDE DEF r, d
        <3> QED BY <3>2, <3>3
    <2>4. Current' <=> Current
        <3>1. ASSUME NEW e \in Drivers PROVE PointsOf(results', e) = PointsOf(results, e)
            <4>1. [q \in DOMAIN results |-> results[q][e].points] = [q \in DOMAIN results' |-> results'[q][e].points]
                BY <2>3
            <4> QED BY <2>3, <4>1, Zenon DEF PointsOf
        <3>2. /\ Current <=> \A e \in Drivers : \E row \in wdc : row.driver = e /\ row.points = PointsOf(results, e)
              /\ Current' <=> \A e \in Drivers : \E row \in wdc' : row.driver = e /\ row.points = PointsOf(results', e)
            BY Zenon DEF Current, PointsOf
        <3> QED BY <2>1, <3>1, <3>2
    <2>5. \A j \in Jobs : Recalculating(j) \/ Recalculating(j)' => (Recalculating(j) <=> Recalculating(j)') /\ (Counts(j) <=> Counts(j)')
        <3> SUFFICES ASSUME NEW j \in Jobs, Recalculating(j) \/ Recalculating(j)'
                     PROVE  (Recalculating(j) <=> Recalculating(j)') /\ (Counts(j) <=> Counts(j)')
            OBVIOUS
        <3>1. j # p /\ step'[j] = step[j] /\ view'[j] = view[j] /\ ids'[j] = ids[j]
            BY <2>1, <2>2
        <3>2. ids[j] \subseteq DOMAIN results
            BY DEF JobsFit
        <3> HIDE DEF r, d
        <3>3. (\A q \in ids[j], e \in Drivers : CalcPoints(view[j][q][e]) = results[q][e].points)
              <=> (\A q \in ids[j], e \in Drivers : CalcPoints(view[j][q][e]) = results'[q][e].points)
            BY <2>3, <3>2
        <3> QED BY <2>3, <3>1, <3>3 DEF Counts
    <2> HIDE DEF r, d
    <2> QED BY <2>1, <2>2, <2>3, <2>4, <2>5 DEF NothingMissed
<1>11. ASSUME NEW p \in Penalties, PlaceAll(p) PROVE NothingMissed'
    <2>1. step'[p] = "list" /\ p \in Jobs
        BY <1>11 DEF PlaceAll, AfterPlaces, LeagueTypeOK, Jobs
    <2> QED BY <1>2, <2>1
<1>12. CASE RestartBackend
    BY <1>12 DEF RestartBackend, NothingMissed, LeagueTypeOK
<1>13. CASE UNCHANGED leagueVars
    BY <1>1, <1>13 DEF leagueVars, tables, local, loaded
<1> QED BY <1>3, <1>4, <1>5, <1>6, <1>7, <1>8, <1>9, <1>10, <1>11, <1>12, <1>13
        DEF LeagueNext, Standings, PenaltyCall

-----------------------------------------------------------------------------
(* Ratings are booked for whole races.                                      *)

\* At the start nobody is rated.
LEMMA RatingsInit == LeagueInit => RatingsInv
<1> SUFFICES ASSUME LeagueInit PROVE RatingsInv
    OBVIOUS
<1> USE DEF LeagueInit
<1>1. IsFiniteSet(history) /\ history = {}
    BY FS_EmptySet
<1>2. \A r \in Races : r \in Jobs /\ step[r] = "new"
    BY DEF Jobs
<1>3. RatingsBooked
    BY <1>1 DEF RatingsBooked
<1> QED BY <1>1, <1>2, <1>3 DEF RatingsInv, At, Rating

Entries(r, from, to) == {<<r, h, from[h], to[h]>> : h \in Humans}

\* Writing a race that is not in the history yet adds one entry for each player.
LEMMA HistoryGrows ==
    ASSUME LeagueTypeOK, RatingsInv, NEW r \in Races, ~At(r, "done"),
           \E from, to : history' = history \cup Entries(r, from, to)
    PROVE  /\ IsFiniteSet(history')
           /\ \A x \in history' \ history : x[1] = r
           /\ \A h \in Humans : /\ Cardinality(Booked(h)) \in Nat
                                /\ Cardinality(Booked(h)') = Cardinality(Booked(h)) + 1
                                /\ \E e : e[1] = r /\ Booked(h)' = Booked(h) \cup {e}
<1> USE DEF Entries
<1>0. PICK from, to : history' = history \cup Entries(r, from, to)
    OBVIOUS
<1> DEFINE new == Entries(r, from, to)
           entry == [h \in Humans |-> <<r, h, from[h], to[h]>>]
<1>1. IsFiniteSet(Humans)
    BY LeagueAssumption, FS_Subset
<1>2. entry \in Surjection(Humans, new)
    BY DEF Surjection
<1>3. IsFiniteSet(new)
    <2> HIDE DEF entry, new
    <2> QED BY <1>1, <1>2, FS_Surjection
<1>4. IsFiniteSet(history')
    BY <1>0, <1>3, FS_Union DEF RatingsInv
<1>5. ASSUME NEW h \in Humans
      PROVE  /\ Cardinality(Booked(h)) \in Nat
             /\ Cardinality(Booked(h)') = Cardinality(Booked(h)) + 1
             /\ \E e : e[1] = r /\ Booked(h)' = Booked(h) \cup {e}
    <2> DEFINE e == <<r, h, from[h], to[h]>>
    <2>1. IsFiniteSet(Booked(h))
        BY FS_Subset DEF Booked, RatingsInv
    <2>2. Booked(h)' = Booked(h) \cup {e} /\ e[1] = r
        BY <1>0 DEF Booked
    <2>3. e \notin Booked(h)
        BY DEF Booked, RatingsInv
    <2> HIDE DEF e
    <2>4. Cardinality(Booked(h)) \in Nat
        BY <2>1, FS_CardinalityType
    <2>5. Cardinality(Booked(h)') = Cardinality(Booked(h)) + 1
        BY <2>1, <2>2, <2>3, FS_AddElement
    <2> QED BY <2>2, <2>4, <2>5
<1>6. \A x \in history' \ history : x[1] = r
    BY <1>0
<1> QED BY <1>4, <1>5, <1>6

\* What RatingsBooked says of one player.
BookedFor(h) ==
    /\ {x[1] : x \in Booked(h)} = {x[1] : x \in history}
    /\ rating[h] = Unrated <=> Booked(h) = {}
    /\ rating[h] # Unrated =>
         /\ rating[h].rated =< Cardinality(Booked(h))
         /\ "ratings" \notin overlapped =>
                /\ rating[h].rated = Cardinality(Booked(h))
                /\ rating[h].rating =< rating[h].peak

\* The property, driver by driver.
LEMMA BookedForEach ==
    /\ RatingsBooked <=> \A h \in Humans : BookedFor(h)
    /\ RatingsBooked' <=> \A h \in Humans : BookedFor(h)'
BY DEF RatingsBooked, BookedFor, Booked

\* A rating job that commits books its race for every human at once.
LEMMA SaveBooks ==
    ASSUME LeagueTypeOK, RatingsInv, NEW r \in Races, SaveRatings(r)
    PROVE  RatingsInv'
<1>1. /\ step[r] = "rated" /\ step' = [step EXCEPT ![r] = "done"]
      /\ seen' = [seen EXCEPT ![r] = Unseen] /\ UNCHANGED overlapped
    BY DEF SaveRatings, At, To, Reload
<1>2. PICK new \in [Humans -> Ratings] :
         /\ rating' = [h \in Humans |-> Rated(r, h, new[h])]
         /\ history' = history \cup {<<r, h, RowSeen(r, h).rating, new[h]>> : h \in Humans}
    BY DEF SaveRatings
<1>4. ~At(r, "done")
    BY <1>1 DEF At
<1>3. \E from, to : history' = history \cup Entries(r, from, to)
    <2> DEFINE from == [h \in Humans |-> RowSeen(r, h).rating]
    <2>1. history' = history \cup Entries(r, from, new)
        BY <1>2 DEF Entries
    <2> HIDE DEF from
    <2> QED BY <2>1
<1>5. /\ IsFiniteSet(history')
      /\ history \subseteq history' /\ \A x \in history' \ history : x[1] = r
      /\ \A h \in Humans : /\ Cardinality(Booked(h)) \in Nat
                           /\ Cardinality(Booked(h)') = Cardinality(Booked(h)) + 1
                           /\ \E e : e[1] = r /\ Booked(h)' = Booked(h) \cup {e}
    BY <1>3, <1>4, HistoryGrows
<1>6. ASSUME NEW h \in Humans
      PROVE  /\ rating'[h] \in RatingRow /\ rating'[h] # Unrated
             /\ rating'[h].rated = RowSeen(r, h).rated + 1 /\ RowSeen(r, h).rated \in Nat
             /\ RowSeen(r, h).rated =< Cardinality(Booked(h))
             /\ "ratings" \notin overlapped =>
                   /\ RowSeen(r, h).rated = Cardinality(Booked(h))
                   /\ rating'[h].rating =< rating'[h].peak
    <2>0. new[h] \in Int /\ BaseRating \in Int /\ Ratings \subseteq Int
        <3>1. Ratings \subseteq Int /\ BaseRating \in Ratings
            BY LeagueAssumption
        <3>2. new[h] \in Ratings
            OBVIOUS
        <3> QED BY <3>1, <3>2
    <2>1. h \notin Missing(r) => rating[h] # Unrated
        BY DEF RatingsInv, Missing
    <2>2. RowSeen(r, h) \in RatingRow /\ Rated(r, h, new[h]) \in RatingRow
        BY <2>1, RatingRowType
    <2>3. rating'[h] = Rated(r, h, new[h])
        BY <1>2
    <2>4. rating'[h].rated = RowSeen(r, h).rated + 1
        BY <2>3 DEF Rated
    <2>5. RowSeen(r, h).rated =< Cardinality(Booked(h))
        <3>1. CASE h \in Missing(r)
            BY <1>5, <3>1 DEF RowSeen
        <3>2. CASE h \notin Missing(r)
            BY <3>2 DEF RowSeen, RatingsInv, Missing
        <3> QED BY <3>1, <3>2
    <2>6. ASSUME "ratings" \notin overlapped
          PROVE  /\ RowSeen(r, h).rated = Cardinality(Booked(h))
                 /\ rating'[h].rating =< rating'[h].peak
        <3>1. seen[r] = rating /\ BookedFor(h)
            BY <1>1, <2>6, BookedForEach DEF RatingsInv, Rating
        <3>2. CASE h \in Missing(r)
            <4>1. Booked(h) = {}
                BY <3>1, <3>2 DEF Missing, BookedFor
            <4>2. RowSeen(r, h) = [rating |-> BaseRating, rated |-> 0, peak |-> BaseRating]
                BY <3>2 DEF RowSeen
            <4>3. rating'[h].rating =< rating'[h].peak
                BY <2>0, <2>3, <3>2, <4>2 DEF Rated, Greater
            <4> QED BY <4>1, <4>2, <4>3, FS_EmptySet
        <3>3. CASE h \notin Missing(r)
            <4>1. RowSeen(r, h) = rating[h] /\ rating[h] # Unrated
                BY <3>1, <3>3 DEF RowSeen, Missing
            <4>2. rating[h] \in RatingRow
                BY <2>2, <4>1
            <4>3. rating'[h].rating =< rating'[h].peak
                <5>1. /\ rating[h].rating \in Int /\ rating[h].peak \in Int
                      /\ rating[h].rating =< rating[h].peak
                    BY <2>0, <2>6, <3>1, <4>1, <4>2 DEF BookedFor, RatingRow
                <5> QED BY <2>0, <2>3, <3>3, <4>1, <5>1 DEF Rated, Greater
            <4> QED BY <2>6, <3>1, <4>1, <4>3 DEF BookedFor
        <3> QED BY <3>2, <3>3
    <2> QED BY <2>2, <2>3, <2>4, <2>5, <2>6, LeagueAssumption DEF RatingRow
<1>7. RatingsBooked'
    <2> SUFFICES ASSUME NEW h \in Humans PROVE BookedFor(h)'
        BY BookedForEach
    <2>1. {x[1] : x \in Booked(h)'} = {x[1] : x \in history'}
        <3>1. {x[1] : x \in Booked(h)} = {x[1] : x \in history}
            BY BookedForEach DEF RatingsInv, BookedFor
        <3>2. {x[1] : x \in Booked(h)'} = {x[1] : x \in Booked(h)} \cup {r}
            BY <1>5
        <3>3. \A x \in Booked(h)' : x \in history'
            BY DEF Booked
        <3>4. r \in {x[1] : x \in history'}
            BY <1>5, <3>3
        <3>5. {x[1] : x \in history'} = {x[1] : x \in history} \cup {r}
            BY <1>5, <3>4
        <3> QED BY <3>1, <3>2, <3>5
    <2>2. Booked(h)' # {}
        BY <1>5
    <2>3. /\ rating'[h].rated =< Cardinality(Booked(h)')
          /\ "ratings" \notin overlapped' =>
                /\ rating'[h].rated = Cardinality(Booked(h)')
                /\ rating'[h].rating =< rating'[h].peak
        BY <1>1, <1>5, <1>6
    <2> QED BY <1>6, <2>1, <2>2, <2>3 DEF BookedFor
<1>8. \A k \in Races, h \in Humans : seen'[k][h] # Unrated =>
          rating'[h] # Unrated /\ seen'[k][h].rated =< Cardinality(Booked(h)')
    <2> SUFFICES ASSUME NEW k \in Races, NEW h \in Humans, seen'[k][h] # Unrated
                 PROVE  rating'[h] # Unrated /\ seen'[k][h].rated =< Cardinality(Booked(h)')
        OBVIOUS
    <2>1. k # r
        BY <1>1 DEF LeagueTypeOK, Unseen
    <2>2. seen'[k][h] = seen[k][h]
        BY <1>1, <2>1 DEF LeagueTypeOK
    <2>3. seen[k][h] \in RatingRow /\ seen[k][h].rated \in Nat
        BY <2>2 DEF LeagueTypeOK, RatingRow
    <2>4. seen[k][h].rated =< Cardinality(Booked(h))
        BY <2>2 DEF RatingsInv
    <2> QED BY <1>5, <1>6, <2>2, <2>3, <2>4
<1>9. \A x \in history' : At(x[1], "done")'
    <2>1. \A x \in history : step[x[1]] = "done" /\ x[1] \in Jobs
        BY DEF RatingsInv, At, LeagueTypeOK, Jobs
    <2>2. r \in Jobs
        BY DEF Jobs
    <2> QED BY <1>1, <1>5, <2>1, <2>2 DEF At, LeagueTypeOK
<1>10. \A k \in Races : At(k, "flush")' \/ At(k, "rated")' => Cardinality(Humans) > 1
    BY <1>1 DEF RatingsInv, At, LeagueTypeOK, Jobs
<1>11. "ratings" \notin overlapped' =>
          /\ \A j, k \in Races : Rating(j)' /\ Rating(k)' => j = k
          /\ \A k \in Races : Rating(k)' => seen'[k] = rating'
    BY <1>1 DEF RatingsInv, Rating, LeagueTypeOK, Jobs
<1> QED BY <1>5, <1>7, <1>8, <1>9, <1>10, <1>11 DEF RatingsInv

\* Every step keeps ratings and history in step.
LEMMA RatingsStep ==
    ASSUME LeagueTypeOK, RatingsInv, [LeagueNext]_leagueVars
    PROVE  RatingsInv'
<1>1. CASE /\ UNCHANGED <<rating, history, seen>> /\ overlapped \subseteq overlapped'
           /\ \A r \in Races : /\ step[r] = "done" => step'[r] = "done"
                               /\ step'[r] \in {"flush", "rated"} => step[r] \in {"flush", "rated"}
    <2>1. \A h \in Humans : BookedFor(h) => BookedFor(h)'
        BY <1>1 DEF BookedFor, Booked
    <2>2. RatingsBooked'
        BY <2>1, BookedForEach DEF RatingsInv
    <2>3. \A x \in history : x[1] \in Races
        BY DEF LeagueTypeOK
    <2>4. \A h \in Humans : Booked(h)' = Booked(h)
        BY <1>1 DEF Booked
    <2> QED BY <1>1, <2>2, <2>3, <2>4 DEF RatingsInv, At, Rating
<1>2. ASSUME NEW r \in Races, CommitRace(r) PROVE RatingsInv'
    BY <1>1, <1>2 DEF CommitRace, At, To, LeagueTypeOK, Jobs, local
<1>3. ASSUME NEW p \in Penalties, PenaltyCall(p) PROVE RatingsInv'
    <2>1. p \notin Races
        BY LeagueAssumption
    <2>2. UNCHANGED <<rating, history, seen>> /\ overlapped \subseteq overlapped'
        BY <1>3 DEF PenaltyCall, LoadResult, FixTime, ReadOrder, PlaceAll, tables, local
    <2>3. \A r \in Races : step'[r] = step[r]
        BY <1>3, <2>1 DEF PenaltyCall, LoadResult, FixTime, ReadOrder, PlaceAll, To, LeagueTypeOK, Jobs
    <2> QED BY <1>1, <2>2, <2>3
<1>4. ASSUME NEW j \in Jobs, Standings(j) PROVE RatingsInv'
    <2> USE DEF Standings, ListRaces, ReadResults, BeginDelete, EndDelete, InsertStandings, InsertFails
    <2>1. UNCHANGED <<rating, history, seen>> /\ overlapped \subseteq overlapped'
        BY <1>4 DEF tables, local
    <2>2. \A r \in Races : /\ step[r] = "done" => step'[r] = "done"
                           /\ step'[r] \in {"flush", "rated"} => step[r] \in {"flush", "rated"}
        BY <1>4 DEF To, At, AfterStandings, LeagueTypeOK, Jobs
    <2> QED BY <1>1, <2>1, <2>2
<1>5. ASSUME NEW r \in Races, LoadRatings(r) PROVE RatingsInv'
    <2>1. /\ UNCHANGED <<rating, history>> /\ overlapped \subseteq overlapped' /\ step[r] = "rate"
          /\ \A k \in Races \ {r} : step'[k] = step[k] /\ (Rating(k) => "ratings" \in overlapped')
          /\ \/ Cardinality(Humans) > 1 /\ step'[r] = "flush" /\ seen' = [seen EXCEPT ![r] = rating]
             \/ step'[r] = "done" /\ UNCHANGED seen
        BY <1>5 DEF LoadRatings, At, To, Reload, tables, LeagueTypeOK, Jobs
    <2>2. RatingsBooked'
        <3>1. \A h \in Humans : BookedFor(h) => BookedFor(h)'
            BY <2>1 DEF BookedFor, Booked
        <3> QED BY <3>1, BookedForEach DEF RatingsInv
    <2>3. \A h \in Humans : Booked(h)' = Booked(h)
        BY <2>1 DEF Booked
    <2>4. \A k \in Races, h \in Humans : seen'[k][h] # Unrated =>
              rating'[h] # Unrated /\ seen'[k][h].rated =< Cardinality(Booked(h)')
        <3>1. \A h \in Humans : rating[h] # Unrated => rating[h].rated =< Cardinality(Booked(h))
            BY BookedForEach DEF RatingsInv, BookedFor
        <3> QED BY <2>1, <2>3, <3>1 DEF RatingsInv, LeagueTypeOK
    <2>5. \A x \in history' : At(x[1], "done")'
        BY <2>1 DEF RatingsInv, At, LeagueTypeOK
    <2> QED BY <2>1, <2>2, <2>4, <2>5 DEF RatingsInv, At, Rating, LeagueTypeOK
<1>6. ASSUME NEW r \in Races, FlushRatings(r) PROVE RatingsInv'
    BY <1>1, <1>6 DEF FlushRatings, At, To, LeagueTypeOK, Jobs, tables, local
<1>7. ASSUME NEW r \in Races, FlushFails(r) \/ RestartBackend PROVE RatingsInv'
    <2>1. /\ UNCHANGED <<rating, history, overlapped>>
          /\ \A k \in Races : \/ step'[k] = step[k] /\ seen'[k] = seen[k]
                              \/ step'[k] \in {"new", "done"} /\ seen'[k] = Unseen
          /\ \A k \in Races : step[k] = "done" => step'[k] = "done"
        <3>1. CASE FlushFails(r)
            <4>1. /\ UNCHANGED <<rating, history, overlapped>> /\ step[r] = "flush" /\ r \in Jobs
                  /\ step' = [step EXCEPT ![r] = "done"] /\ seen' = [seen EXCEPT ![r] = Unseen]
                BY <3>1 DEF FlushFails, At, To, Reload, tables, Jobs
            <4>2. DOMAIN step = Jobs /\ DOMAIN seen = Races /\ Races \subseteq Jobs
                BY DEF LeagueTypeOK, Jobs
            <4>3. step'[r] = "done" /\ seen'[r] = Unseen
                BY <4>1, <4>2
            <4>4. \A k \in Races \ {r} : step'[k] = step[k] /\ seen'[k] = seen[k]
                BY <4>1, <4>2
            <4> QED BY <4>1, <4>3, <4>4
        <3>2. CASE RestartBackend
            BY <3>2 DEF RestartBackend, At, LeagueTypeOK, Jobs, tables
        <3> QED BY <1>7, <3>1, <3>2
    <2>2. RatingsBooked'
        <3>1. \A h \in Humans : BookedFor(h) => BookedFor(h)'
            BY <2>1 DEF BookedFor, Booked
        <3> QED BY <3>1, BookedForEach DEF RatingsInv
    <2>3. \A h \in Humans : Booked(h)' = Booked(h)
        BY <2>1 DEF Booked
    <2>4. \A x \in history' : At(x[1], "done")'
        BY <2>1 DEF RatingsInv, At, LeagueTypeOK
    <2> QED BY <2>1, <2>2, <2>3, <2>4 DEF RatingsInv, At, Rating, Unseen
<1>8. ASSUME NEW r \in Races, SaveRatings(r) PROVE RatingsInv'
    BY <1>8, SaveBooks
<1>9. CASE RestartBackend
    <2>1. CASE Races = {}
        BY <1>9, <2>1 DEF RestartBackend, RatingsInv, tables, RatingsBooked, LeagueTypeOK
    <2> QED BY <1>7, <1>9, <2>1
<1>10. CASE UNCHANGED leagueVars
    BY <1>1, <1>10 DEF leagueVars, tables, local
<1> QED BY <1>2, <1>3, <1>4, <1>5, <1>6, <1>7, <1>8, <1>9, <1>10 DEF LeagueNext, RatingJob

-----------------------------------------------------------------------------
(* Times count the recorded corrections, and places follow them.            *)

\* At the start there is no penalty.
LEMMA PenaltiesInit == LeagueInit => PenaltiesInv
<1>1. LeagueInit => IsFiniteSet(penalties) /\ penalties = {} /\ DOMAIN results = {}
    BY FS_EmptySet DEF LeagueInit, NoResults
<1> QED BY <1>1 DEF PenaltiesInv

Own(r, d) == {x \in penalties : x[2].race = r /\ x[2].driver = d}
Sec(S)    == SumFunctionOnSet([x \in S |-> x[2].sec], S)

\* The seconds given to a driver in a race, as a sum over a set of calls.
LEMMA SecondsAre ==
    /\ \A r, d : SecondsOf(r, d) = Sec(Own(r, d))
    /\ \A r, d : SecondsOf(r, d)' = Sec(Own(r, d)')
BY DEF SecondsOf, Own, Sec

\* A set of recorded corrections has a sum, which one more correction adds to.
LEMMA OneMore ==
    ASSUME NEW S, IsFiniteSet(S), \A x \in S : x[2].sec \in Int, NEW e, e \notin S, e[2].sec \in Int
    PROVE  Sec(S) \in Int /\ Sec(S \cup {e}) = Sec(S) + e[2].sec
<1> DEFINE T == S \cup {e}
           f == [x \in T |-> x[2].sec]
           g == [x \in S |-> x[2].sec]
<1>1. IsFiniteSet(T)
    BY FS_AddElement
<1>2. /\ \A x \in T : f[x] \in Int
      /\ \A x \in S : g[x] \in Int /\ f[x] \in Int /\ g[x] = f[x]
      /\ f[e] = e[2].sec
    OBVIOUS
<1>3. S \in SUBSET T /\ T \in SUBSET T /\ e \in T /\ T \ {e} = S /\ S \in SUBSET S
    OBVIOUS
<1> HIDE DEF T, f, g
<1>4. SumFunctionOnSet(f, T) = f[e] + SumFunctionOnSet(f, T \ {e})
    BY <1>1, <1>2, <1>3, SumRemove
<1>5. SumFunctionOnSet(f, S) = SumFunctionOnSet(g, S)
    BY <1>2, SumSame
<1>6. SumFunctionOnSet(g, S) \in Int
    BY <1>2, <1>3, SumType
<1>7. Sec(S) = SumFunctionOnSet(g, S) /\ Sec(T) = SumFunctionOnSet(f, T)
    BY DEF Sec, g, f
<1>8. Sec(S) \in Int /\ Sec(T) = Sec(S) + e[2].sec
    <2>1. Sec(T) = f[e] + Sec(S)
        BY <1>3, <1>4, <1>5, <1>7
    <2> QED BY <1>2, <1>6, <1>7, <2>1
<1> QED BY <1>8 DEF T

\* A correction adds its seconds to those of its driver in its race, and to no other's.
LEMMA SecondsGrow ==
    ASSUME LeagueTypeOK, PenaltiesInv, NEW p \in Penalties, FixTime(p), JobsFit,
           NEW r \in Races, NEW d \in Drivers
    PROVE  /\ SecondsOf(r, d) \in Int
           /\ SecondsOf(r, d)' = IF Race(p) = r /\ Driven(p) = d THEN SecondsOf(r, d) + target[p].sec
                                 ELSE SecondsOf(r, d)
<1> DEFINE e == <<p, target[p]>>
<1>1. penalties' = penalties \cup {e} /\ At(p, "fix")
    BY FixWrites
<1>2. e \notin penalties
    BY <1>1 DEF PenaltiesInv, At
<1>3. IsFiniteSet(Own(r, d)) /\ \A x \in Own(r, d) : x[2].sec \in Int
    <2>1. \A x \in penalties : x[2].sec \in Int
        BY LeagueAssumption DEF LeagueTypeOK, Target
    <2> QED BY <2>1, FS_Subset DEF Own, PenaltiesInv
<1>4. e[2] = target[p] /\ target[p].sec \in Int
    BY TargetType
<1> HIDE DEF e
<1>5. e \notin Own(r, d)
    BY <1>2 DEF Own
<1>6. Sec(Own(r, d)) \in Int /\ Sec(Own(r, d) \cup {e}) = Sec(Own(r, d)) + target[p].sec
    BY <1>3, <1>4, <1>5, OneMore
<1>7. Own(r, d)' = IF Race(p) = r /\ Driven(p) = d THEN Own(r, d) \cup {e} ELSE Own(r, d)
    BY <1>1, <1>4 DEF Own, Race, Driven
<1> QED BY <1>6, <1>7, SecondsAre

\* Whether a race is placed depends on its own rows.
LEMMA PlacedKept ==
    ASSUME NEW r, results'[r] = results[r], Placed(r)
    PROVE  Placed(r)'
BY DEF Placed

\* Every step keeps times and recorded corrections in step.
LEMMA PenaltiesStep ==
    ASSUME LeagueTypeOK, JobsFit, CallsInv, PenaltiesInv, [LeagueNext]_leagueVars
    PROVE  PenaltiesInv'
<1>0. \A x \in penalties : x[1] \in Penalties /\ x[1] \in Jobs /\ x[2] \in Target
    BY DEF LeagueTypeOK, Jobs
<1>1. CASE /\ UNCHANGED <<results, penalties, target>> /\ overlapped \subseteq overlapped'
           /\ reboots' = 0 => reboots = 0
           /\ \A p \in Penalties : /\ step'[p] \in {"new", "fix"} => step[p] \in {"new", "fix"}
                                   /\ reboots' = 0 /\ step[p] \in {"order", "place"} => step'[p] \in {"order", "place"}
    <2>1. \A r, d : SecondsOf(r, d)' = SecondsOf(r, d)
        BY <1>1 DEF SecondsOf
    <2>2. \A r : Placed(r) => Placed(r)'
        BY <1>1, PlacedKept
    <2>3. \A x \in penalties : step'[x[1]] \notin {"new", "fix"}
        BY <1>0, <1>1 DEF PenaltiesInv
    <2> QED BY <1>1, <2>1, <2>2, <2>3 DEF PenaltiesInv
<1>2. ASSUME NEW r \in Races, CommitRace(r) PROVE PenaltiesInv'
    <2>1. /\ r \notin DOMAIN results /\ DOMAIN results' = DOMAIN results \cup {r}
          /\ \A q \in DOMAIN results : results'[q] = results[q]
          /\ \A d \in Drivers : results'[r][d].time = results'[r][d].flag
          /\ UNCHANGED <<penalties, target, overlapped, reboots>> /\ step' = [step EXCEPT ![r] = "list"]
        BY <1>2, CommitWrites DEF local, To
    <2>2. \A p \in Penalties : step'[p] = step[p]
        BY <2>1, LeagueAssumption DEF LeagueTypeOK
    <2>3. \A x \in penalties : x[2].race # r
        BY <1>0, <2>1 DEF PenaltiesInv, JobsFit, At
    <2>4. \A q, d : SecondsOf(q, d)' = SecondsOf(q, d)
        BY <2>1 DEF SecondsOf
    <2>5. ASSUME NEW d \in Drivers, results'[r][d].time # NoTime
          PROVE  results'[r][d].flag \in Int /\ results'[r][d].time = results'[r][d].flag + SecondsOf(r, d)
        <3>1. Own(r, d) = {}
            BY <2>3 DEF Own
        <3>2. SecondsOf(r, d) = 0
            BY <3>1, SecondsAre, SumEmpty DEF Sec
        <3>3. IsResults(results')
            BY <1>2, CommitType DEF LeagueTypeOK
        <3>4. results'[r][d].flag \in Int
            BY <2>1, <2>5, <3>3 DEF IsResults, Result, Times
        <3> QED BY <2>1, <3>2, <3>4
    <2>6. \A q \in DOMAIN results : Placed(q) => Placed(q)'
        BY <2>1, PlacedKept
    <2>7. \A x \in penalties : step'[x[1]] = step[x[1]]
        BY <1>0, <2>2
    <2> QED BY <2>1, <2>2, <2>3, <2>4, <2>5, <2>6, <2>7 DEF PenaltiesInv
<1>3. ASSUME NEW p \in Penalties, FixTime(p) PROVE PenaltiesInv'
    <2> DEFINE r == Race(p)
               d == Driven(p)
               old == view[p][r][d]
               row == Corrected(old, target[p].sec)
               t == IF row = old THEN results[r][d].time ELSE row.time
    <2>1. /\ r \in DOMAIN results /\ DOMAIN results' = DOMAIN results
          /\ \A q \in DOMAIN results \ {r} : results'[q] = results[q]
          /\ \A e \in Drivers \ {d} : results'[r][e] = results[r][e]
          /\ results[r] \in [Drivers -> Result]
          /\ results'[r][d] = [results[r][d] EXCEPT !.time = t]
          /\ penalties' = penalties \cup {<<p, target[p]>>}
          /\ step' = [step EXCEPT ![p] = "order"] /\ step[p] = "fix"
          /\ UNCHANGED <<target, overlapped, reboots>>
        BY <1>3, FixWrites DEF To, At
    <2>2. /\ d \in Drivers /\ r \in Races /\ target[p].sec \in Int /\ target[p].sec # 0 /\ p \in Jobs
        BY TargetType, LeagueAssumption DEF Target
    <2>3. step'[p] = "order" /\ \A q \in Penalties \ {p} : step'[q] = step[q]
        BY <2>1, <2>2 DEF LeagueTypeOK, Jobs
    <2>4. \A q \in Races, e \in Drivers :
              /\ SecondsOf(q, e) \in Int
              /\ SecondsOf(q, e)' = IF r = q /\ d = e THEN SecondsOf(q, e) + target[p].sec ELSE SecondsOf(q, e)
        BY <1>3, SecondsGrow
    <2>5. ASSUME NEW q \in Races, NEW e \in Drivers, q = r, e = d,
                 q \notin overlapped, results'[q][e].time # NoTime
          PROVE  /\ results'[q][e].flag \in Int
                 /\ results'[q][e].time = results'[q][e].flag + SecondsOf(q, e)'
        <3>1. old = results[r][d]
            BY <2>1, <2>5 DEF CallsInv, Correcting, Race
        <3>2. old \in Result
            BY <2>1, <2>2, <3>1
        <3>3. results'[r][d].time = t /\ results'[r][d].flag = old.flag
            BY <2>1, <3>1, <3>2 DEF Result
        <3>4. old.time # NoTime
            BY <2>5, <3>1, <3>3 DEF Corrected
        <3>5. row = [old EXCEPT !.time = @ + target[p].sec]
            BY <3>4 DEF Corrected
        <3>6. row.time = old.time + target[p].sec /\ row.time # old.time
            BY <2>2, <3>2, <3>4, <3>5 DEF Result, Times
        <3>7. t = old.time + target[p].sec
            <4>1. row # old
                BY <3>6
            <4> HIDE DEF row
            <4> QED BY <3>6, <4>1
        <3>8. old.flag \in Int /\ old.time = old.flag + SecondsOf(q, e)
            BY <2>1, <2>2, <2>5, <3>1, <3>4 DEF PenaltiesInv
        <3>9. SecondsOf(q, e)' = SecondsOf(q, e) + target[p].sec /\ SecondsOf(q, e) \in Int
            BY <2>4, <2>5
        <3> HIDE DEF t, row, old
        <3> QED BY <2>2, <2>5, <3>3, <3>7, <3>8, <3>9
    <2> HIDE DEF t
    <2>6. \A q \in DOMAIN results' \ overlapped : \A e \in Drivers : results'[q][e].time # NoTime =>
              results'[q][e].flag \in Int /\ results'[q][e].time = results'[q][e].flag + SecondsOf(q, e)'
        <3> SUFFICES ASSUME NEW q \in DOMAIN results' \ overlapped, NEW e \in Drivers, results'[q][e].time # NoTime
                     PROVE  /\ results'[q][e].flag \in Int
                            /\ results'[q][e].time = results'[q][e].flag + SecondsOf(q, e)'
            OBVIOUS
        <3>1. CASE q = r /\ e = d
            BY <2>2, <2>5, <3>1
        <3>2. CASE ~(q = r /\ e = d)
            <4>1. results'[q][e] = results[q][e]
                BY <2>1, <3>2
            <4>2. q \in Races /\ SecondsOf(q, e)' = SecondsOf(q, e)
                BY <2>1, <2>4, <3>2 DEF LeagueTypeOK, IsResults
            <4> QED BY <2>1, <4>1, <4>2 DEF PenaltiesInv
        <3> QED BY <3>1, <3>2
    <2>7. \A q \in DOMAIN results \ {r} : Placed(q) => Placed(q)'
        BY <2>1, PlacedKept
    <2>8. \A x \in penalties' : step'[x[1]] \notin {"new", "fix"} /\ x[2] = target[x[1]]
        BY <1>0, <2>1, <2>3 DEF PenaltiesInv
    <2>9. IsFiniteSet(penalties')
        BY <2>1, FS_AddElement DEF PenaltiesInv
    <2>10. reboots' = 0 => \A q \in DOMAIN results' \ overlapped' : (\E x \in penalties' : x[2].race = q) =>
              Placed(q)' \/ \E k \in Penalties : step'[k] \in {"order", "place"} /\ target'[k].race = q
        <3> SUFFICES ASSUME reboots' = 0, NEW q \in DOMAIN results' \ overlapped',
                            NEW x \in penalties', x[2].race = q
                     PROVE  Placed(q)' \/ \E k \in Penalties : step'[k] \in {"order", "place"} /\ target'[k].race = q
            OBVIOUS
        <3>1. CASE q = r
            BY <2>1, <2>3, <3>1 DEF Race
        <3>2. CASE q # r
            <4>1. x \in penalties
                BY <2>1, <3>2 DEF Race
            <4>2. Placed(q) \/ \E k \in Penalties : step[k] \in {"order", "place"} /\ target[k].race = q
                BY <2>1, <4>1 DEF PenaltiesInv
            <4> QED BY <2>1, <2>3, <2>7, <3>2, <4>2
        <3> QED BY <3>1, <3>2
    <2> QED BY <2>1, <2>6, <2>8, <2>9, <2>10 DEF PenaltiesInv
<1>4. ASSUME NEW p \in Penalties, PlaceAll(p) PROVE PenaltiesInv'
    <2> DEFINE r == Race(p)
               old == view[p][r]
    <2>1. /\ r \in DOMAIN results /\ DOMAIN results' = DOMAIN results
          /\ \A q \in DOMAIN results \ {r} : results'[q] = results[q]
          /\ results[r] \in [Drivers -> Result]
          /\ step' = [step EXCEPT ![p] = "list"] /\ step[p] = "place"
          /\ UNCHANGED <<penalties, target, overlapped, reboots>>
        BY <1>4, PlaceWrites DEF To, At, local
    <2>2. PICK order \in [Drivers -> Places] :
              /\ \A a, b \in Drivers : Before(old[a], old[b]) => order[a] < order[b]
              /\ results'[r] = Replaced(results[r], old, order)
        BY <1>4, PlaceWrites
    <2>3. step'[p] = "list" /\ \A q \in Penalties \ {p} : step'[q] = step[q]
        BY <2>1 DEF LeagueTypeOK, Jobs
    <2>4. \A q, d : SecondsOf(q, d)' = SecondsOf(q, d)
        BY <2>1 DEF SecondsOf
    <2>5. r \notin overlapped => old = results[r]
        BY <2>1 DEF CallsInv, Correcting, Race
    <2>6. r \notin overlapped => \A d \in Drivers :
              /\ results'[r][d].pos = order[d] /\ results'[r][d].time = results[r][d].time
              /\ results'[r][d].flag = results[r][d].flag /\ results'[r][d].status = results[r][d].status
        BY <2>1, <2>2, <2>5, PlacedRow
    <2>7. \A q : q = r /\ q \notin overlapped => Placed(q)'
        <3> SUFFICES ASSUME r \notin overlapped, NEW a \in Drivers, NEW b \in Drivers,
                            Before(results'[r][a], results'[r][b])
                     PROVE  results'[r][a].pos < results'[r][b].pos
            BY DEF Placed
        <3>1. Before(old[a], old[b])
            BY <2>5, <2>6 DEF Before, Classified
        <3> QED BY <2>2, <2>6, <3>1
    <2>8. \A q \in DOMAIN results \ {r} : Placed(q) => Placed(q)'
        BY <2>1, PlacedKept
    <2> HIDE DEF old
    <2>9. \A x \in penalties : step'[x[1]] \notin {"new", "fix"}
        BY <1>0, <2>3 DEF PenaltiesInv
    <2>10. \A q \in DOMAIN results' \ overlapped : \A e \in Drivers : results'[q][e].time # NoTime =>
              results'[q][e].flag \in Int /\ results'[q][e].time = results'[q][e].flag + SecondsOf(q, e)
        BY <2>1, <2>6 DEF PenaltiesInv
    <2>11. reboots = 0 => \A q \in DOMAIN results \ overlapped : (\E x \in penalties : x[2].race = q) =>
              Placed(q)' \/ \E k \in Penalties : step'[k] \in {"order", "place"} /\ target[k].race = q
        BY <2>3, <2>7, <2>8 DEF PenaltiesInv, Race
    <2> QED BY <2>1, <2>4, <2>9, <2>10, <2>11 DEF PenaltiesInv
<1>5. ASSUME NEW p \in Penalties, LoadResult(p) \/ ReadOrder(p) PROVE PenaltiesInv'
    <2>0. p \in Jobs
        BY DEF Jobs
    <2>1. /\ UNCHANGED <<results, penalties, target, reboots>> /\ overlapped \subseteq overlapped'
          /\ \/ step[p] = "new" /\ step' = [step EXCEPT ![p] = "fix"]
             \/ step[p] = "order" /\ step' = [step EXCEPT ![p] = "place"]
        BY <1>5 DEF LoadResult, ReadOrder, tables, At, To
    <2>2. \A q \in Penalties : q \in Jobs
        BY DEF Jobs
    <2>3. \A q \in Penalties : /\ step'[q] \in {"new", "fix"} => step[q] \in {"new", "fix"}
                               /\ step[q] \in {"order", "place"} => step'[q] \in {"order", "place"}
        BY <2>0, <2>1, <2>2 DEF LeagueTypeOK
    <2> QED BY <1>1, <2>1, <2>3
<1>6. ASSUME NEW j \in Jobs, Standings(j) PROVE PenaltiesInv'
    <2>1. /\ UNCHANGED <<results, penalties, target, reboots>> /\ overlapped \subseteq overlapped'
          /\ step[j] \in {"list", "read", "delete", "wait", "insert"}
          /\ \E s \in {"read", "delete", "wait", "insert", "rate", "done"} : step' = [step EXCEPT ![j] = s]
        BY <1>6 DEF Standings, ListRaces, ReadResults, BeginDelete, EndDelete, InsertStandings, InsertFails,
           tables, At, To, AfterStandings
    <2>2. \A q \in Penalties : q \in Jobs
        BY DEF Jobs
    <2>3. \A q \in Penalties : /\ step'[q] \in {"new", "fix"} => step[q] \in {"new", "fix"}
                               /\ step[q] \in {"order", "place"} => step'[q] \in {"order", "place"}
        BY <2>1, <2>2 DEF LeagueTypeOK
    <2> QED BY <1>1, <2>1, <2>3
<1>7. ASSUME NEW r \in Races, RatingJob(r) PROVE PenaltiesInv'
    <2>1. /\ UNCHANGED <<results, penalties, target, reboots>> /\ overlapped \subseteq overlapped'
          /\ \E s : step' = [step EXCEPT ![r] = s]
        BY <1>7 DEF RatingJob, LoadRatings, FlushRatings, FlushFails, SaveRatings, tables, local, loaded, To
    <2>2. \A q \in Penalties : q \in Jobs /\ q # r
        BY LeagueAssumption DEF Jobs
    <2>3. \A q \in Penalties : step'[q] = step[q]
        BY <2>1, <2>2 DEF LeagueTypeOK
    <2> QED BY <1>1, <2>1, <2>3
<1>8. CASE RestartBackend
    <2>1. /\ UNCHANGED <<results, penalties, target, overlapped>> /\ reboots' # 0
          /\ \A p \in Penalties : step'[p] = IF step[p] = "new" THEN "new" ELSE "done"
        BY <1>8 DEF RestartBackend, tables, At, Jobs, LeagueTypeOK
    <2> QED BY <1>1, <2>1
<1>9. CASE UNCHANGED leagueVars
    BY <1>1, <1>9 DEF leagueVars, tables, local
<1> QED BY <1>2, <1>3, <1>4, <1>5, <1>6, <1>7, <1>8, <1>9 DEF LeagueNext, PenaltyCall

-----------------------------------------------------------------------------
(* League tables: the theorems.                                            *)

\* LeagueInv, which the four theorems below follow from, holds in every state.
THEOREM LeagueInvariant == LeagueSpec => []LeagueInv
<1>1. LeagueInit => LeagueInv
    BY LeagueTypeInit, JobsFitInit, TablesInit, CallsInit, DeletesInit, MissedInit, RatingsInit, PenaltiesInit
       DEF LeagueInv
<1>2. LeagueInv /\ [LeagueNext]_leagueVars => LeagueInv'
    BY LeagueTypeStep, JobsFitStep, TablesStep, CallsStep, DeletesStep, MissedStep, RatingsStep, PenaltiesStep
       DEF LeagueInv
<1> QED BY <1>1, <1>2, PTL DEF LeagueSpec

\* The tables always hold one recalculation, never parts of two: the constructors' table
\* sums the drivers' table, whose positions follow the points, and no job takes a table or
\* a loaded row out of what the handlers expect.
THEOREM LeagueIsSound == LeagueSpec => []LeagueSound
<1>1. LeagueInv => LeagueSound
    BY DEF LeagueInv, LeagueSound, TablesInv
<1> QED BY <1>1, LeagueInvariant, PTL

\* When the jobs are done the drivers' table counts every race, with the penalties in it,
\* unless two recalculations, or two penalty calls for a race, were at work at once.
THEOREM StandingsAreCurrent == LeagueSpec => []StandingsCurrent
<1>1. LeagueInv => StandingsCurrent
    <2> SUFFICES ASSUME LeagueInv, LeagueQuiet, results # NoResults,
                        overlapped \cap ({"standings"} \cup Races) = {}
                 PROVE  Current
        BY DEF StandingsCurrent
    <2>1. DOMAIN results # {}
        BY DEF LeagueInv, LeagueTypeOK, IsResults, NoResults
    <2>2. \A j \in Jobs : ~At(j, "list") /\ ~Recalculating(j)
        BY DEF LeagueQuiet, At, Recalculating
    <2> QED BY <2>1, <2>2 DEF LeagueInv, NothingMissed, LeagueQuiet
<1> QED BY <1>1, LeagueInvariant, PTL

\* A race is in the rating history of all its players or of none, and a player's row counts
\* no more races than his history has; unless races were rated at once, it counts them all
\* and its peak is not below its rating.
THEOREM RatingsAreBooked == LeagueSpec => []RatingsBooked
<1>1. LeagueInv => RatingsBooked
    BY DEF LeagueInv, RatingsInv
<1> QED BY <1>1, LeagueInvariant, PTL

\* Unless two calls for a race overlap, its times are those it was submitted with plus the
\* recorded corrections, and when the jobs are done its positions and points follow them.
THEOREM PenaltiesAreCounted == LeagueSpec => []PenaltiesCounted
<1>1. LeagueInv => PenaltiesCounted
    <2> SUFFICES ASSUME LeagueInv, NEW r \in DOMAIN results \ overlapped
                 PROVE  /\ \A d \in Drivers : results[r][d].time # NoTime =>
                               results[r][d].time = results[r][d].flag + SecondsOf(r, d)
                        /\ LeagueQuiet /\ (\E x \in penalties : x[2].race = r) =>
                               Placed(r) /\ \A d \in Drivers : results[r][d].points = CalcPoints(results[r][d])
        BY DEF PenaltiesCounted, Placed
    <2>1. LeagueQuiet => reboots = 0 /\ \A p \in Penalties : step[p] \notin {"order", "place"}
        BY DEF LeagueQuiet, Jobs
    <2> QED BY <2>1 DEF LeagueInv, PenaltiesInv, CallsInv
<1> QED BY <1>1, LeagueInvariant, PTL

-----------------------------------------------------------------------------
(* Achievements: sets of races.                                            *)

Above(S, q) == {s \in S : RaceOf[s].round > RaceOf[q].round}
LastRounds(S) == {q \in S : Cardinality(Above(S, q)) < 3}
After(S, q, all, newest) == {s \in S : RoundBefore(q, s, all, newest)}

\* The races of a sequence are finitely many.
LEMMA RacesFinite ==
    ASSUME NEW S, NEW all \in Seq(S)
    PROVE  IsFiniteSet(Range(all)) /\ Range(all) \subseteq S
<1>1. Len(all) \in Nat /\ DOMAIN all = 1..Len(all) /\ all \in [1..Len(all) -> S]
    OBVIOUS
<1>2. all \in Surjection(1..Len(all), Range(all))
    BY <1>1 DEF Surjection, Range
<1>3. IsFiniteSet(1..Len(all))
    BY <1>1, FS_Interval
<1>4. IsFiniteSet(Range(all))
    BY <1>2, <1>3, FS_Surjection
<1>5. Range(all) \subseteq S
    BY <1>1 DEF Range
<1> QED BY <1>4, <1>5

\* A part of a finite set is finite and has no more elements.
LEMMA PartOf ==
    ASSUME NEW S, IsFiniteSet(S), NEW T, T \subseteq S
    PROVE  IsFiniteSet(T) /\ Cardinality(T) \in Nat /\ Cardinality(S) \in Nat /\ Cardinality(T) =< Cardinality(S)
BY FS_Subset, FS_CardinalityType

\* ORDER BY orders races strictly: by round, and those of one round by their ids.
LEMMA OrderIsStrict ==
    ASSUME NEW all \in Seq(RaceIds), NEW newest \in BOOLEAN
    PROVE  /\ \A a, b \in Range(all) : a # b => RoundBefore(a, b, all, newest) \/ RoundBefore(b, a, all, newest)
           /\ \A a \in Range(all) : ~RoundBefore(a, a, all, newest)
           /\ \A a, b, c \in Range(all) :
                 RoundBefore(a, b, all, newest) /\ RoundBefore(b, c, all, newest) => RoundBefore(a, c, all, newest)
<1>1. DOMAIN all = 1..Len(all) /\ Len(all) \in Nat
    OBVIOUS
<1>2. ASSUME NEW a \in Range(all) PROVE Id(all, a) \in Int /\ all[Id(all, a)] = a
    <2>1. \E i \in DOMAIN all : all[i] = a
        BY DEF Range
    <2>2. Id(all, a) \in DOMAIN all /\ all[Id(all, a)] = a
        BY <2>1 DEF Id
    <2> QED BY <1>1, <2>2
<1>3. \A a \in Range(all) : RaceOf[a].round \in Int
    BY RacesFinite, AwardsAssumption
<1> DEFINE I(a) == Id(all, a)
           R(a) == RaceOf[a].round
<1>4. /\ \A a \in Range(all) : I(a) \in Int /\ R(a) \in Int
      /\ \A a, b \in Range(all) : a # b => I(a) # I(b)
    BY <1>2, <1>3
<1>5. \A a, b : RoundBefore(a, b, all, newest) <=>
          R(a) < R(b) \/ (R(a) = R(b) /\ (IF newest THEN I(a) < I(b) ELSE I(b) < I(a)))
    BY DEF RoundBefore
<1> HIDE DEF I, R
<1>6. \A a, b \in Range(all) : a # b => RoundBefore(a, b, all, newest) \/ RoundBefore(b, a, all, newest)
    BY <1>4, <1>5
<1>7. \A a \in Range(all) : ~RoundBefore(a, a, all, newest)
    BY <1>4, <1>5
<1>8. ASSUME NEW a \in Range(all), NEW b \in Range(all), NEW c \in Range(all),
             RoundBefore(a, b, all, newest), RoundBefore(b, c, all, newest)
      PROVE  RoundBefore(a, c, all, newest)
    <2>1. I(a) \in Int /\ I(b) \in Int /\ I(c) \in Int /\ R(a) \in Int /\ R(b) \in Int /\ R(c) \in Int
        BY <1>4
    <2>2. CASE newest
        <3>1. \A x, y : RoundBefore(x, y, all, newest) <=> R(x) < R(y) \/ (R(x) = R(y) /\ I(x) < I(y))
            BY <1>5, <2>2
        <3> QED BY <1>8, <2>1, <3>1
    <2>3. CASE ~newest
        <3>1. \A x, y : RoundBefore(x, y, all, newest) <=> R(x) < R(y) \/ (R(x) = R(y) /\ I(y) < I(x))
            BY <1>5, <2>3
        <3> QED BY <1>8, <2>1, <3>1
    <2> QED BY <2>2, <2>3
<1> QED BY <1>6, <1>7, <1>8

\* When three races have fewer than three above them, LIMIT 3 finds those, whatever the order of ties.
LEMMA LimitIsLast ==
    ASSUME NEW all \in Seq(RaceIds), NEW newest \in BOOLEAN, NEW S, S \subseteq Range(all),
           Cardinality(LastRounds(S)) = 3
    PROVE  Recent(S, 3, all, newest) = LastRounds(S)
<1>1. IsFiniteSet(S)
    BY RacesFinite, PartOf
<1>2. Recent(S, 3, all, newest) = {r \in S : Cardinality(After(S, r, all, newest)) < 3}
    BY DEF Recent, After
<1>3. ASSUME NEW r \in S, Cardinality(After(S, r, all, newest)) < 3 PROVE r \in LastRounds(S)
    <2>1. Above(S, r) \subseteq After(S, r, all, newest) /\ After(S, r, all, newest) \subseteq S
        BY DEF Above, After, RoundBefore
    <2>2. IsFiniteSet(After(S, r, all, newest))
        BY <1>1, <2>1, PartOf
    <2>3. Cardinality(Above(S, r)) < 3
        BY <1>3, <2>1, <2>2, PartOf
    <2> QED BY <2>3 DEF LastRounds
<1>4. ASSUME NEW r \in LastRounds(S) PROVE r \in S /\ Cardinality(After(S, r, all, newest)) < 3
    <2>1. r \in S /\ Cardinality(Above(S, r)) < 3
        BY DEF LastRounds
    <2>2. ASSUME NEW s \in After(S, r, all, newest) PROVE s \in LastRounds(S) \ {r}
        <3>1. s \in S /\ s # r /\ (RaceOf[r].round < RaceOf[s].round \/ RaceOf[r].round = RaceOf[s].round)
            BY <2>1, OrderIsStrict DEF After, RoundBefore
        <3>2. RaceOf[r].round \in Int /\ \A t \in S : RaceOf[t].round \in Int
            BY <2>1, RacesFinite, AwardsAssumption
        <3>3. Above(S, s) \subseteq Above(S, r) /\ Above(S, r) \subseteq S
            BY <3>1, <3>2 DEF Above
        <3>4. IsFiniteSet(Above(S, r))
            BY <1>1, <3>3, PartOf
        <3>5. Cardinality(Above(S, s)) < 3
            BY <2>1, <3>3, <3>4, PartOf
        <3> QED BY <3>1, <3>5 DEF LastRounds
    <2>3. IsFiniteSet(LastRounds(S))
        BY <1>1, PartOf DEF LastRounds
    <2>4. IsFiniteSet(LastRounds(S) \ {r}) /\ Cardinality(LastRounds(S) \ {r}) = 3 - 1
        BY <2>3, <1>4, FS_RemoveElement
    <2>5. Cardinality(After(S, r, all, newest)) < 3
        BY <2>2, <2>4, PartOf
    <2> QED BY <2>1, <2>5
<1> QED BY <1>2, <1>3, <1>4 DEF LastRounds

\* A race added to a season that is not among the last three rounds leaves them alone.
LEMMA LastRoundsStay ==
    ASSUME NEW S, IsFiniteSet(S), NEW y, \A s \in S \cup {y} : RaceOf[s].round \in Int,
           y \notin LastRounds(S \cup {y})
    PROVE  LastRounds(S \cup {y}) = LastRounds(S)
<1> DEFINE T == S \cup {y}
<1>1. IsFiniteSet(T)
    BY FS_AddElement
<1>2. \A q : Above(S, q) \subseteq Above(T, q) /\ Above(S, q) \subseteq S /\ Above(T, q) \subseteq T
    BY DEF Above
<1>3. y \notin LastRounds(T) /\ T = S \cup {y} /\ \A s \in T : RaceOf[s].round \in Int
    OBVIOUS
<1> HIDE DEF T
<1>4. ASSUME NEW q \in LastRounds(T) PROVE q \in LastRounds(S)
    <2>1. q \in S /\ Cardinality(Above(T, q)) < 3
        BY <1>4, <1>3 DEF LastRounds
    <2>2. IsFiniteSet(Above(T, q))
        BY <1>1, <1>2, PartOf
    <2>3. Cardinality(Above(S, q)) < 3
        BY <1>2, <2>1, <2>2, PartOf
    <2> QED BY <2>1, <2>3 DEF LastRounds
<1>5. ASSUME NEW q \in LastRounds(S), q \notin LastRounds(T) PROVE FALSE
    <2>1. q \in S /\ q \in T /\ Cardinality(Above(S, q)) < 3 /\ ~(Cardinality(Above(T, q)) < 3)
        BY <1>5, <1>3 DEF LastRounds
    <2>2. y \in Above(T, q)
        <3>1. Above(T, q) # Above(S, q)
            BY <2>1
        <3> QED BY <1>2, <1>3, <3>1 DEF Above
    <2>3. Above(T, y) \subseteq Above(S, q)
        BY <1>3, <2>1, <2>2 DEF Above
    <2>4. IsFiniteSet(Above(S, q))
        BY <1>2, PartOf
    <2>5. Cardinality(Above(T, y)) < 3
        BY <2>1, <2>3, <2>4, PartOf
    <2> QED BY <1>3, <2>5 DEF LastRounds
<1>6. LastRounds(T) = LastRounds(S)
    BY <1>4, <1>5
<1> QED BY <1>6, <1>3

-----------------------------------------------------------------------------
(* Achievements: the invariant.                                            *)

\* The code is saved for a race, or its job has found it and not yet saved it.
Given(p, code, r) == <<p, code, r>> \in unlocked \/ <<p, code>> \in pending[r] \/ code \in returned[r][p]
Holds(p, code) == \E r \in NewRaces : Given(p, code, r)

\* The job of the race has run the player's checker of the code.
Passed(r, p, code) == \E i \in 1..ran[r][p] : Checkers[i] = code

\* A job that runs has a committed race, what it found is of its players, and it saves
\* when it has run all their checkers.
JobsClean ==
    /\ \A r \in NewRaces :
          /\ r \in Range(raced) <=> jobStep[r] # "new"
          /\ jobStep[r] # "check" => pending[r] = {} /\ \A p \in Players : returned[r][p] = {}
          /\ jobStep[r] = "new" => \A p \in Players : ran[r][p] = 0
          /\ rebooted = 0 /\ jobStep[r] = "done" => \A p \in Field(r) : ran[r][p] = NumCheckers
    /\ \A r \in NewRaces, p \in Players :
          /\ \A c \in AwardCodes : <<p, c>> \in pending[r] => p \in Field(r)
          /\ returned[r][p] # {} => p \in Field(r) /\ ran[r][p] # NumCheckers
    /\ \A r \in NewRaces, p \in Players, c \in AwardCodes :
          <<p, c, r>> \in unlocked => jobStep[r] = "done"

\* Who was never checked in a rush has no code twice, and no job is about to save one twice.
OnceEach ==
    \A p \in Players : p \notin rushed =>
        /\ \A c \in AwardCodes, r, q \in NewRaces :
              <<p, c, r>> \in unlocked /\ <<p, c, q>> \in unlocked => r = q
        /\ \A c \in AwardCodes, r \in NewRaces : <<p, c>> \in pending[r] => ~Has(p, c)
        /\ \A c, d \in AwardCodes, r, q \in NewRaces :
              <<p, c>> \in pending[r] /\ <<p, d>> \in pending[q] => r = q

\* A first win whose checker has run is rewarded.
FirstWins ==
    rebooted = 0 => \A p \in Players, r \in Range(raced) :
        p \notin rushed /\ Won(p, r) /\ Passed(r, p, "FIRST_BLOOD") /\ (\A q \in Range(career) : ~Won(p, q))
            => Holds(p, "FIRST_BLOOD")

\* Three wins at the end of a season whose checkers have run are rewarded.
Dominates(p, r) ==
    /\ Cardinality(LastThree(p, r)) = 3 /\ \A q \in LastThree(p, r) : Won(p, q)
    /\ \A q \in Range(career) : RaceOf[q].season # RaceOf[r].season
Dominations ==
    rebooted = 0 => \A p \in Players, r \in Range(raced) :
        Dominates(p, r) /\ (\A q \in LastThree(p, r) : Passed(q, p, "DOMINATOR"))
            => Holds(p, "DOMINATOR")

\* The races that count, with race r, for a code that includes others, and what they must
\* come to.
Joins(code, p, q, r) ==
    /\ p \in Entered(q)
    /\ code = "UNDERDOG" => q = r
    /\ code = "HOT_STREAK" => RaceOf[q].day = RaceOf[r].day /\ Row(q, p).pos = 1
    /\ code = "TWO_HUNDRED_PTS" => RaceOf[q].season = RaceOf[r].season
Group(code, p, r) == {q \in Range(career) \cup Range(raced) : Joins(code, p, q, r)}
PointsIn(p, S) == SumFunctionOnSet([q \in S |-> Row(q, p).points], S)
Enough(code, p, r, S) ==
    /\ code = "UNDERDOG" => Row(r, p).pos = 1 /\ Row(r, p).grid >= 15
    /\ code = "HOT_STREAK" => Cardinality(S) >= 3
    /\ code = "TWO_HUNDRED_PTS" => PointsIn(p, S) >= 200
    /\ code = "HUNDRED_RACES" => Cardinality(S) >= 100
Deserves(code, p, r) == Joins(code, p, r, r) /\ Enough(code, p, r, Group(code, p, r))

\* What was once deserved still is: races and points only grow.
Deserved ==
    \A p \in Players, r \in NewRaces, e \in Includes :
        Given(p, e[1], r) => r \in Range(raced) /\ Deserves(e[1], p, r)

\* When the included checker has run for all races that count, its code is there: that of
\* the last race committed has seen them all.
Included ==
    rebooted = 0 => \A p \in Players, r \in Range(raced), e \in Includes :
        /\ Deserves(e[1], p, r)
        /\ \A q \in Range(raced) : Joins(e[1], p, q, r) => Passed(q, p, e[2])
        => Holds(p, e[2])

AwardsInv ==
    AwardsTypeOK /\ JobsClean /\ OnceEach /\ FirstWins /\ Dominations /\ Deserved /\ Included

-----------------------------------------------------------------------------
(* Achievements: what the checkers return.                                 *)

\* The checkers of the codes that the invariant names are in the list.
LEMMA CheckersKnown ==
    /\ NumCheckers \in Nat \ {0} /\ DOMAIN Checkers = 1..NumCheckers
    /\ {"FIRST_BLOOD", "DOMINATOR"} \subseteq AwardCodes
    /\ \A e \in Includes : e[2] \in AwardCodes
<1>1. NumCheckers = 43 /\ DOMAIN Checkers = 1..43
    BY DEF NumCheckers, Checkers
<1>2. /\ Checkers[1] = "FIRST_BLOOD" /\ Checkers[2] = "ROCKET_START" /\ Checkers[7] = "COMEBACK_KID"
      /\ Checkers[12] = "DOMINATOR" /\ Checkers[14] = "WEEKEND_WARRIOR" /\ Checkers[15] = "CENTURION"
      /\ Checkers[21] = "LATE_BRAKER" /\ Checkers[22] = "DOUBLE_POINTS" /\ Checkers[30] = "FIFTY_RACES"
    BY DEF Checkers
<1>3. {"FIRST_BLOOD", "ROCKET_START", "COMEBACK_KID", "DOMINATOR", "WEEKEND_WARRIOR", "CENTURION",
       "LATE_BRAKER", "DOUBLE_POINTS", "FIFTY_RACES"} \subseteq AwardCodes
    BY <1>1, <1>2 DEF AwardCodes, Range
<1>4. \A e \in Includes : e[2] \in {"ROCKET_START", "COMEBACK_KID", "WEEKEND_WARRIOR", "CENTURION",
                                    "LATE_BRAKER", "DOUBLE_POINTS", "FIFTY_RACES"}
    BY DEF Includes
<1> QED BY <1>1, <1>3, <1>4

\* Each group of checkers returns codes of its own.
LEMMA FamiliesOfCodes ==
    ASSUME NEW p, NEW r, NEW all, NEW leader, NEW newest
    PROVE  /\ OriginalAwards(p, r, all, leader, newest) \subseteq
                 {"FIRST_BLOOD", "ROCKET_START", "RAIN_MASTER", "WRECKING_BALL", "LAST_TO_FIRST",
                  "CLEAN_SWEEP", "COMEBACK_KID", "PHOTO_FINISH", "SURVIVOR", "PIT_MASTER", "GIANT_KILLER",
                  "DOMINATOR", "CONSISTENCY_KING", "WEEKEND_WARRIOR", "CENTURION", "BOT_SLAYER",
                  "HEARTBREAKER", "SPEED_DEMON"}
           /\ RaceAwards(p, r, all, newest) \subseteq
                 {"UNDERDOG", "RAIN_DANCE", "LATE_BRAKER", "DOUBLE_POINTS", "MARATHON_MAN", "PENALTY_FREE",
                  "TEAM_ORDERS", "THE_STIG", "BULLDOZER"}
           /\ ProgressAwards(p, r, all, newest) \subseteq
                 {"RISING_STAR", "HOT_STREAK", "FIFTY_RACES", "HUNDRED_RACES", "POINTS_MACHINE",
                  "TWO_HUNDRED_PTS", "VETERAN"}
           /\ FunAwards(p, r, all, newest) \subseteq
                 {"TORPEDO", "GLASS_CANNON", "REVERSE_GRID", "SUNDAY_DRIVER", "LAST_NOT_LEAST", "JINXED",
                  "PHOENIX", "GENTLEMAN", "FOUNDING_FATHER"}
<1>1. OriginalAwards(p, r, all, leader, newest) \subseteq
                 {"FIRST_BLOOD", "ROCKET_START", "RAIN_MASTER", "WRECKING_BALL", "LAST_TO_FIRST",
                  "CLEAN_SWEEP", "COMEBACK_KID", "PHOTO_FINISH", "SURVIVOR", "PIT_MASTER", "GIANT_KILLER",
                  "DOMINATOR", "CONSISTENCY_KING", "WEEKEND_WARRIOR", "CENTURION", "BOT_SLAYER",
                  "HEARTBREAKER", "SPEED_DEMON"}
    BY Zenon DEF OriginalAwards, Awarded
<1>2. RaceAwards(p, r, all, newest) \subseteq
                 {"UNDERDOG", "RAIN_DANCE", "LATE_BRAKER", "DOUBLE_POINTS", "MARATHON_MAN", "PENALTY_FREE",
                  "TEAM_ORDERS", "THE_STIG", "BULLDOZER"}
    BY Zenon DEF RaceAwards, Awarded
<1>3. ProgressAwards(p, r, all, newest) \subseteq
                 {"RISING_STAR", "HOT_STREAK", "FIFTY_RACES", "HUNDRED_RACES", "POINTS_MACHINE",
                  "TWO_HUNDRED_PTS", "VETERAN"}
    BY Zenon DEF ProgressAwards, Awarded
<1>4. FunAwards(p, r, all, newest) \subseteq
                 {"TORPEDO", "GLASS_CANNON", "REVERSE_GRID", "SUNDAY_DRIVER", "LAST_NOT_LEAST", "JINXED",
                  "PHOENIX", "GENTLEMAN", "FOUNDING_FATHER"}
    BY Zenon DEF FunAwards, Awarded
<1> QED BY <1>1, <1>2, <1>3, <1>4

\* When the checkers of the codes that others include or are included in return them.
LEMMA CheckersSay ==
    ASSUME NEW p, NEW r, NEW all, NEW leader, NEW newest
    PROVE  LET me == Row(r, p)
               season == InSeason(Mine(p, all), r)
               original == OriginalAwards(p, r, all, leader, newest)
               race == RaceAwards(p, r, all, newest)
               progress == ProgressAwards(p, r, all, newest)
           IN  /\ "FIRST_BLOOD" \in original <=>
                      me.pos = 1 /\ \A q \in Mine(p, all) \ {r} : Row(q, p).pos # 1
               /\ "ROCKET_START" \in original <=> me.grid # 0 /\ me.pos # 0 /\ me.grid - me.pos >= 3
               /\ "COMEBACK_KID" \in original <=> Podium(me) /\ me.grid >= 10
               /\ "DOMINATOR" \in original <=>
                      me.pos = 1 /\ Streak(season, 3, all, newest, {q \in season : Row(q, p).pos = 1})
               /\ "WEEKEND_WARRIOR" \in original <=> Cardinality(OnDay(Mine(p, all), r)) >= 3
               /\ "CENTURION" \in original <=> SeasonPoints(p, r, all) >= 100
               /\ "UNDERDOG" \in race <=> me.pos = 1 /\ me.grid >= 15
               /\ "LATE_BRAKER" \in race <=> Podium(me) /\ me.grid > 3
               /\ "DOUBLE_POINTS" \in race <=>
                      Podium(me) /\ Cardinality({q \in OnDay(Mine(p, all), r) : Row(q, p).pos =< 3}) >= 2
               /\ "HOT_STREAK" \in progress <=>
                      me.pos = 1 /\ Cardinality({q \in OnDay(Mine(p, all), r) : Row(q, p).pos = 1}) >= 3
               /\ "FIFTY_RACES" \in progress <=> Cardinality(Mine(p, all)) >= 50
               /\ "HUNDRED_RACES" \in progress <=> Cardinality(Mine(p, all)) >= 100
               /\ "TWO_HUNDRED_PTS" \in progress <=> SeasonPoints(p, r, all) >= 200
<1> DEFINE me == Row(r, p)
           season == InSeason(Mine(p, all), r)
<1>1. "FIRST_BLOOD" \in OriginalAwards(p, r, all, leader, newest) <=>
          me.pos = 1 /\ \A q \in Mine(p, all) \ {r} : Row(q, p).pos # 1
    BY Zenon DEF OriginalAwards, Awarded
<1>2. "ROCKET_START" \in OriginalAwards(p, r, all, leader, newest) <=>
          me.grid # 0 /\ me.pos # 0 /\ me.grid - me.pos >= 3
    BY Zenon DEF OriginalAwards, Awarded
<1>3. "COMEBACK_KID" \in OriginalAwards(p, r, all, leader, newest) <=> Podium(me) /\ me.grid >= 10
    BY Zenon DEF OriginalAwards, Awarded
<1>4. "DOMINATOR" \in OriginalAwards(p, r, all, leader, newest) <=>
          me.pos = 1 /\ Streak(season, 3, all, newest, {q \in season : Row(q, p).pos = 1})
    BY Zenon DEF OriginalAwards, Awarded
<1>5. "WEEKEND_WARRIOR" \in OriginalAwards(p, r, all, leader, newest) <=>
          Cardinality(OnDay(Mine(p, all), r)) >= 3
    BY Zenon DEF OriginalAwards, Awarded
<1>6. "CENTURION" \in OriginalAwards(p, r, all, leader, newest) <=> SeasonPoints(p, r, all) >= 100
    BY Zenon DEF OriginalAwards, Awarded
<1>7. "UNDERDOG" \in RaceAwards(p, r, all, newest) <=> me.pos = 1 /\ me.grid >= 15
    BY Zenon DEF RaceAwards, Awarded
<1>8. "LATE_BRAKER" \in RaceAwards(p, r, all, newest) <=> Podium(me) /\ me.grid > 3
    BY Zenon DEF RaceAwards, Awarded
<1>9. "DOUBLE_POINTS" \in RaceAwards(p, r, all, newest) <=>
          Podium(me) /\ Cardinality({q \in OnDay(Mine(p, all), r) : Row(q, p).pos =< 3}) >= 2
    BY Zenon DEF RaceAwards, Awarded
<1>10. "HOT_STREAK" \in ProgressAwards(p, r, all, newest) <=>
          me.pos = 1 /\ Cardinality({q \in OnDay(Mine(p, all), r) : Row(q, p).pos = 1}) >= 3
    BY Zenon DEF ProgressAwards, Awarded
<1>11. "FIFTY_RACES" \in ProgressAwards(p, r, all, newest) <=> Cardinality(Mine(p, all)) >= 50
    BY Zenon DEF ProgressAwards, Awarded
<1>12. "HUNDRED_RACES" \in ProgressAwards(p, r, all, newest) <=> Cardinality(Mine(p, all)) >= 100
    BY Zenon DEF ProgressAwards, Awarded
<1>13. "TWO_HUNDRED_PTS" \in ProgressAwards(p, r, all, newest) <=> SeasonPoints(p, r, all) >= 200
    BY Zenon DEF ProgressAwards, Awarded
<1> QED BY <1>1, <1>2, <1>3, <1>4, <1>5, <1>6, <1>7, <1>8, <1>9, <1>10, <1>11, <1>12, <1>13, Zenon

\* The races of the queries are the career and the races committed since.
LEMMA AllRaces ==
    ASSUME AwardsTypeOK
    PROVE  /\ career \o raced \in Seq(RaceIds)
           /\ Range(raced) \subseteq NewRaces /\ IsFiniteSet(Range(raced))
           /\ Range(career) \subseteq RaceIds \ NewRaces
           /\ Range(career \o raced) = Range(career) \cup Range(raced)
<1>1. career \in Seq(RaceIds \ NewRaces) /\ raced \in Seq(NewRaces) /\ NewRaces \subseteq RaceIds
    BY AwardsAssumption DEF AwardsTypeOK
<1>2. career \in Seq(RaceIds) /\ raced \in Seq(RaceIds)
    BY <1>1
<1>3. career \o raced \in Seq(RaceIds)
    BY <1>2
<1>4. Range(raced) \subseteq NewRaces /\ IsFiniteSet(Range(raced)) /\ Range(career) \subseteq RaceIds \ NewRaces
    BY <1>1, RacesFinite
<1>5. Range(career \o raced) = Range(career) \cup Range(raced)
    <2>1. Len(career) \in Nat /\ Len(raced) \in Nat /\ DOMAIN career = 1..Len(career) /\ DOMAIN raced = 1..Len(raced)
        BY <1>2
    <2>2. /\ Len(career \o raced) = Len(career) + Len(raced) /\ DOMAIN (career \o raced) = 1..Len(career \o raced)
          /\ \A i \in 1..Len(career) : (career \o raced)[i] = career[i]
          /\ \A i \in 1..Len(raced) : (career \o raced)[Len(career) + i] = raced[i]
        BY <1>2, <2>1
    <2>3. ASSUME NEW q \in Range(career \o raced) PROVE q \in Range(career) \cup Range(raced)
        <3>1. PICK i \in 1..(Len(career) + Len(raced)) : (career \o raced)[i] = q
            BY <2>2, <2>3 DEF Range
        <3>2. CASE i \in 1..Len(career)
            BY <2>1, <2>2, <3>1, <3>2 DEF Range
        <3>3. CASE i \notin 1..Len(career)
            <4>1. i - Len(career) \in 1..Len(raced) /\ Len(career) + (i - Len(career)) = i
                BY <2>1, <3>1, <3>3
            <4>2. raced[i - Len(career)] = q
                BY <2>2, <3>1, <4>1
            <4> QED BY <2>1, <4>1, <4>2 DEF Range
        <3> QED BY <3>2, <3>3
    <2>4. ASSUME NEW q \in Range(career) PROVE q \in Range(career \o raced)
        <3>1. PICK i \in 1..Len(career) : career[i] = q
            BY <2>1, <2>4 DEF Range
        <3>2. i \in DOMAIN (career \o raced) /\ (career \o raced)[i] = q
            BY <2>1, <2>2, <3>1
        <3> QED BY <3>2 DEF Range
    <2>5. ASSUME NEW q \in Range(raced) PROVE q \in Range(career \o raced)
        <3>1. PICK i \in 1..Len(raced) : raced[i] = q
            BY <2>1, <2>5 DEF Range
        <3>2. Len(career) + i \in DOMAIN (career \o raced) /\ (career \o raced)[Len(career) + i] = q
            BY <2>1, <2>2, <3>1
        <3> QED BY <3>2 DEF Range
    <2> QED BY <2>3, <2>4, <2>5
<1> QED BY <1>3, <1>4, <1>5

\* The arithmetic of the rules that others include, for one row of a race.
LEMMA RowsInclude ==
    ASSUME NEW row, row.pos \in Nat, row.grid \in Nat
    PROVE  /\ row.pos = 1 /\ row.grid >= 15 =>
                 /\ row.grid # 0 /\ row.pos # 0 /\ row.grid - row.pos >= 3
                 /\ Podium(row) /\ row.grid >= 10 /\ row.grid > 3
           /\ row.pos = 1 => Podium(row)
<1> DEFINE pos == row.pos
           grid == row.grid
<1>1. pos \in Nat /\ grid \in Nat /\ (Podium(row) <=> pos \in 1..3)
    BY DEF Podium
<1> HIDE DEF pos, grid
<1>2. /\ pos = 1 /\ grid >= 15 => grid # 0 /\ pos # 0 /\ grid - pos >= 3 /\ Podium(row) /\ grid >= 10 /\ grid > 3
      /\ pos = 1 => Podium(row)
    BY <1>1
<1> QED BY <1>2 DEF pos, grid

\* The races of a player, with their rows, and the groups among them.
LEMMA GroupsAre ==
    ASSUME AwardsTypeOK, NEW p, NEW r
    PROVE  LET mine == Mine(p, career \o raced)
           IN  /\ IsFiniteSet(mine) /\ mine \subseteq RaceIds
               /\ \A q \in mine : p \in Entered(q) /\ Row(q, p).pos \in Nat /\ Row(q, p).grid \in Nat
                                  /\ Row(q, p).points \in Nat
               /\ Group("HOT_STREAK", p, r) = {q \in OnDay(mine, r) : Row(q, p).pos = 1}
               /\ Group("TWO_HUNDRED_PTS", p, r) = InSeason(mine, r)
               /\ Group("HUNDRED_RACES", p, r) = mine
<1> DEFINE mine == Mine(p, career \o raced)
<1>1. mine = {q \in Range(career) \cup Range(raced) : p \in Entered(q)}
    BY AllRaces DEF Mine
<1>2. IsFiniteSet(mine) /\ mine \subseteq RaceIds
    <2>1. IsFiniteSet(Range(career \o raced)) /\ Range(career \o raced) \subseteq RaceIds
        BY AllRaces, RacesFinite
    <2> QED BY <2>1, PartOf DEF Mine
<1>3. \A q \in mine : p \in Entered(q) /\ Row(q, p).pos \in Nat /\ Row(q, p).grid \in Nat
                      /\ Row(q, p).points \in Nat
    BY <1>1, <1>2, AwardsAssumption
<1> HIDE DEF mine
<1>4. Group("HOT_STREAK", p, r) = {q \in OnDay(mine, r) : Row(q, p).pos = 1}
    BY <1>1 DEF Group, Joins, OnDay
<1>5. Group("TWO_HUNDRED_PTS", p, r) = InSeason(mine, r)
    BY <1>1 DEF Group, Joins, InSeason
<1>6. Group("HUNDRED_RACES", p, r) = mine
    BY <1>1 DEF Group, Joins
<1> QED BY <1>2, <1>3, <1>4, <1>5, <1>6 DEF mine

\* A code that includes others is returned only when it is deserved.
LEMMA ReturnedIsDeserved ==
    ASSUME AwardsTypeOK, NEW r \in NewRaces, NEW p \in Field(r), NEW leader, NEW newest,
           NEW e \in Includes, e[1] \in Earned(p, r, leader, newest)
    PROVE  Deserves(e[1], p, r)
<1> DEFINE all == career \o raced
           me == Row(r, p)
           mine == Mine(p, all)
           race == RaceAwards(p, r, all, newest)
           progress == ProgressAwards(p, r, all, newest)
<1>1. /\ Group("HOT_STREAK", p, r) = {q \in OnDay(mine, r) : Row(q, p).pos = 1}
      /\ Group("TWO_HUNDRED_PTS", p, r) = InSeason(mine, r)
      /\ Group("HUNDRED_RACES", p, r) = mine
    BY GroupsAre
<1>2. /\ e[1] = "UNDERDOG" => "UNDERDOG" \in race
      /\ e[1] # "UNDERDOG" => e[1] \in progress
      /\ e[1] \in {"UNDERDOG", "HOT_STREAK", "TWO_HUNDRED_PTS", "HUNDRED_RACES"}
    <2>1. e[1] \in {"UNDERDOG", "HOT_STREAK", "TWO_HUNDRED_PTS", "HUNDRED_RACES"}
        BY DEF Includes
    <2> QED BY <2>1, FamiliesOfCodes DEF Earned
<1>3. /\ "UNDERDOG" \in race <=> me.pos = 1 /\ me.grid >= 15
      /\ "HOT_STREAK" \in progress <=>
             me.pos = 1 /\ Cardinality({q \in OnDay(mine, r) : Row(q, p).pos = 1}) >= 3
      /\ "HUNDRED_RACES" \in progress <=> Cardinality(mine) >= 100
      /\ "TWO_HUNDRED_PTS" \in progress <=> SeasonPoints(p, r, all) >= 200
    BY CheckersSay, ZenonT(60)
<1>4. SeasonPoints(p, r, all) = PointsIn(p, InSeason(mine, r))
    BY DEF SeasonPoints, PointsIn
<1>5. p \in Entered(r)
    BY DEF Field
<1> HIDE DEF all, me, mine, race, progress
<1>6. CASE e[1] = "UNDERDOG"
    BY <1>2, <1>3, <1>5, <1>6 DEF Deserves, Joins, Enough, me
<1>7. CASE e[1] = "HOT_STREAK"
    BY <1>1, <1>2, <1>3, <1>5, <1>7 DEF Deserves, Joins, Enough, me
<1>8. CASE e[1] = "TWO_HUNDRED_PTS"
    BY <1>1, <1>2, <1>3, <1>4, <1>5, <1>8 DEF Deserves, Joins, Enough
<1>9. CASE e[1] = "HUNDRED_RACES"
    BY <1>1, <1>2, <1>3, <1>5, <1>9 DEF Deserves, Joins, Enough
<1> QED BY <1>2, <1>6, <1>7, <1>8, <1>9

\* When a code is deserved, the checkers of those it includes return them.
LEMMA DeservedIsReturned ==
    ASSUME AwardsTypeOK, NEW r \in NewRaces, NEW p, NEW leader, NEW newest,
           NEW e \in Includes, Deserves(e[1], p, r), r \in Range(raced)
    PROVE  e[2] \in Earned(p, r, leader, newest)
<1> DEFINE all == career \o raced
           me == Row(r, p)
           mine == Mine(p, all)
           day == OnDay(mine, r)
           original == OriginalAwards(p, r, all, leader, newest)
           race == RaceAwards(p, r, all, newest)
           progress == ProgressAwards(p, r, all, newest)
<1>1. original \cup race \cup progress \subseteq Earned(p, r, leader, newest)
    BY DEF Earned
<1>2. /\ IsFiniteSet(mine) /\ mine \subseteq RaceIds
      /\ \A q \in mine : Row(q, p).pos \in Nat /\ Row(q, p).grid \in Nat /\ Row(q, p).points \in Nat
      /\ Group("HOT_STREAK", p, r) = {q \in day : Row(q, p).pos = 1}
      /\ Group("TWO_HUNDRED_PTS", p, r) = InSeason(mine, r)
      /\ Group("HUNDRED_RACES", p, r) = mine
    BY GroupsAre
<1>3. /\ "ROCKET_START" \in original <=> me.grid # 0 /\ me.pos # 0 /\ me.grid - me.pos >= 3
      /\ "COMEBACK_KID" \in original <=> Podium(me) /\ me.grid >= 10
      /\ "WEEKEND_WARRIOR" \in original <=> Cardinality(day) >= 3
      /\ "CENTURION" \in original <=> SeasonPoints(p, r, all) >= 100
      /\ "LATE_BRAKER" \in race <=> Podium(me) /\ me.grid > 3
      /\ "DOUBLE_POINTS" \in race <=> Podium(me) /\ Cardinality({q \in day : Row(q, p).pos =< 3}) >= 2
      /\ "FIFTY_RACES" \in progress <=> Cardinality(mine) >= 50
    BY CheckersSay, ZenonT(60)
<1>4. SeasonPoints(p, r, all) = PointsIn(p, InSeason(mine, r))
    BY DEF SeasonPoints, PointsIn
<1>5. p \in Entered(r) /\ r \in mine /\ Enough(e[1], p, r, Group(e[1], p, r)) /\ Joins(e[1], p, r, r)
    BY AllRaces DEF Deserves, Joins, Mine
<1>6. /\ me.pos = 1 /\ me.grid >= 15 =>
             /\ me.grid # 0 /\ me.pos # 0 /\ me.grid - me.pos >= 3
             /\ Podium(me) /\ me.grid >= 10 /\ me.grid > 3
      /\ me.pos = 1 => Podium(me)
    <2>1. me.pos \in Nat /\ me.grid \in Nat
        BY <1>2, <1>5
    <2> QED BY <2>1, RowsInclude, Zenon
<1>7. IsFiniteSet(day) /\ day \subseteq mine
    BY <1>2, PartOf DEF OnDay
<1>8. \/ e[1] = "UNDERDOG" /\ e[2] \in {"COMEBACK_KID", "LATE_BRAKER", "ROCKET_START"}
      \/ e[1] = "HOT_STREAK" /\ e[2] \in {"DOUBLE_POINTS", "WEEKEND_WARRIOR"}
      \/ e[1] = "TWO_HUNDRED_PTS" /\ e[2] = "CENTURION"
      \/ e[1] = "HUNDRED_RACES" /\ e[2] = "FIFTY_RACES"
    BY DEF Includes
<1>9. Row(r, p) = me
    OBVIOUS
<1> HIDE DEF all, me, mine, day, original, race, progress
<1>10. CASE e[1] = "UNDERDOG" /\ e[2] \in {"COMEBACK_KID", "LATE_BRAKER", "ROCKET_START"}
    <2>1. me.pos = 1 /\ me.grid >= 15
        BY <1>5, <1>9, <1>10 DEF Enough
    <2> QED BY <1>1, <1>3, <1>6, <1>10, <2>1
<1>11. CASE e[1] = "HOT_STREAK" /\ e[2] \in {"DOUBLE_POINTS", "WEEKEND_WARRIOR"}
    <2> DEFINE wins == {q \in day : Row(q, p).pos = 1}
               tops == {q \in day : Row(q, p).pos =< 3}
    <2>1. me.pos = 1 /\ Cardinality(wins) >= 3
        BY <1>2, <1>5, <1>9, <1>11 DEF Enough, Joins
    <2>2. wins \subseteq tops /\ tops \subseteq day
        BY <1>2, <1>7
    <2>3. "DOUBLE_POINTS" \in race <=> Podium(me) /\ Cardinality(tops) >= 2
        BY <1>3
    <2> HIDE DEF wins, tops
    <2>4. IsFiniteSet(tops)
        BY <1>7, <2>2, PartOf
    <2>5. /\ Cardinality(wins) \in Nat /\ Cardinality(tops) \in Nat /\ Cardinality(day) \in Nat
          /\ Cardinality(wins) =< Cardinality(tops) /\ Cardinality(tops) =< Cardinality(day)
        BY <1>7, <2>2, <2>4, PartOf
    <2>6. Cardinality(tops) >= 2 /\ Cardinality(day) >= 3
        BY <2>1, <2>5
    <2> QED BY <1>1, <1>3, <1>6, <1>11, <2>1, <2>3, <2>6
<1>12. CASE e[1] = "TWO_HUNDRED_PTS" /\ e[2] = "CENTURION"
    <2> DEFINE season == InSeason(mine, r)
               f == [q \in season |-> Row(q, p).points]
    <2>1. PointsIn(p, season) = SumFunctionOnSet(f, season) /\ PointsIn(p, season) >= 200
        BY <1>2, <1>5, <1>12 DEF Enough, PointsIn
    <2>2. IsFiniteSet(season) /\ \A q \in season : f[q] \in Int
        BY <1>2, PartOf DEF InSeason
    <2> HIDE DEF f
    <2>3. SumFunctionOnSet(f, season) \in Int
        BY <2>2, SumType
    <2>4. SeasonPoints(p, r, all) >= 100
        BY <1>4, <2>1, <2>3
    <2> QED BY <1>1, <1>3, <1>12, <2>4
<1>13. CASE e[1] = "HUNDRED_RACES" /\ e[2] = "FIFTY_RACES"
    <2>1. Cardinality(mine) \in Nat /\ Cardinality(mine) >= 100
        BY <1>2, <1>5, <1>13, PartOf DEF Enough
    <2>2. Cardinality(mine) >= 50
        BY <2>1
    <2> QED BY <1>1, <1>3, <1>13, <2>2
<1> QED BY <1>8, <1>10, <1>11, <1>12, <1>13

\* One race more is not too little.
LEMMA MoreIsEnough ==
    ASSUME NEW c, NEW p, NEW r, NEW S, IsFiniteSet(S), NEW y, \A q \in S \cup {y} : Row(q, p).points \in Nat,
           Enough(c, p, r, S)
    PROVE  Enough(c, p, r, S \cup {y})
<1> DEFINE T == S \cup {y}
           f == [q \in T |-> Row(q, p).points]
           g == [q \in S |-> Row(q, p).points]
<1>1. CASE y \in S
    <2>1. S \cup {y} = S
        BY <1>1
    <2> QED BY <2>1
<1>2. CASE y \notin S
    <2>1. IsFiniteSet(T) /\ S \subseteq T
        BY FS_AddElement
    <2>2. Cardinality(S) \in Nat /\ Cardinality(T) \in Nat /\ Cardinality(S) =< Cardinality(T)
        BY <2>1, PartOf
    <2>3. /\ \A q \in T : f[q] \in Int /\ f[q] \in Nat
          /\ \A q \in S : g[q] \in Int /\ f[q] = g[q] /\ f[q] \in Int
        OBVIOUS
    <2>4. T \in SUBSET T /\ S \in SUBSET S /\ y \in T /\ T \ {y} = S
        BY <1>2
    <2>5. PointsIn(p, T) = SumFunctionOnSet(f, T) /\ PointsIn(p, S) = SumFunctionOnSet(g, S)
        BY DEF PointsIn
    <2> HIDE DEF T, f, g
    <2>6. SumFunctionOnSet(f, T) = f[y] + SumFunctionOnSet(f, S)
        BY <2>1, <2>3, <2>4, SumRemove
    <2>7. SumFunctionOnSet(f, S) = SumFunctionOnSet(g, S)
        BY <2>3, SumSame
    <2>8. SumFunctionOnSet(g, S) \in Int
        BY <2>3, <2>4, SumType
    <2>9. PointsIn(p, S) >= 200 => PointsIn(p, T) >= 200
        BY <2>3, <2>4, <2>5, <2>6, <2>7, <2>8
    <2>10. Enough(c, p, r, T)
        BY <2>2, <2>9 DEF Enough
    <2> QED BY <2>10 DEF T
<1> QED BY <1>1, <1>2

-----------------------------------------------------------------------------
(* Achievements: what the steps do.                                        *)

\* SubmitRace, at the places the invariant looks at.
LEMMA SubmitSays ==
    ASSUME AwardsTypeOK, NEW r \in NewRaces, SubmitRace(r)
    PROVE  /\ jobStep[r] = "new" /\ jobStep'[r] = "check"
           /\ \A q \in NewRaces \ {r} : jobStep'[q] = jobStep[q]
           /\ Range(raced') = Range(raced) \cup {r} /\ raced' \in Seq(NewRaces)
           /\ UNCHANGED <<career, ran, returned, pending, unlocked, rushed, rebooted>>
<1>1. Range(raced') = Range(raced) \cup {r} /\ raced' \in Seq(NewRaces)
    <2>1. raced \in Seq(NewRaces) /\ raced' = Append(raced, r)
        BY DEF AwardsTypeOK, SubmitRace
    <2>2. /\ Len(raced) \in Nat /\ DOMAIN raced = 1..Len(raced) /\ DOMAIN raced' = 1..(Len(raced) + 1)
          /\ raced'[Len(raced) + 1] = r /\ \A i \in 1..Len(raced) : raced'[i] = raced[i]
        BY <2>1
    <2>3. \A i \in 1..(Len(raced) + 1) : i \in 1..Len(raced) \/ i = Len(raced) + 1
        BY <2>2
    <2>4. Range(raced') = Range(raced) \cup {r}
        BY <2>2, <2>3 DEF Range
    <2> QED BY <2>1, <2>4
<1>2. /\ jobStep[r] = "new" /\ jobStep'[r] = "check"
      /\ \A q \in NewRaces \ {r} : jobStep'[q] = jobStep[q]
      /\ UNCHANGED <<career, ran, returned, pending, unlocked, rushed, rebooted>>
    BY DEF AwardsTypeOK, SubmitRace
<1> QED BY <1>1, <1>2

\* CheckPlayer, as its parts: what the checkers earn, those run, what is left to look up.
CheckParts(r, p, earned, upto, late) ==
    LET slice == {Checkers[i] : i \in (ran[r][p] + 1)..upto}
        later == IF late THEN earned \cap slice \cap {Checkers[upto]} ELSE {}
    IN  /\ upto \in 1..NumCheckers /\ ran[r][p] < upto /\ (late => upto < NumCheckers)
        /\ \E leader, newest : newest \in BOOLEAN /\ earned = Earned(p, r, leader, newest)
        /\ ran' = [ran EXCEPT ![r][p] = upto]
        /\ returned' = [returned EXCEPT ![r][p] = later]
        /\ pending' = [pending EXCEPT ![r] = @ \cup {<<p, code>> :
                          code \in {c \in returned[r][p] \cup ((earned \cap slice) \ later) : ~Has(p, c)}}]
LEMMA CheckHasParts ==
    ASSUME NEW r \in NewRaces, NEW p \in Players, CheckPlayer(r, p)
    PROVE  /\ jobStep[r] = "check" /\ p \in Field(r)
           /\ \E earned, upto, late : CheckParts(r, p, earned, upto, late)
           /\ \A d : d \notin rushed' => d \notin rushed /\ (d = p => ~Waiting(p, r))
           /\ UNCHANGED <<career, raced, jobStep, unlocked, rebooted>>
<1>1. PICK earned \in MayEarn(p, r), upto \in Breaks \cup {NumCheckers}, late \in BOOLEAN :
         LET found == earned \cap {Checkers[i] : i \in (ran[r][p] + 1)..upto}
             later == IF late THEN found \cap {Checkers[upto]} ELSE {}
         IN  /\ ran[r][p] < upto /\ (late => upto < NumCheckers)
             /\ ran' = [ran EXCEPT ![r][p] = upto]
             /\ returned' = [returned EXCEPT ![r][p] = later]
             /\ pending' = [pending EXCEPT ![r] = @ \cup {<<p, code>> :
                               code \in {c \in returned[r][p] \cup (found \ later) : ~Has(p, c)}}]
    BY Zenon DEF CheckPlayer
<1>2. upto \in 1..NumCheckers
    BY BreaksAssumption, CheckersKnown
<1>3. \E leader, newest : newest \in BOOLEAN /\ earned = Earned(p, r, leader, newest)
    BY DEF MayEarn
<1>4. CheckParts(r, p, earned, upto, late)
    BY <1>1, <1>2, <1>3, Zenon DEF CheckParts
<1>5. \A d : d \notin rushed' => d \notin rushed /\ (d = p => ~Waiting(p, r))
    BY DEF CheckPlayer
<1>6. jobStep[r] = "check" /\ p \in Field(r) /\ UNCHANGED <<career, raced, jobStep, unlocked, rebooted>>
    BY DEF CheckPlayer
<1> QED BY <1>4, <1>5, <1>6

\* CheckPlayer, at the places the invariant looks at.
LEMMA CheckSays ==
    ASSUME AwardsTypeOK, NEW r \in NewRaces, NEW p \in Players, CheckPlayer(r, p)
    PROVE  /\ jobStep[r] = "check" /\ p \in Field(r)
           /\ \E earned, slice : \E leader, newest :
                 /\ newest \in BOOLEAN /\ earned = Earned(p, r, leader, newest)
                 /\ \A q \in NewRaces, d \in Players : \A c :
                       Passed(q, d, c)' <=> Passed(q, d, c) \/ (q = r /\ d = p /\ c \in slice)
                 /\ \A q \in NewRaces, d \in Players : \A c :
                       Given(d, c, q)' => Given(d, c, q) \/ (q = r /\ d = p /\ c \in earned)
                 /\ \A c \in earned \cap slice : Has(p, c) \/ Given(p, c, r)'
           /\ \A d \in Players, q \in NewRaces : \A c : Given(d, c, q) => Has(d, c) \/ Given(d, c, q)'
           /\ \A q \in NewRaces : \A d, c : <<d, c>> \in pending'[q] =>
                 <<d, c>> \in pending[q] \/ (q = r /\ d = p /\ ~Has(p, c))
           /\ \A q \in NewRaces, d \in Players : q # r \/ d # p =>
                 ran'[q][d] = ran[q][d] /\ returned'[q][d] = returned[q][d]
           /\ returned'[r][p] # {} => ran'[r][p] # NumCheckers
           /\ \A d : d \notin rushed' => d \notin rushed /\ (d = p => ~Waiting(p, r))
           /\ UNCHANGED <<career, raced, jobStep, unlocked, rebooted>>
<1>1. /\ jobStep[r] = "check" /\ p \in Field(r)
      /\ \A d : d \notin rushed' => d \notin rushed /\ (d = p => ~Waiting(p, r))
      /\ UNCHANGED <<career, raced, jobStep, unlocked, rebooted>>
    BY CheckHasParts
<1>2. PICK earned, upto, late : CheckParts(r, p, earned, upto, late)
    BY CheckHasParts
<1> DEFINE slice == {Checkers[i] : i \in (ran[r][p] + 1)..upto}
           later == IF late THEN earned \cap slice \cap {Checkers[upto]} ELSE {}
           new == {<<p, code>> : code \in {c \in returned[r][p] \cup ((earned \cap slice) \ later) : ~Has(p, c)}}
<1>3. /\ upto \in 1..NumCheckers /\ ran[r][p] < upto /\ (late => upto < NumCheckers)
      /\ ran' = [ran EXCEPT ![r][p] = upto] /\ returned' = [returned EXCEPT ![r][p] = later]
      /\ pending' = [pending EXCEPT ![r] = @ \cup new]
    BY <1>2, Zenon DEF CheckParts
<1>4. PICK leader, newest : newest \in BOOLEAN /\ earned = Earned(p, r, leader, newest)
    BY <1>2, Zenon DEF CheckParts
<1>5. \A d, c : <<d, c>> \in new <=>
          d = p /\ ~Has(p, c) /\ (c \in returned[r][p] \/ (c \in earned \cap slice /\ c \notin later))
    OBVIOUS
<1>6. later \subseteq earned \cap slice /\ (later # {} => upto # NumCheckers)
    BY <1>3, CheckersKnown
<1>7. \A c : c \in slice <=> \E i \in (ran[r][p] + 1)..upto : Checkers[i] = c
    OBVIOUS
<1> HIDE DEF slice, later, new
<1>8. /\ \A q \in NewRaces, d \in Players :
            /\ ran'[q][d] = IF q = r /\ d = p THEN upto ELSE ran[q][d]
            /\ returned'[q][d] = IF q = r /\ d = p THEN later ELSE returned[q][d]
      /\ \A q \in NewRaces : pending'[q] = IF q = r THEN pending[q] \cup new ELSE pending[q]
    BY <1>3 DEF AwardsTypeOK
<1>9. \A q \in NewRaces, d \in Players : \A c :
          Passed(q, d, c)' <=> Passed(q, d, c) \/ (q = r /\ d = p /\ c \in slice)
    <2>1. ran[r][p] \in Nat /\ upto \in Nat /\ ran[r][p] < upto
        BY <1>3, CheckersKnown DEF AwardsTypeOK
    <2>2. \A i : i \in 1..upto <=> i \in 1..ran[r][p] \/ i \in (ran[r][p] + 1)..upto
        BY <2>1
    <2>3. ASSUME NEW c PROVE Passed(r, p, c)' <=> Passed(r, p, c) \/ c \in slice
        BY <1>7, <1>8, <2>2 DEF Passed
    <2>4. ASSUME NEW q \in NewRaces, NEW d \in Players, NEW c, q # r \/ d # p
          PROVE  Passed(q, d, c)' <=> Passed(q, d, c)
        BY <1>8, <2>4 DEF Passed
    <2> QED BY <2>3, <2>4
<1>10. ASSUME NEW q \in NewRaces, NEW d \in Players, NEW c, Given(d, c, q)'
       PROVE  Given(d, c, q) \/ (q = r /\ d = p /\ c \in earned)
    BY <1>1, <1>5, <1>6, <1>8, <1>10 DEF Given
<1>11. ASSUME NEW c \in earned \cap slice PROVE Has(p, c) \/ Given(p, c, r)'
    BY <1>5, <1>8 DEF Given
<1>12. ASSUME NEW d \in Players, NEW c, NEW q \in NewRaces, Given(d, c, q) PROVE Has(d, c) \/ Given(d, c, q)'
    BY <1>5, <1>8, <1>12 DEF Given, Has
<1>13. ASSUME NEW q \in NewRaces, NEW d, NEW c, <<d, c>> \in pending'[q]
       PROVE  <<d, c>> \in pending[q] \/ (q = r /\ d = p /\ ~Has(p, c))
    BY <1>5, <1>8, <1>13
<1>14. /\ \A q \in NewRaces, d \in Players : q # r \/ d # p =>
              ran'[q][d] = ran[q][d] /\ returned'[q][d] = returned[q][d]
       /\ returned'[r][p] # {} => ran'[r][p] # NumCheckers
    BY <1>6, <1>8
<1> QED BY <1>1, <1>4, <1>9, <1>10, <1>11, <1>12, <1>13, <1>14

\* SaveUnlocks, at the places the invariant looks at.
LEMMA SaveSays ==
    ASSUME AwardsTypeOK, NEW r \in NewRaces, SaveUnlocks(r)
    PROVE  /\ jobStep[r] = "check" /\ jobStep'[r] = "done" /\ pending'[r] = {}
           /\ \A p \in Field(r) : ran[r][p] = NumCheckers
           /\ \A q \in NewRaces \ {r} : jobStep'[q] = jobStep[q] /\ pending'[q] = pending[q]
           /\ \A d, c, q : <<d, c, q>> \in unlocked' <=>
                               <<d, c, q>> \in unlocked \/ (q = r /\ <<d, c>> \in pending[r])
           /\ \A d, c : Has(d, c)' <=> Has(d, c) \/ <<d, c>> \in pending[r]
           /\ \A q \in NewRaces : \A d, c : Given(d, c, q)' <=> Given(d, c, q)
           /\ UNCHANGED <<career, raced, ran, returned, rushed, rebooted>>
<1>1. /\ jobStep[r] = "check" /\ jobStep'[r] = "done" /\ pending'[r] = {}
      /\ \A p \in Field(r) : ran[r][p] = NumCheckers
      /\ \A q \in NewRaces \ {r} : jobStep'[q] = jobStep[q] /\ pending'[q] = pending[q]
      /\ UNCHANGED <<career, raced, ran, returned, rushed, rebooted>>
    BY DEF AwardsTypeOK, SaveUnlocks
<1>2. ASSUME NEW d, NEW c, NEW q
      PROVE  <<d, c, q>> \in unlocked' <=> <<d, c, q>> \in unlocked \/ (q = r /\ <<d, c>> \in pending[r])
    <2> DEFINE new == {<<x[1], x[2], r>> : x \in pending[r]}
    <2>1. \A x \in pending[r] : x = <<x[1], x[2]>>
        BY DEF AwardsTypeOK
    <2>2. <<d, c, q>> \in new <=> q = r /\ <<d, c>> \in pending[r]
        BY <2>1
    <2>3. unlocked' = unlocked \cup new
        BY DEF SaveUnlocks
    <2> HIDE DEF new
    <2> QED BY <2>2, <2>3
<1>3. \A d, c : Has(d, c)' <=> Has(d, c) \/ <<d, c>> \in pending[r]
    BY <1>2 DEF Has
<1>4. \A q \in NewRaces : \A d, c : Given(d, c, q)' <=> Given(d, c, q)
    BY <1>1, <1>2 DEF Given
<1> QED BY <1>1, <1>2, <1>3, <1>4

\* LoseJobs, at the places the invariant looks at.
LEMMA LoseSays ==
    ASSUME LoseJobs, AwardsTypeOK
    PROVE  /\ rebooted' # 0
           /\ \A q \in NewRaces : /\ pending'[q] = {} /\ jobStep'[q] # "check"
                                  /\ \A p \in Players : ran'[q][p] = 0 /\ returned'[q][p] = {}
                                  /\ jobStep'[q] = "new" <=> jobStep[q] = "new"
                                  /\ jobStep[q] = "done" => jobStep'[q] = "done"
           /\ UNCHANGED <<career, raced, unlocked, rushed>>
<1>1. rebooted' # 0
    BY DEF LoseJobs, AwardsTypeOK
<1> QED BY <1>1 DEF LoseJobs, AwardsTypeOK

\* Every step keeps the types.
LEMMA AwardsTypeStep == AwardsTypeOK /\ [AwardsNext]_awardVars => AwardsTypeOK'
<1> SUFFICES ASSUME AwardsTypeOK, [AwardsNext]_awardVars PROVE AwardsTypeOK'
    OBVIOUS
<1>1. ASSUME NEW r \in NewRaces, SubmitRace(r) PROVE AwardsTypeOK'
    <2>1. raced' \in Seq(NewRaces)
        BY <1>1, SubmitSays
    <2>2. jobStep' \in [NewRaces -> {"new", "check", "done"}]
        BY <1>1 DEF AwardsTypeOK, SubmitRace
    <2> QED BY <1>1, <2>1, <2>2 DEF AwardsTypeOK, SubmitRace
<1>2. ASSUME NEW r \in NewRaces, NEW p \in Players, CheckPlayer(r, p) PROVE AwardsTypeOK'
    <2>1. PICK earned, upto, late : CheckParts(r, p, earned, upto, late)
        BY <1>2, CheckHasParts
    <2> DEFINE slice == {Checkers[i] : i \in (ran[r][p] + 1)..upto}
               later == IF late THEN earned \cap slice \cap {Checkers[upto]} ELSE {}
               news == {c \in returned[r][p] \cup ((earned \cap slice) \ later) : ~Has(p, c)}
    <2>2. /\ upto \in 1..NumCheckers /\ ran' = [ran EXCEPT ![r][p] = upto]
          /\ returned' = [returned EXCEPT ![r][p] = later]
          /\ pending' = [pending EXCEPT ![r] = @ \cup {<<p, code>> : code \in news}]
        BY <2>1, Zenon DEF CheckParts
    <2>3. slice \subseteq AwardCodes
        <3>1. ran[r][p] \in Nat
            BY DEF AwardsTypeOK
        <3>2. \A i \in (ran[r][p] + 1)..upto : i \in DOMAIN Checkers
            BY <2>2, <3>1, CheckersKnown
        <3> QED BY <3>2 DEF AwardCodes, Range
    <2>4. later \subseteq AwardCodes /\ news \subseteq AwardCodes
        BY <2>3 DEF AwardsTypeOK
    <2> HIDE DEF slice, later, news
    <2>5. ran' \in [NewRaces -> [Players -> 0..NumCheckers]]
        BY <2>2, CheckersKnown DEF AwardsTypeOK
    <2>6. returned' \in [NewRaces -> [Players -> SUBSET AwardCodes]]
        BY <2>2, <2>4 DEF AwardsTypeOK
    <2>7. pending' \in [NewRaces -> SUBSET (Players \X AwardCodes)]
        BY <2>2, <2>4 DEF AwardsTypeOK
    <2>8. rushed' \subseteq Players
        BY <1>2 DEF AwardsTypeOK, CheckPlayer
    <2> QED BY <1>2, <2>5, <2>6, <2>7, <2>8, CheckHasParts DEF AwardsTypeOK
<1>3. ASSUME NEW r \in NewRaces, SaveUnlocks(r) PROVE AwardsTypeOK'
    <2>1. {<<x[1], x[2], r>> : x \in pending[r]} \subseteq Players \X AwardCodes \X NewRaces
        BY DEF AwardsTypeOK
    <2>2. unlocked' \subseteq Players \X AwardCodes \X NewRaces
        BY <1>3, <2>1 DEF AwardsTypeOK, SaveUnlocks
    <2> QED BY <1>3, <2>2 DEF AwardsTypeOK, SaveUnlocks
<1>4. ASSUME LoseJobs PROVE AwardsTypeOK'
    <2>1. rebooted' \in 0..AwardRestarts
        BY <1>4, AwardsAssumption DEF AwardsTypeOK, LoseJobs
    <2>2. /\ jobStep' \in [NewRaces -> {"new", "check", "done"}]
          /\ ran' \in [NewRaces -> [Players -> 0..NumCheckers]]
        BY <1>4, CheckersKnown DEF AwardsTypeOK, LoseJobs
    <2> QED BY <1>4, <2>1, <2>2 DEF AwardsTypeOK, LoseJobs
<1>5. CASE UNCHANGED awardVars
    BY <1>5 DEF awardVars, AwardsTypeOK
<1> QED BY <1>1, <1>2, <1>3, <1>4, <1>5 DEF AwardsNext

\* Every step keeps jobs and rows in their order: submitted, checked, saved.
LEMMA JobsCleanStep == AwardsTypeOK /\ JobsClean /\ [AwardsNext]_awardVars => JobsClean'
<1> SUFFICES ASSUME AwardsTypeOK, JobsClean, [AwardsNext]_awardVars PROVE JobsClean'
    OBVIOUS
<1>1. ASSUME NEW r \in NewRaces, SubmitRace(r) PROVE JobsClean'
    <2>1. \A q \in NewRaces : jobStep'[q] = IF q = r THEN "check" ELSE jobStep[q]
        BY <1>1, SubmitSays
    <2>2. /\ jobStep[r] = "new" /\ Range(raced') = Range(raced) \cup {r}
          /\ UNCHANGED <<ran, returned, pending, unlocked, rebooted>>
        BY <1>1, SubmitSays
    <2> QED BY <2>1, <2>2 DEF JobsClean
<1>2. ASSUME NEW r \in NewRaces, NEW p \in Players, CheckPlayer(r, p) PROVE JobsClean'
    <2>1. /\ jobStep[r] = "check" /\ p \in Field(r)
          /\ \A q \in NewRaces : \A d, c : <<d, c>> \in pending'[q] =>
                 <<d, c>> \in pending[q] \/ (q = r /\ d = p)
          /\ \A q \in NewRaces, d \in Players : q # r \/ d # p =>
                 ran'[q][d] = ran[q][d] /\ returned'[q][d] = returned[q][d]
          /\ returned'[r][p] # {} => ran'[r][p] # NumCheckers
          /\ UNCHANGED <<raced, jobStep, unlocked, rebooted>>
        BY <1>2, CheckSays
    <2>2. \A q \in NewRaces : q # r => pending'[q] = pending[q]
        <3>1. PICK earned, upto, late : CheckParts(r, p, earned, upto, late)
            BY <1>2, CheckHasParts
        <3> QED BY <3>1 DEF CheckParts, AwardsTypeOK
    <2>3. ASSUME NEW q \in NewRaces
          PROVE  /\ q \in Range(raced') <=> jobStep'[q] # "new"
                 /\ jobStep'[q] # "check" => pending'[q] = {} /\ \A d \in Players : returned'[q][d] = {}
                 /\ jobStep'[q] = "new" => \A d \in Players : ran'[q][d] = 0
                 /\ rebooted' = 0 /\ jobStep'[q] = "done" => \A d \in Field(q) : ran'[q][d] = NumCheckers
        <3>1. \A d \in Field(q) : d \in Players
            BY DEF Field
        <3> QED BY <2>1, <2>2, <3>1 DEF JobsClean
    <2>4. ASSUME NEW q \in NewRaces, NEW d \in Players
          PROVE  /\ \A c \in AwardCodes : <<d, c>> \in pending'[q] => d \in Field(q)
                 /\ returned'[q][d] # {} => d \in Field(q) /\ ran'[q][d] # NumCheckers
        <3>1. CASE q = r /\ d = p
            BY <2>1, <3>1
        <3>2. CASE ~(q = r /\ d = p)
            BY <2>1, <3>2 DEF JobsClean
        <3> QED BY <3>1, <3>2
    <2> QED BY <2>1, <2>3, <2>4 DEF JobsClean
<1>3. ASSUME NEW r \in NewRaces, SaveUnlocks(r) PROVE JobsClean'
    <2>1. /\ jobStep[r] = "check" /\ \A p \in Field(r) : ran[r][p] = NumCheckers
          /\ \A q \in NewRaces : /\ jobStep'[q] = (IF q = r THEN "done" ELSE jobStep[q])
                                 /\ pending'[q] = (IF q = r THEN {} ELSE pending[q])
          /\ UNCHANGED <<raced, ran, returned, rebooted>>
        BY <1>3, SaveSays
    <2>2. \A p \in Players : returned[r][p] = {}
        BY <2>1 DEF JobsClean
    <2>3. ASSUME NEW q \in NewRaces, NEW p \in Players, NEW c \in AwardCodes, <<p, c, q>> \in unlocked'
          PROVE  jobStep'[q] = "done"
        <3>1. CASE q = r
            BY <2>1, <3>1
        <3>2. CASE q # r
            <4>1. unlocked' = unlocked \cup {<<y[1], y[2], r>> : y \in pending[r]}
                BY <1>3 DEF SaveUnlocks
            <4>2. <<p, c, q>> \in unlocked
                BY <2>3, <3>2, <4>1
            <4> QED BY <2>1, <3>2, <4>2 DEF JobsClean
        <3> QED BY <3>1, <3>2
    <2>4. \A q \in NewRaces :
              /\ q \in Range(raced') <=> jobStep'[q] # "new"
              /\ jobStep'[q] # "check" => pending'[q] = {} /\ \A p \in Players : returned'[q][p] = {}
              /\ jobStep'[q] = "new" => \A p \in Players : ran'[q][p] = 0
              /\ rebooted' = 0 /\ jobStep'[q] = "done" => \A p \in Field(q) : ran'[q][p] = NumCheckers
        BY <2>1, <2>2 DEF JobsClean
    <2>5. \A q \in NewRaces, p \in Players :
              /\ \A c \in AwardCodes : <<p, c>> \in pending'[q] => p \in Field(q)
              /\ returned'[q][p] # {} => p \in Field(q) /\ ran'[q][p] # NumCheckers
        BY <2>1 DEF JobsClean
    <2> QED BY <2>3, <2>4, <2>5 DEF JobsClean
<1>4. ASSUME LoseJobs PROVE JobsClean'
    BY <1>4, LoseSays DEF JobsClean
<1>5. CASE UNCHANGED awardVars
    BY <1>5 DEF awardVars, JobsClean
<1> QED BY <1>1, <1>2, <1>3, <1>4, <1>5 DEF AwardsNext

\* Only a check in a rush lets two rows of one code come about.
LEMMA OnceEachStep == AwardsTypeOK /\ JobsClean /\ OnceEach /\ [AwardsNext]_awardVars => OnceEach'
<1> SUFFICES ASSUME AwardsTypeOK, JobsClean, OnceEach, [AwardsNext]_awardVars PROVE OnceEach'
    OBVIOUS
<1>1. ASSUME NEW r \in NewRaces, SubmitRace(r) PROVE OnceEach'
    BY <1>1, SubmitSays DEF OnceEach, Has
<1>2. ASSUME NEW r \in NewRaces, NEW p \in Players, CheckPlayer(r, p) PROVE OnceEach'
    <2>1. /\ \A q \in NewRaces : \A d, c : <<d, c>> \in pending'[q] =>
                 <<d, c>> \in pending[q] \/ (q = r /\ d = p /\ ~Has(p, c))
          /\ \A d : d \notin rushed' => d \notin rushed /\ (d = p => ~Waiting(p, r))
          /\ unlocked' = unlocked
        BY <1>2, CheckSays
    <2>2. \A d, c : Has(d, c)' <=> Has(d, c)
        BY <2>1 DEF Has
    <2>3. ASSUME p \notin rushed', NEW q \in NewRaces, NEW c \in AwardCodes, <<p, c>> \in pending[q] PROVE q = r
        BY <2>1, <2>3 DEF JobsClean, Waiting
    <2>4. ASSUME NEW d \in Players, d \notin rushed'
          PROVE  /\ \A c \in AwardCodes, q, s \in NewRaces :
                       <<d, c, q>> \in unlocked' /\ <<d, c, s>> \in unlocked' => q = s
                 /\ \A c \in AwardCodes, q \in NewRaces : <<d, c>> \in pending'[q] => ~Has(d, c)'
                 /\ \A c, b \in AwardCodes, q, s \in NewRaces :
                       <<d, c>> \in pending'[q] /\ <<d, b>> \in pending'[s] => q = s
        <3>1. d \notin rushed
            BY <2>1, <2>4
        <3>2. \A c \in AwardCodes, q, s \in NewRaces :
                  <<d, c, q>> \in unlocked' /\ <<d, c, s>> \in unlocked' => q = s
            BY <2>1, <3>1 DEF OnceEach
        <3>3. \A c \in AwardCodes, q \in NewRaces : <<d, c>> \in pending'[q] => ~Has(d, c)'
            BY <2>1, <2>2, <3>1 DEF OnceEach
        <3>4. \A c, b \in AwardCodes, q, s \in NewRaces :
                  <<d, c>> \in pending'[q] /\ <<d, b>> \in pending'[s] => q = s
            <4>1. CASE d = p
                BY <2>1, <2>3, <2>4, <4>1
            <4>2. CASE d # p
                BY <2>1, <3>1, <4>2 DEF OnceEach
            <4> QED BY <4>1, <4>2
        <3> QED BY <3>2, <3>3, <3>4
    <2> QED BY <2>4 DEF OnceEach
<1>3. ASSUME NEW r \in NewRaces, SaveUnlocks(r) PROVE OnceEach'
    <2>1. /\ \A q \in NewRaces : pending'[q] = IF q = r THEN {} ELSE pending[q]
          /\ \A d, c, q : <<d, c, q>> \in unlocked' <=>
                              <<d, c, q>> \in unlocked \/ (q = r /\ <<d, c>> \in pending[r])
          /\ \A d, c : Has(d, c)' <=> Has(d, c) \/ <<d, c>> \in pending[r]
          /\ rushed' = rushed
        <3>1. pending'[r] = {} /\ \A q \in NewRaces \ {r} : pending'[q] = pending[q]
            BY <1>3, SaveSays
        <3> QED BY <1>3, <3>1, SaveSays
    <2>2. ASSUME NEW d \in Players, d \notin rushed'
          PROVE  /\ \A c \in AwardCodes, q, s \in NewRaces :
                       <<d, c, q>> \in unlocked' /\ <<d, c, s>> \in unlocked' => q = s
                 /\ \A c \in AwardCodes, q \in NewRaces : <<d, c>> \in pending'[q] => ~Has(d, c)'
                 /\ \A c, b \in AwardCodes, q, s \in NewRaces :
                       <<d, c>> \in pending'[q] /\ <<d, b>> \in pending'[s] => q = s
        <3>1. d \notin rushed
            BY <2>1, <2>2
        <3>2. /\ \A c \in AwardCodes, q, s \in NewRaces :
                    <<d, c, q>> \in unlocked /\ <<d, c, s>> \in unlocked => q = s
              /\ \A c \in AwardCodes, q \in NewRaces : <<d, c>> \in pending[q] => ~Has(d, c)
              /\ \A c, b \in AwardCodes, q, s \in NewRaces :
                    <<d, c>> \in pending[q] /\ <<d, b>> \in pending[s] => q = s
            BY <3>1 DEF OnceEach
        <3>3. \A c \in AwardCodes, q, s \in NewRaces :
                  <<d, c, q>> \in unlocked' /\ <<d, c, s>> \in unlocked' => q = s
            BY <2>1, <3>2 DEF Has
        <3>4. \A c \in AwardCodes, q \in NewRaces : <<d, c>> \in pending'[q] => ~Has(d, c)'
            BY <2>1, <3>2
        <3>5. \A c, b \in AwardCodes, q, s \in NewRaces :
                  <<d, c>> \in pending'[q] /\ <<d, b>> \in pending'[s] => q = s
            BY <2>1, <3>2
        <3> QED BY <3>3, <3>4, <3>5
    <2> QED BY <2>2 DEF OnceEach
<1>4. ASSUME LoseJobs PROVE OnceEach'
    BY <1>4, LoseSays DEF OnceEach, Has
<1>5. CASE UNCHANGED awardVars
    BY <1>5 DEF awardVars, OnceEach, Has
<1> QED BY <1>1, <1>2, <1>3, <1>4, <1>5 DEF AwardsNext

\* What a player has or is about to get, he does not lose while the backend runs.
LEMMA HoldsStays ==
    ASSUME AwardsTypeOK, [AwardsNext]_awardVars, rebooted' = 0, NEW d \in Players, NEW c, Holds(d, c)
    PROVE  Holds(d, c)'
<1>1. ASSUME NEW r \in NewRaces, SubmitRace(r) PROVE Holds(d, c)'
    BY <1>1, SubmitSays DEF Holds, Given
<1>2. ASSUME NEW r \in NewRaces, NEW p \in Players, CheckPlayer(r, p) PROVE Holds(d, c)'
    <2>1. UNCHANGED unlocked /\ \A q \in NewRaces : Given(d, c, q) => Has(d, c) \/ Given(d, c, q)'
        BY <1>2, CheckSays
    <2>2. Has(d, c) => Holds(d, c)'
        BY <2>1 DEF Has, Holds, Given
    <2> QED BY <2>1, <2>2 DEF Holds
<1>3. ASSUME NEW r \in NewRaces, SaveUnlocks(r) PROVE Holds(d, c)'
    BY <1>3, SaveSays DEF Holds
<1>4. ASSUME LoseJobs PROVE FALSE
    BY <1>4, LoseSays
<1>5. CASE UNCHANGED awardVars
    BY <1>5 DEF awardVars, Holds, Given
<1> QED BY <1>1, <1>2, <1>3, <1>4, <1>5 DEF AwardsNext

\* A step that passes a checker leaves the player with what it earns.
LEMMA CheckGives ==
    ASSUME AwardsTypeOK, NEW r \in NewRaces, NEW p \in Players, CheckPlayer(r, p), NEW c,
           ~Passed(r, p, c), Passed(r, p, c)',
           \A leader, newest : newest \in BOOLEAN => c \in Earned(p, r, leader, newest)
    PROVE  Holds(p, c)'
<1>1. PICK earned, slice : \E leader, newest :
          /\ newest \in BOOLEAN /\ earned = Earned(p, r, leader, newest)
          /\ \A q \in NewRaces, d \in Players : \A b :
                Passed(q, d, b)' <=> Passed(q, d, b) \/ (q = r /\ d = p /\ b \in slice)
          /\ \A b \in earned \cap slice : Has(p, b) \/ Given(p, b, r)'
    BY CheckSays
<1>2. c \in earned /\ c \in slice
    BY <1>1
<1>3. Has(p, c) \/ Given(p, c, r)'
    BY <1>1, <1>2
<1>4. Has(p, c) => Holds(p, c)'
    BY CheckSays DEF Has, Holds, Given
<1> QED BY <1>3, <1>4 DEF Holds

\* What a checker has to do with the player's progress, by action.
LEMMA ProgressStep ==
    ASSUME AwardsTypeOK, [AwardsNext]_awardVars, rebooted' = 0
    PROVE  /\ rebooted = 0 /\ UNCHANGED career
           /\ \/ UNCHANGED <<raced, ran>> /\ \A d : d \notin rushed' => d \notin rushed
              \/ \E r \in NewRaces : SubmitRace(r)
              \/ \E r \in NewRaces, p \in Players : CheckPlayer(r, p)
<1>1. ASSUME NEW r \in NewRaces, SaveUnlocks(r)
      PROVE  rebooted = 0 /\ UNCHANGED <<career, raced, ran, rushed>>
    BY <1>1 DEF SaveUnlocks
<1>2. ASSUME LoseJobs PROVE FALSE
    BY <1>2, LoseSays
<1>3. ASSUME NEW r \in NewRaces, SubmitRace(r) PROVE rebooted = 0 /\ UNCHANGED career
    BY <1>3 DEF SubmitRace
<1>4. ASSUME NEW r \in NewRaces, NEW p \in Players, CheckPlayer(r, p) PROVE rebooted = 0 /\ UNCHANGED career
    BY <1>4 DEF CheckPlayer
<1>5. CASE UNCHANGED awardVars
    BY <1>5 DEF awardVars
<1> QED BY <1>1, <1>2, <1>3, <1>4, <1>5 DEF AwardsNext

\* A race that is submitted has passed no checker.
LEMMA SubmittedIsUnchecked ==
    ASSUME AwardsTypeOK, JobsClean, NEW r \in NewRaces, SubmitRace(r)
    PROVE  /\ \A p \in Players : \A c : ~Passed(r, p, c)'
           /\ \A q \in NewRaces, p \in Players : \A c : Passed(q, p, c)' <=> Passed(q, p, c)
<1>1. UNCHANGED ran /\ \A p \in Players : ran[r][p] = 0
    BY SubmitSays DEF JobsClean
<1> QED BY <1>1 DEF Passed

\* What a check leaves as it was, and whom it takes further.
LEMMA CheckPasses ==
    ASSUME AwardsTypeOK, NEW r \in NewRaces, NEW d \in Players, CheckPlayer(r, d)
    PROVE  \A q \in NewRaces, p \in Players : \A c :
               /\ Passed(q, p, c) => Passed(q, p, c)'
               /\ Passed(q, p, c)' => Passed(q, p, c) \/ (q = r /\ p = d)
BY CheckSays

\* The checker of a first win rewards it, or some race the player won was checked before.
LEMMA FirstWinsStep == AwardsTypeOK /\ JobsClean /\ FirstWins /\ [AwardsNext]_awardVars => FirstWins'
<1> DEFINE code == "FIRST_BLOOD"
<1> SUFFICES ASSUME AwardsTypeOK, JobsClean, FirstWins, [AwardsNext]_awardVars, rebooted' = 0,
                    NEW p \in Players, NEW x \in Range(raced'),
                    p \notin rushed', Won(p, x), Passed(x, p, code)', \A q \in Range(career') : ~Won(p, q)
             PROVE  Holds(p, code)'
    BY Zenon DEF FirstWins, Won
<1>1. rebooted = 0 /\ career' = career
    BY ProgressStep
<1>2. ASSUME p \notin rushed, NEW y \in Range(raced), Won(p, y), Passed(y, p, code)
      PROVE  Holds(p, code)'
    <2>1. Holds(p, code)
        BY <1>1, <1>2, Zenon DEF FirstWins
    <2> QED BY <2>1, HoldsStays, Zenon
<1>3. ASSUME UNCHANGED <<raced, ran>>, \A d : d \notin rushed' => d \notin rushed
      PROVE  Holds(p, code)'
    <2>1. Passed(x, p, code)
        BY <1>3 DEF Passed
    <2> QED BY <1>2, <1>3, <2>1
<1>4. ASSUME NEW r \in NewRaces, SubmitRace(r) PROVE Holds(p, code)'
    <2>1. Range(raced') = Range(raced) \cup {r} /\ Range(raced) \subseteq NewRaces /\ rushed' = rushed
        BY <1>4, SubmitSays, AllRaces
    <2>2. x # r /\ Passed(x, p, code)
        BY <1>4, <2>1, SubmittedIsUnchecked
    <2> QED BY <1>2, <2>1, <2>2
<1>5. ASSUME NEW r \in NewRaces, NEW d \in Players, CheckPlayer(r, d) PROVE Holds(p, code)'
    <2>1. /\ \A e : e \notin rushed' => e \notin rushed /\ (e = d => ~Waiting(d, r))
          /\ jobStep[r] = "check" /\ raced' = raced /\ Range(raced) \subseteq NewRaces
        BY <1>5, CheckSays, AllRaces
    <2>2. CASE Passed(x, p, code)
        BY <1>2, <2>1, <2>2
    <2>3. CASE ~Passed(x, p, code)
        <3>1. x = r /\ p = d
            BY <1>5, <2>1, <2>3, CheckPasses
        <3>2. CASE \E q \in Range(raced) \ {r} : Won(p, q)
            <4>1. PICK q \in Range(raced) \ {r} : Won(p, q)
                BY <3>2
            <4>2. jobStep[q] # "check" /\ jobStep[q] # "new" /\ p \in Field(q)
                BY <2>1, <3>1, <4>1 DEF Waiting, JobsClean, Won
            <4>3. ran[q][p] = NumCheckers
                BY <1>1, <2>1, <4>1, <4>2 DEF JobsClean, AwardsTypeOK
            <4>4. Passed(q, p, code)
                BY <4>3, CheckersKnown DEF Passed, AwardCodes, Range
            <4> QED BY <1>2, <2>1, <4>1, <4>4
        <3>3. CASE ~\E q \in Range(raced) \ {r} : Won(p, q)
            <4>1. \A q \in Mine(p, career \o raced) \ {r} : Row(q, p).pos # 1
                BY <1>1, <3>3, AllRaces DEF Mine, Won, Field
            <4>2. Row(r, p).pos = 1
                BY <3>1 DEF Won
            <4>3. ASSUME NEW leader, NEW newest, newest \in BOOLEAN
                  PROVE  code \in Earned(p, r, leader, newest)
                <5>1. "FIRST_BLOOD" \in OriginalAwards(p, r, career \o raced, leader, newest)
                    BY <4>1, <4>2, CheckersSay, Zenon
                <5> QED BY <5>1, Zenon DEF Earned
            <4> QED BY <1>5, <2>3, <3>1, <4>3, CheckGives, Zenon
        <3> QED BY <3>2, <3>3
    <2> QED BY <2>2, <2>3
<1> QED BY <1>3, <1>4, <1>5, ProgressStep, Zenon

\* LastThree, now and in the next state, by the sets of races of the queries.
LEMMA LastThreeIs ==
    ASSUME NEW p, NEW r
    PROVE  /\ LastThree(p, r) = LastRounds(InSeason(Mine(p, raced), r))
           /\ LastThree(p, r)' = LastRounds(InSeason(Mine(p, raced'), r))
BY DEF LastThree, LastRounds, Above

\* A commit changes the last three rounds only by a race still to check; a check of one of them rewards.
LEMMA DominationsStep == AwardsTypeOK /\ JobsClean /\ Dominations /\ [AwardsNext]_awardVars => Dominations'
<1> DEFINE code == "DOMINATOR"
<1> SUFFICES ASSUME AwardsTypeOK, JobsClean, Dominations, [AwardsNext]_awardVars, rebooted' = 0,
                    NEW p \in Players, NEW x \in Range(raced'),
                    Dominates(p, x)', \A q \in LastThree(p, x)' : Passed(q, p, code)'
             PROVE  Holds(p, code)'
    BY Zenon DEF Dominations
<1>1. rebooted = 0 /\ career' = career
    BY ProgressStep
<1>2. ASSUME NEW y \in Range(raced), Dominates(p, y), \A q \in LastThree(p, y) : Passed(q, p, code)
      PROVE  Holds(p, code)'
    <2>1. Holds(p, code)
        BY <1>1, <1>2, Zenon DEF Dominations
    <2> QED BY <2>1, HoldsStays, Zenon
<1>3. /\ Cardinality(LastThree(p, x)') = 3 /\ \A q \in LastThree(p, x)' : Won(p, q)
      /\ \A q \in Range(career) : RaceOf[q].season # RaceOf[x].season
    BY <1>1 DEF Dominates, Won
<1>4. LastThree(p, x)' = LastRounds(InSeason(Mine(p, raced'), x))
    BY LastThreeIs
<1>5. ASSUME raced' = raced
      PROVE  Dominates(p, x) /\ LastThree(p, x) = LastThree(p, x)' /\ x \in Range(raced)
    <2>1. LastThree(p, x) = LastThree(p, x)'
        BY <1>4, <1>5, LastThreeIs
    <2> QED BY <1>3, <1>5, <2>1 DEF Dominates
<1>6. ASSUME UNCHANGED <<raced, ran>> PROVE Holds(p, code)'
    <2>1. \A q \in LastThree(p, x) : Passed(q, p, code)
        BY <1>5, <1>6 DEF Passed
    <2> QED BY <1>2, <1>5, <1>6, <2>1
<1>7. ASSUME NEW r \in NewRaces, SubmitRace(r) PROVE Holds(p, code)'
    <2> DEFINE T == InSeason(Mine(p, raced'), x)
    <2>1. /\ Range(raced') = Range(raced) \cup {r} /\ Range(raced) \subseteq NewRaces
          /\ IsFiniteSet(Range(raced))
        BY <1>7, SubmitSays, AllRaces
    <2>2. T = {q \in Range(raced') : p \in Entered(q) /\ RaceOf[q].season = RaceOf[x].season}
        BY DEF InSeason, Mine
    <2>3. LastThree(p, x)' = LastRounds(T) /\ LastRounds(T) \subseteq T
        BY <1>4 DEF LastRounds
    <2> HIDE DEF T
    <2>4. r \notin LastRounds(T)
        BY <1>7, <2>3, SubmittedIsUnchecked
    <2>5. LastRounds(T) # {}
        BY <1>3, <2>3, FS_EmptySet
    <2>6. PICK z \in LastRounds(T) : TRUE
        BY <2>5
    <2>7. z \in Range(raced) /\ z # r /\ RaceOf[z].season = RaceOf[x].season
        BY <2>1, <2>2, <2>3, <2>4, <2>6
    <2> DEFINE S == InSeason(Mine(p, raced), z)
    <2>8. S = {q \in Range(raced) : p \in Entered(q) /\ RaceOf[q].season = RaceOf[x].season}
        BY <2>7 DEF InSeason, Mine
    <2>9. LastThree(p, z) = LastRounds(S)
        BY LastThreeIs
    <2> HIDE DEF S
    <2>10. LastRounds(T) = LastRounds(S)
        <3>1. CASE r \in T
            <4>1. T = S \cup {r}
                BY <2>1, <2>2, <2>8, <3>1
            <4>2. IsFiniteSet(S)
                BY <2>1, <2>8, PartOf
            <4>3. \A s \in S \cup {r} : RaceOf[s].round \in Int
                BY <2>1, <2>8, AwardsAssumption
            <4> QED BY <2>4, <4>1, <4>2, <4>3, LastRoundsStay
        <3>2. CASE r \notin T
            BY <2>1, <2>2, <2>8, <3>2
        <3> QED BY <3>1, <3>2
    <2>11. LastThree(p, z) = LastThree(p, x)'
        BY <2>3, <2>9, <2>10
    <2>12. Dominates(p, z)
        BY <1>3, <2>7, <2>11 DEF Dominates
    <2>13. \A q \in LastThree(p, z) : Passed(q, p, code)
        <3>1. \A q \in LastThree(p, z) : q \in NewRaces
            BY <2>1, <2>2, <2>3, <2>11
        <3> QED BY <1>7, <2>11, <3>1, SubmittedIsUnchecked
    <2> QED BY <1>2, <2>7, <2>12, <2>13
<1>8. ASSUME NEW r \in NewRaces, NEW d \in Players, CheckPlayer(r, d) PROVE Holds(p, code)'
    <2>1. /\ raced' = raced /\ Range(raced) \subseteq NewRaces /\ IsFiniteSet(Range(raced))
          /\ Range(career \o raced) = Range(career) \cup Range(raced) /\ career \o raced \in Seq(RaceIds)
        BY <1>8, CheckSays, AllRaces
    <2>2. CASE \A q \in LastThree(p, x) : Passed(q, p, code)
        BY <1>2, <1>5, <2>1, <2>2
    <2>3. CASE \E q \in LastThree(p, x) : ~Passed(q, p, code)
        <3> DEFINE S == InSeason(Mine(p, raced), x)
        <3>1. LastThree(p, x) = LastRounds(S) /\ LastThree(p, x) = LastThree(p, x)'
            BY <1>5, <2>1, LastThreeIs
        <3>2. S = {q \in Range(raced) : p \in Entered(q) /\ RaceOf[q].season = RaceOf[x].season}
            BY DEF InSeason, Mine
        <3> HIDE DEF S
        <3>3. LastRounds(S) \subseteq S
            BY DEF LastRounds
        <3>4. r \in LastRounds(S) /\ p = d /\ ~Passed(r, p, code) /\ Passed(r, p, code)'
            <4>1. PICK q \in LastThree(p, x) : ~Passed(q, p, code)
                BY <2>3
            <4>2. q \in NewRaces /\ Passed(q, p, code)'
                BY <2>1, <3>1, <3>2, <3>3
            <4>3. q = r /\ p = d
                BY <1>8, <4>1, <4>2, CheckPasses
            <4> QED BY <3>1, <4>1, <4>2, <4>3
        <3>5. Cardinality(LastRounds(S)) = 3 /\ \A q \in LastRounds(S) : Row(q, p).pos = 1
            BY <1>3, <3>1 DEF Won
        <3>6. InSeason(Mine(p, career \o raced), r) = S
            BY <1>3, <2>1, <3>2, <3>3, <3>4 DEF InSeason, Mine
        <3>7. S \subseteq Range(career \o raced)
            BY <2>1, <3>2
        <3>8. ASSUME NEW leader, NEW newest, newest \in BOOLEAN
              PROVE  "DOMINATOR" \in Earned(p, r, leader, newest)
            <4> DEFINE good == {q \in S : Row(q, p).pos = 1}
            <4>1. Recent(S, 3, career \o raced, newest) = LastRounds(S)
                BY <2>1, <3>5, <3>7, <3>8, LimitIsLast, Zenon
            <4>2. LastRounds(S) \subseteq good /\ Row(r, p).pos = 1
                BY <3>3, <3>4, <3>5
            <4>3. Streak(S, 3, career \o raced, newest, good)
                BY <3>5, <4>1, <4>2 DEF Streak
            <4>4. "DOMINATOR" \in OriginalAwards(p, r, career \o raced, leader, newest)
                BY <3>6, <4>2, <4>3, CheckersSay, Zenon
            <4> QED BY <4>4, Zenon DEF Earned
        <3> QED BY <1>8, <3>4, <3>8, CheckGives, Zenon
    <2> QED BY <2>2, <2>3
<1> QED BY <1>6, <1>7, <1>8, ProgressStep, Zenon

\* A group with one race more: the race joins it or leaves it alone.
LEMMA GroupStep ==
    ASSUME AwardsTypeOK, NEW r \in NewRaces, SubmitRace(r), NEW c, NEW p, NEW x
    PROVE  Group(c, p, x)' = IF Joins(c, p, r, x) THEN Group(c, p, x) \cup {r} ELSE Group(c, p, x)
<1>1. Range(raced') = Range(raced) \cup {r} /\ career' = career
    BY SubmitSays
<1> QED BY <1>1 DEF Group, Joins

\* Every step keeps what is saved or found deserved.
LEMMA DeservedStep == AwardsTypeOK /\ JobsClean /\ Deserved /\ [AwardsNext]_awardVars => Deserved'
<1> SUFFICES ASSUME AwardsTypeOK, JobsClean, Deserved, [AwardsNext]_awardVars,
                    NEW p \in Players, NEW x \in NewRaces, NEW e \in Includes, Given(p, e[1], x)'
             PROVE  x \in Range(raced') /\ Deserves(e[1], p, x)'
    BY Zenon DEF Deserved
<1> DEFINE code == e[1]
<1>1. ASSUME Given(p, code, x) PROVE x \in Range(raced) /\ Deserves(code, p, x)
    BY <1>1, Zenon DEF Deserved
<1>2. ASSUME UNCHANGED <<career, raced>>, x \in Range(raced), Deserves(code, p, x)
      PROVE  x \in Range(raced') /\ Deserves(code, p, x)'
    <2>1. Group(code, p, x)' = Group(code, p, x)
        BY <1>2 DEF Group, Joins
    <2> HIDE DEF code
    <2> QED BY <1>2, <2>1 DEF Deserves, Joins, Enough
<1>3. ASSUME NEW r \in NewRaces, SubmitRace(r) PROVE x \in Range(raced') /\ Deserves(code, p, x)'
    <2>1. Given(p, code, x)
        BY <1>3, SubmitSays DEF Given
    <2>2. x \in Range(raced) /\ Deserves(code, p, x) /\ Range(raced') = Range(raced) \cup {r}
        BY <1>1, <1>3, <2>1, SubmitSays
    <2> HIDE DEF code
    <2>3. Joins(code, p, x, x)' /\ Enough(code, p, x, Group(code, p, x))
        BY <2>2 DEF Deserves, Joins
    <2>4. IsFiniteSet(Group(code, p, x)) /\ \A q \in Group(code, p, x) : Row(q, p).points \in Nat
        <3>1. Group(code, p, x) \subseteq Mine(p, career \o raced)
            BY AllRaces DEF Group, Joins, Mine
        <3>2. /\ IsFiniteSet(Mine(p, career \o raced))
              /\ \A q \in Mine(p, career \o raced) : Row(q, p).points \in Nat
            BY GroupsAre
        <3> QED BY <3>1, <3>2, PartOf
    <2>5. CASE Joins(code, p, r, x)
        <3>1. Row(r, p).points \in Nat
            BY <2>5, AwardsAssumption DEF Joins
        <3>2. Enough(code, p, x, Group(code, p, x) \cup {r})
            BY <2>3, <2>4, <3>1, MoreIsEnough
        <3>3. Group(code, p, x)' = Group(code, p, x) \cup {r}
            BY <1>3, <2>5, GroupStep
        <3> QED BY <2>2, <2>3, <3>2, <3>3 DEF Deserves, Enough
    <2>6. CASE ~Joins(code, p, r, x)
        <3>1. Group(code, p, x)' = Group(code, p, x)
            BY <1>3, <2>6, GroupStep
        <3> QED BY <2>2, <2>3, <3>1 DEF Deserves, Enough
    <2> QED BY <2>5, <2>6
<1>4. ASSUME NEW r \in NewRaces, NEW d \in Players, CheckPlayer(r, d)
      PROVE  x \in Range(raced') /\ Deserves(code, p, x)'
    <2>1. PICK earned, slice, leader, newest :
              /\ earned = Earned(d, r, leader, newest)
              /\ \A q \in NewRaces, b \in Players : \A c :
                    Given(b, c, q)' => Given(b, c, q) \/ (q = r /\ b = d /\ c \in earned)
        BY <1>4, CheckSays
    <2>2. UNCHANGED <<career, raced>> /\ d \in Field(r) /\ jobStep[r] = "check"
        BY <1>4, CheckSays
    <2>3. CASE Given(p, code, x)
        BY <1>1, <1>2, <2>2, <2>3
    <2>4. CASE ~Given(p, code, x)
        <3>1. x = r /\ p = d /\ e[1] \in Earned(p, r, leader, newest)
            BY <2>1, <2>4
        <3>2. Deserves(code, p, x)
            BY <2>2, <3>1, ReturnedIsDeserved
        <3>3. x \in Range(raced)
            BY <2>2, <3>1 DEF JobsClean
        <3> QED BY <1>2, <2>2, <3>2, <3>3
    <2> QED BY <2>3, <2>4
<1>5. ASSUME NEW r \in NewRaces, SaveUnlocks(r) PROVE x \in Range(raced') /\ Deserves(code, p, x)'
    <2>1. Given(p, code, x) /\ UNCHANGED <<career, raced>>
        BY <1>5, SaveSays
    <2> QED BY <1>1, <1>2, <2>1
<1>6. ASSUME LoseJobs PROVE x \in Range(raced') /\ Deserves(code, p, x)'
    <2>1. Given(p, code, x) /\ UNCHANGED <<career, raced>>
        BY <1>6, LoseSays DEF Given
    <2> QED BY <1>1, <1>2, <2>1
<1>7. CASE UNCHANGED awardVars
    <2>1. Given(p, code, x) /\ UNCHANGED <<career, raced>>
        BY <1>7 DEF awardVars, Given
    <2> QED BY <1>1, <1>2, <2>1
<1> QED BY <1>3, <1>4, <1>5, <1>6, <1>7 DEF AwardsNext

\* Races that count with one another count for the same.
LEMMA GroupsAgree ==
    ASSUME NEW c, NEW p, NEW q, NEW x, Joins(c, p, q, x), Joins(c, p, x, x)
    PROVE  /\ Joins(c, p, q, q) /\ Group(c, p, q) = Group(c, p, x)
           /\ Enough(c, p, x, Group(c, p, x)) => Enough(c, p, q, Group(c, p, q))
<1>1. Joins(c, p, q, q) /\ Group(c, p, q) = Group(c, p, x)
    BY DEF Group, Joins
<1>2. c = "UNDERDOG" => q = x
    BY DEF Joins
<1> QED BY <1>1, <1>2 DEF Enough

\* The last checker of a code that others include, among the races that count, sees them all.
LEMMA IncludedStep == AwardsTypeOK /\ JobsClean /\ Included /\ [AwardsNext]_awardVars => Included'
<1> SUFFICES ASSUME AwardsTypeOK, JobsClean, Included, [AwardsNext]_awardVars, rebooted' = 0,
                    NEW p \in Players, NEW x \in Range(raced'), NEW e \in Includes,
                    Deserves(e[1], p, x)',
                    \A q \in Range(raced') : Joins(e[1], p, q, x)' => Passed(q, p, e[2])'
             PROVE  Holds(p, e[2])'
    BY Zenon DEF Included
<1> DEFINE code == e[1]
           part == e[2]
<1>1. rebooted = 0 /\ career' = career
    BY ProgressStep
<1>2. ASSUME x \in Range(raced), Deserves(code, p, x),
             \A q \in Range(raced) : Joins(code, p, q, x) => Passed(q, p, part)
      PROVE  Holds(p, part)'
    <2>1. Holds(p, part)
        BY <1>1, <1>2, Zenon DEF Included
    <2> QED BY <2>1, HoldsStays, Zenon
<1>3. \A q \in Range(raced') : Joins(code, p, q, x) => Passed(q, p, part)'
    BY DEF Joins
<1>4. ASSUME raced' = raced PROVE x \in Range(raced) /\ Deserves(code, p, x)
    <2>1. Group(code, p, x)' = Group(code, p, x)
        BY <1>1, <1>4 DEF Group, Joins
    <2>2. Deserves(code, p, x)'
        OBVIOUS
    <2> HIDE DEF code
    <2> QED BY <1>4, <2>1, <2>2 DEF Deserves, Joins, Enough
<1>5. ASSUME UNCHANGED <<raced, ran>> PROVE Holds(p, part)'
    <2>1. \A q \in Range(raced) : Joins(code, p, q, x) => Passed(q, p, part)
        BY <1>3, <1>5 DEF Passed
    <2> QED BY <1>2, <1>4, <1>5, <2>1
<1>6. ASSUME NEW r \in NewRaces, SubmitRace(r) PROVE Holds(p, part)'
    <2>1. Range(raced') = Range(raced) \cup {r} /\ Range(raced) \subseteq NewRaces
        BY <1>6, SubmitSays, AllRaces
    <2>2. ~Joins(code, p, r, x)
        BY <1>3, <1>6, <2>1, SubmittedIsUnchecked
    <2>3. Group(code, p, x)' = Group(code, p, x)
        BY <1>6, <2>2, GroupStep
    <2>4. Joins(code, p, x, x) /\ Deserves(code, p, x)
        <3> HIDE DEF code
        <3> QED BY <2>3 DEF Deserves, Joins, Enough, code
    <2>5. x \in Range(raced)
        BY <2>1, <2>2, <2>4
    <2>6. \A q \in Range(raced) : Joins(code, p, q, x) => Passed(q, p, part)
        BY <1>3, <1>6, <2>1, SubmittedIsUnchecked
    <2> QED BY <1>2, <2>4, <2>5, <2>6
<1>7. ASSUME NEW r \in NewRaces, NEW d \in Players, CheckPlayer(r, d) PROVE Holds(p, part)'
    <2>1. raced' = raced /\ Range(raced) \subseteq NewRaces /\ x \in Range(raced) /\ Deserves(code, p, x)
        BY <1>4, <1>7, CheckSays, AllRaces
    <2>2. CASE \A q \in Range(raced) : Joins(code, p, q, x) => Passed(q, p, part)
        BY <1>2, <2>1, <2>2
    <2>3. CASE \E q \in Range(raced) : Joins(code, p, q, x) /\ ~Passed(q, p, part)
        <3>1. PICK q \in Range(raced) : Joins(code, p, q, x) /\ ~Passed(q, p, part)
            BY <2>3
        <3>2. q = r /\ p = d /\ Passed(q, p, part)'
            BY <1>3, <1>7, <2>1, <3>1, CheckPasses
        <3>3. Deserves(code, p, r)
            BY <2>1, <3>1, <3>2, GroupsAgree DEF Deserves
        <3>4. ASSUME NEW leader, NEW newest, newest \in BOOLEAN PROVE part \in Earned(p, r, leader, newest)
            BY <3>1, <3>2, <3>3, DeservedIsReturned
        <3> HIDE DEF part
        <3> QED BY <1>7, <3>1, <3>2, <3>4, CheckGives, Zenon
    <2> QED BY <2>2, <2>3
<1> QED BY <1>5, <1>6, <1>7, ProgressStep, Zenon

\* The invariant of achievement_engine.py: a job saves codes its players do not have, and
\* the checkers run so far have given what the races committed by then have earned.
THEOREM AwardsInvariant == AwardsSpec => []AwardsInv
<1>1. AwardsInit => AwardsInv
    <2> SUFFICES ASSUME AwardsInit PROVE AwardsInv
        OBVIOUS
    <2>1. raced = <<>> /\ Range(raced) = {}
        BY DEF AwardsInit, Range
    <2>2. AwardsTypeOK
        BY AwardsAssumption, CheckersKnown DEF AwardsInit, AwardsTypeOK
    <2>3. JobsClean
        BY <2>1 DEF AwardsInit, JobsClean
    <2>4. OnceEach
        BY DEF AwardsInit, OnceEach, Has
    <2>5. FirstWins /\ Dominations /\ Included
        BY <2>1 DEF FirstWins, Dominations, Included
    <2>6. Deserved
        BY DEF AwardsInit, Deserved, Given
    <2> QED BY <2>2, <2>3, <2>4, <2>5, <2>6 DEF AwardsInv
<1>2. AwardsInv /\ [AwardsNext]_awardVars => AwardsInv'
    BY AwardsTypeStep, JobsCleanStep, OnceEachStep, FirstWinsStep, DominationsStep, DeservedStep,
       IncludedStep, Zenon DEF AwardsInv
<1> QED BY <1>1, <1>2, PTL DEF AwardsSpec

\* The invariant holds what the run checks.
LEMMA AwardsInvIsSound == AwardsInv => AwardsSound
<1> SUFFICES ASSUME AwardsInv PROVE AwardsSound
    OBVIOUS
<1>1. AwardsTypeOK /\ JobsClean /\ OnceEach /\ FirstWins /\ Dominations /\ Deserved /\ Included
    BY DEF AwardsInv
<1>2. ASSUME NEW x \in unlocked, NEW y \in unlocked, x[1] = y[1], x[2] = y[2], x[1] \notin rushed PROVE x = y
    <2>1. /\ x = <<x[1], x[2], x[3]>> /\ y = <<x[1], x[2], y[3]>>
          /\ x[1] \in Players /\ x[2] \in AwardCodes /\ x[3] \in NewRaces /\ y[3] \in NewRaces
        BY <1>1, <1>2 DEF AwardsTypeOK
    <2>2. x[3] = y[3]
        BY <1>1, <1>2, <2>1 DEF OnceEach
    <2> QED BY <2>1, <2>2
<1>3. ASSUME AwardsQuiet, NEW p \in Players, NEW c, Holds(p, c) PROVE Has(p, c)
    BY <1>1, <1>3 DEF AwardsQuiet, JobsClean, Holds, Given, Has
<1>4. ASSUME AwardsQuiet, NEW r \in Range(raced), NEW p \in Field(r), NEW c \in AwardCodes PROVE Passed(r, p, c)
    <2>1. r \in NewRaces /\ rebooted = 0 /\ jobStep[r] = "done"
        BY <1>1, <1>4, AllRaces DEF AwardsQuiet, JobsClean, AwardsTypeOK
    <2>2. ran[r][p] = NumCheckers
        BY <1>1, <2>1 DEF JobsClean
    <2> QED BY <2>2, CheckersKnown DEF Passed, AwardCodes, Range
<1>5. ASSUME NEW p \in Players \ rushed, AwardsQuiet, \E r \in Range(raced) : Won(p, r),
             \A r \in Range(career) : ~Won(p, r)
      PROVE  Has(p, "FIRST_BLOOD")
    <2>1. PICK r \in Range(raced) : Won(p, r)
        BY <1>5
    <2>2. Passed(r, p, "FIRST_BLOOD") /\ rebooted = 0
        BY <1>4, <1>5, <2>1, CheckersKnown DEF Won, AwardsQuiet
    <2>3. Holds(p, "FIRST_BLOOD")
        BY <1>1, <1>5, <2>1, <2>2, Zenon DEF FirstWins
    <2> QED BY <1>3, <1>5, <2>3, Zenon
<1>6. ASSUME AwardsQuiet, NEW p \in Players, NEW r \in Range(raced),
             Cardinality(LastThree(p, r)) = 3, \A q \in LastThree(p, r) : Won(p, q),
             \A q \in Range(career) : RaceOf[q].season # RaceOf[r].season
      PROVE  Has(p, "DOMINATOR")
    <2>1. LastThree(p, r) \subseteq Range(raced)
        BY DEF LastThree, InSeason, Mine
    <2>2. \A q \in LastThree(p, r) : Passed(q, p, "DOMINATOR")
        BY <1>4, <1>6, <2>1, CheckersKnown DEF Won
    <2>3. Dominates(p, r) /\ rebooted = 0
        BY <1>6 DEF Dominates, AwardsQuiet
    <2>4. Holds(p, "DOMINATOR")
        BY <1>1, <1>6, <2>2, <2>3, Zenon DEF Dominations
    <2> QED BY <1>3, <1>6, <2>4, Zenon
<1>7. ASSUME AwardsQuiet, NEW x \in unlocked, NEW c \in Includes, x[2] = c[1] PROVE Has(x[1], c[2])
    <2> DEFINE p == x[1]
               r == x[3]
    <2>1. x = <<x[1], x[2], x[3]>> /\ p \in Players /\ r \in NewRaces
        BY <1>1 DEF AwardsTypeOK
    <2>2. Given(p, c[1], r)
        BY <1>7, <2>1 DEF Given
    <2> HIDE DEF p, r
    <2>3. r \in Range(raced) /\ Deserves(c[1], p, r)
        BY <1>1, <2>1, <2>2, Zenon DEF Deserved
    <2>4. ASSUME NEW q \in Range(raced), Joins(c[1], p, q, r) PROVE Passed(q, p, c[2])
        <3>1. p \in Field(q)
            BY <2>1, <2>4 DEF Joins, Field
        <3> QED BY <1>4, <1>7, <3>1, CheckersKnown
    <2>5. Holds(p, c[2])
        BY <1>1, <1>7, <2>1, <2>3, <2>4, Zenon DEF Included, AwardsQuiet
    <2>6. Has(p, c[2])
        BY <1>3, <1>7, <2>1, <2>5
    <2> QED BY <2>6 DEF p
<1> QED BY <1>1, <1>2, <1>5, <1>6, <1>7, Zenon DEF AwardsSound

\* AwardsSound: whatever order races are committed in and wherever between two checkers,
\* nobody who was never checked in a rush has an achievement twice or misses FIRST_BLOOD;
\* when the jobs have ended, three wins at the end of a season have given DOMINATOR, and
\* who has an achievement has those it includes.
THEOREM AwardsAreSound == AwardsSpec => []AwardsSound
BY AwardsInvariant, AwardsInvIsSound, PTL
=============================================================================
