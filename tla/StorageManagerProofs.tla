------------------------ MODULE StorageManagerProofs ------------------------
(***************************************************************************)
(* Theorems about StorageManager, for any number of entities, values,      *)
(* changes and restarts, any limit of pending queries, and with the steps  *)
(* of a tick anywhere between the operations of the main thread: what is   *)
(* stored; the containment tree; which rows may point to a container that  *)
(* has none; and what a restart brings back.                               *)
(***************************************************************************)
EXTENDS StorageManager, Induction

-----------------------------------------------------------------------------
\* Types.

Places == Entities \cup {Nowhere}

Settings == Values \cup {Unset}

Tables == [rows : [Entities -> Places \cup {Absent}],
           props : [Entities -> Settings \cup {Absent}]]

Commands ==
    [op : {"insertEntity", "updateEntity"}, id : Entities, arg : Places]
        \cup [op : {"upsertProperties"}, id : Entities, arg : Settings]
        \cup [op : {"updateEntityWithoutLoc", "deleteProperty", "deleteProperties",
                    "deleteEntity", "deleteThoughts"}, id : Entities, arg : {Absent}]

Worlds == [parent : [Entities -> Places], flags : [Entities -> SUBSET Flags],
           dirty : Seq(Entities), gone : Seq(Ids), missed : SUBSET Entities]

-----------------------------------------------------------------------------
\* The inductive invariant.  Its parts speak of a world w, as one operation
\* leaves it between two signals, and of the setting k of the operation, which
\* no signal changes: live are the entities of the world, new the unstored
\* ones, coming the one whose INSERT is scheduled, busy the one that tick() has
\* just written, p the properties, F the tables that the database will have.

\* The marks that entityUpdated and tick() go by are true of the queues.
Marked(w, k) ==
    /\ \A e \in Entities :
        /\ e \in Range(w.dirty) <=> {"connected", "queued"} \subseteq w.flags[e]
        /\ "connected" \in w.flags[e] => "stored" \in w.flags[e]
        /\ "stored" \in w.flags[e] => "ephem" \notin w.flags[e]
    /\ \A e \in k.new : w.flags[e] \cap {"connected", "ephem"} = {}
    /\ \A e \in k.coming : "stored" \in w.flags[e]
    /\ \A e \in k.live : /\ "destroyed" \notin w.flags[e]
                         /\ e \in k.new \/ w.flags[e] \cap {"connected", "ephem"} # {}
    /\ \A e \in Range(w.gone) : "destroyed" \in w.flags[e]
    /\ "connected" \in w.flags[Root] /\ "destroyed" \notin w.flags[Root]
    /\ k.busy \subseteq Range(w.dirty)
    /\ IsInjective(w.dirty)

\* tick() is going to write e.
Due(w, k, e) == e \in Range(w.dirty) \ k.busy /\ "clean" \notin w.flags[e]

\* The tables hold the property of e.
Matches(k, e) ==
    k.F.props[e] = k.p[e] \/ (k.p[e] = Unset /\ k.F.props[e] = Absent)

\* The row of e says where e is, or tick() will see that it has to.
RowKept(w, k, e) == k.F.rows[e] = w.parent[e] \/ Due(w, k, e)

\* The property of e is stored as it is, or its Update op or tick() will see
\* to it.
PropKept(w, k, e) ==
    \/ Matches(k, e)
    \/ /\ "propClean" \notin w.flags[e]
       /\ {"unsent", "updateQueued"} \subseteq w.flags[e] \/ Due(w, k, e)

\* What the tables hold of entity e of the world.
Stored(w, k, e) ==
    /\ "propClean" \in w.flags[e] => Matches(k, e)
    /\ "stored" \in w.flags[e] <=> k.F.rows[e] # Absent
    /\ /\ e \notin w.missed /\ "ephem" \notin w.flags[e]
       /\ k.p[e] = Absent
       => k.F.props[e] = Absent
    /\ /\ "stored" \in w.flags[e]
       /\ e \notin w.missed \cup (k.new \ k.coming)
       => PropKept(w, k, e)

\* The row of a destroyed entity is gone or about to go.
Dropped(w, k, e) ==
    /\ "stored" \notin w.flags[e] => k.F.rows[e] = Absent
    /\ e \notin w.missed \cup k.dying => k.F.rows[e] = Absent \/ e \in Range(w.gone)

\* What is stored of e.  The row of an entity that is being moved may be wrong.
Sound(w, k, moving, e) ==
    /\ e \in k.live =>
        /\ Stored(w, k, e)
        /\ "stored" \in w.flags[e] /\ e \notin w.missed \cup moving => RowKept(w, k, e)
    /\ e \in Ids /\ "destroyed" \in w.flags[e] => Dropped(w, k, e)

\* All of it.
Kept(w, k, moving) ==
    /\ w \in Worlds
    /\ k.live \cup k.new \subseteq Entities /\ k.coming \subseteq k.new
    /\ Marked(w, k)
    /\ \A e \in Entities : Sound(w, k, moving, e)

\* The setting between operations.
Setting ==
    [live |-> entities, new |-> Range(unstored),
     coming |-> IF tick = "inserted" THEN {Head(unstored)} ELSE {},
     busy |-> IF tick = "updated" THEN {Head(dirty)} ELSE {},
     dying |-> {}, p |-> prop, F |-> Final]

\* Where the entities are makes a tree of the live ones: following the
\* places from any of them leads to the root, since a set of them that is
\* closed under this contains it.
ClosedUnder(at, S) == \A e \in S \ {Root} : at[e] \in S

Tree(at, live) ==
    /\ at[Root] = Nowhere /\ Root \in live
    /\ ClosedUnder(at, live)
    /\ \A S \in SUBSET live : S # {} /\ ClosedUnder(at, S) => Root \in S

\* Nothing changes the row of the root, and rows are deleted of destroyed
\* entities only.
Spared(f) == {c \in Commands :
    /\ c.id = Root => c.op \notin {"insertEntity", "updateEntity", "deleteEntity"}
    /\ c.op = "deleteEntity" => "destroyed" \in f[c.id]}

\* The ids that newId() has not returned yet.
Fresh == {e \in Ids : e > idGenerator}

\* The invariant of a server that has not crashed.
RunInv ==
    /\ entities \in SUBSET Entities
    /\ prop \in [Entities -> Settings \cup {Absent}]
    /\ unstored \in Seq(Ids) /\ IsInjective(unstored)
    /\ \A e \in Range(unstored) : e \in entities \/ "destroyed" \in flags[e]
    /\ idGenerator \in 0 .. MaxId
    /\ \A e \in Fresh : /\ e \notin entities
                        /\ flags[e] = {} /\ parent[e] = Nowhere
                        /\ Final.rows[e] = Absent
    /\ pending \in Seq(Spared(flags))
    /\ db \in Tables /\ db.rows[Root] = Nowhere
    /\ tick = "inserted" => unstored # <<>>
    /\ tick = "updated" => dirty # <<>>
    /\ Tree(parent, entities)
    /\ Kept(World, Setting, {})

\* Nothing is under way in a server that is down.
Inv ==
    /\ db \in Tables /\ db.rows[Root] = Nowhere
    /\ server \in {"stopped", "crashed"} => tick = "idle" /\ pending = <<>>
    /\ server # "crashed" => RunInv

-----------------------------------------------------------------------------
\* The database: commands one by one, and all that are pending.

LEMMA ApplyType ==
    ASSUME NEW d \in Tables, NEW c \in Commands
    PROVE  Apply(d, c) \in Tables
<1>1. /\ d = [rows |-> d.rows, props |-> d.props]
      /\ d.rows \in [Entities -> Places \cup {Absent}]
      /\ d.props \in [Entities -> Settings \cup {Absent}]
  BY DEF Tables
<1>2. /\ c.id \in Entities
      /\ \/ c.op \in {"insertEntity", "updateEntity"} /\ c.arg \in Places
         \/ c.op = "upsertProperties" /\ c.arg \in Settings
         \/ c.op \in {"updateEntityWithoutLoc", "deleteProperty", "deleteProperties",
                      "deleteEntity", "deleteThoughts"}
  BY DEF Commands
<1>3. \A a \in Places \cup {Absent} : [d EXCEPT !.rows[c.id] = a] \in Tables
  BY <1>1, <1>2 DEF Tables
<1>4. \A a \in Settings \cup {Absent} : [d EXCEPT !.props[c.id] = a] \in Tables
  BY <1>1, <1>2 DEF Tables
<1> HIDE DEF Tables, Places, Settings
<1>5. CASE c.op = "insertEntity"
  BY <1>2, <1>3, <1>5 DEF Apply
<1>6. CASE c.op = "updateEntity"
  BY <1>2, <1>3, <1>6 DEF Apply
<1>7. CASE c.op = "upsertProperties"
  BY <1>2, <1>4, <1>7 DEF Apply
<1>8. CASE c.op \in {"updateEntityWithoutLoc", "deleteThoughts"}
  BY <1>8 DEF Apply
<1>9. CASE c.op \in {"deleteProperty", "deleteProperties"}
  BY <1>4, <1>9 DEF Apply
<1>10. CASE c.op = "deleteEntity"
  BY <1>3, <1>10 DEF Apply
<1> QED BY <1>2, <1>5, <1>6, <1>7, <1>8, <1>9, <1>10

\* The greatest of some of the numbers up to n.
LEMMA MaxUpTo ==
    ASSUME NEW n \in Nat, NEW t \in SUBSET (0 .. n), t # {}
    PROVE  Max(t) \in t /\ \A y \in t : Max(t) >= y
<1>1. IsFiniteSet(t) /\ t \subseteq Nat
  <2>1. t \in SUBSET Nat /\ \A y \in t : y <= n
    OBVIOUS
  <2> QED BY <2>1, FS_BoundedSetOfNaturals
<1>2. PICK x \in t : \A y \in t : y <= x
  BY <1>1, FiniteHasMax
<1>3. x \in t /\ \A y \in t : x >= y
  BY <1>1, <1>2
<1> QED BY <1>3 DEF Max

LEMMA MaxFacts ==
    ASSUME NEW n \in Nat
    PROVE  /\ \A t \in SUBSET (1 .. n) : t # {} => Max(t) \in t
           /\ \A i \in 1 .. n : Max(1 .. i) = i
<1>1. ASSUME NEW t \in SUBSET (1 .. n), t # {}
      PROVE  Max(t) \in t /\ \A y \in t : Max(t) >= y
  <2>1. t \in SUBSET (0 .. n)
    OBVIOUS
  <2> QED BY <1>1, <2>1, MaxUpTo
<1>2. ASSUME NEW i \in 1 .. n PROVE Max(1 .. i) = i
  <2>1. (1 .. i) \in SUBSET (1 .. n) /\ (1 .. i) # {} /\ i \in 1 .. i
    OBVIOUS
  <2>2. Max(1 .. i) \in 1 .. i /\ Max(1 .. i) >= i
    BY <1>1, <2>1
  <2> QED BY <2>2
<1> QED BY <1>1, <1>2

\* f computes what the first commands of s make of d, number by number.
Folds(f, d, s) ==
    /\ f \in [SUBSET (DOMAIN s) -> Tables]
    /\ \A t \in SUBSET (DOMAIN s) :
        f[t] = IF t = {} THEN d ELSE Apply(f[t \ {Max(t)}], s[Max(t)])

LEMMA FoldIs ==
    ASSUME NEW d \in Tables, NEW s \in Seq(Commands)
    PROVE  \E f : Folds(f, d, s) /\ FoldLeft(Apply, d, s) = f[DOMAIN s]
<1> DEFINE S == DOMAIN s
           P(g) == g = [t \in SUBSET S |-> IF t = {} THEN d
                                           ELSE Apply(g[t \ {Max(t)}], s[Max(t)])]
           pick == [t \in SUBSET S |-> Max(t)]
           step == [z \in Tables \X S |-> Apply(z[1], s[z[2]])]
<1>1. Len(s) \in Nat /\ S = 1 .. Len(s) /\ \A i \in S : s[i] \in Commands
  OBVIOUS
<1>2. IsFiniteSet(S)
  BY <1>1, FS_Interval
<1>3. /\ Picks(pick, S)
      /\ \A t \in SUBSET S : pick[t] = Max(t)
  BY <1>1, MaxFacts DEF Picks
<1>4. step \in [Tables \X S -> Tables] /\ \A z \in Tables \X S : step[z] = Apply(z[1], s[z[2]])
  <2>1. \A z \in Tables \X S : Apply(z[1], s[z[2]]) \in Tables
    BY <1>1, ApplyType
  <2> QED BY <2>1
<1>5. PICK f : Computes(f, S, pick, Tables, d, step)
  <2> HIDE DEF S, pick, step
  <2> QED BY <1>2, <1>3, <1>4, FoldExists
<1>6. /\ f \in [SUBSET S -> Tables]
      /\ \A t \in SUBSET S : f[t] = IF t = {} THEN d ELSE Apply(f[t \ {Max(t)}], s[Max(t)])
  <2>0. f \in [SUBSET S -> Tables]
    BY <1>5 DEF Computes
  <2>1. ASSUME NEW t \in SUBSET S, t # {}
        PROVE  f[t] = Apply(f[t \ {Max(t)}], s[Max(t)])
    <3>1. Max(t) \in S /\ t \ {Max(t)} \in SUBSET S /\ pick[t] = Max(t)
      BY <1>3, <2>1 DEF Picks
    <3>2. <<f[t \ {Max(t)}], Max(t)>> \in Tables \X S
      BY <2>0, <3>1
    <3>3. step[<<f[t \ {Max(t)}], Max(t)>>] = Apply(f[t \ {Max(t)}], s[Max(t)])
      <4> HIDE DEF step, S
      <4> QED BY <1>4, <3>2
    <3> HIDE DEF step, pick
    <3> QED BY <1>5, <2>1, <3>1, <3>3 DEF Computes
  <2> QED BY <1>5, <2>0, <2>1 DEF Computes
<1>7. P(f)
  <2> HIDE DEF S
  <2> QED BY <1>5, <1>6
<1>8. P(CHOOSE g : P(g))
  <2> HIDE DEF P
  <2> QED BY <1>7
<1>9. PICK g : P(g) /\ g = (CHOOSE h : P(h))
  <2> HIDE DEF P
  <2> QED BY <1>8
<1>10. FoldLeft(Apply, d, s) = g[DOMAIN s]
  BY <1>9 DEF FoldLeft, MapThenFoldSet
<1>11. \A t \in SUBSET S : g[t] = f[t]
  <2> DEFINE Good == {t \in SUBSET S : g[t] = f[t]}
  <2>1. {} \in Good
    BY <1>6, <1>9
  <2>2. ASSUME NEW t \in SUBSET S, t # {}, t \ {pick[t]} \in Good PROVE t \in Good
    <3>1. pick[t] = Max(t)
      BY <1>3, <2>2
    <3>2. g[t \ {Max(t)}] = f[t \ {Max(t)}]
      BY <2>2, <3>1
    <3>3. g[t] = Apply(g[t \ {Max(t)}], s[Max(t)])
      BY <1>9, <2>2
    <3>4. f[t] = Apply(f[t \ {Max(t)}], s[Max(t)])
      BY <1>6, <2>2
    <3> QED BY <3>2, <3>3, <3>4
  <2>3. \A t \in SUBSET S : t # {} /\ t \ {pick[t]} \in Good => t \in Good
    BY <2>2
  <2>4. \A t \in SUBSET S : t \in Good
    <3> HIDE DEF Good, pick, S
    <3>1. Picks(pick, S)
      BY <1>3
    <3> QED BY <1>2, <2>1, <2>3, <3>1, SubsetInduction
  <2> QED BY <2>4
<1>12. S \in SUBSET S
  OBVIOUS
<1>13. FoldLeft(Apply, d, s) = f[DOMAIN s]
  BY <1>10, <1>11, <1>12
<1> QED BY <1>5, <1>6, <1>13 DEF Folds

\* h[i] is what the first i commands of s make of d.
Runs(h, d, s) ==
    /\ h \in [0 .. Len(s) -> Tables]
    /\ h[0] = d
    /\ \A i \in 1 .. Len(s) : h[i] = Apply(h[i - 1], s[i])

LEMMA FoldRuns ==
    ASSUME NEW d \in Tables, NEW s \in Seq(Commands)
    PROVE  \E h : Runs(h, d, s) /\ FoldLeft(Apply, d, s) = h[Len(s)]
<1>1. Len(s) \in Nat /\ DOMAIN s = 1 .. Len(s)
  OBVIOUS
<1>2. PICK f : Folds(f, d, s) /\ FoldLeft(Apply, d, s) = f[DOMAIN s]
  BY FoldIs
<1> DEFINE h == [i \in 0 .. Len(s) |-> f[1 .. i]]
<1>3. \A i \in 0 .. Len(s) : (1 .. i) \in SUBSET (DOMAIN s)
  BY <1>1
<1>4. h \in [0 .. Len(s) -> Tables]
  BY <1>2, <1>3 DEF Folds
<1>5. h[0] = d
  <2>1. h[0] = f[1 .. 0] /\ 1 .. 0 = {}
    BY <1>1
  <2> QED BY <1>2, <2>1 DEF Folds
<1>6. ASSUME NEW i \in 1 .. Len(s) PROVE h[i] = Apply(h[i - 1], s[i])
  <2>1. Max(1 .. i) = i /\ (1 .. i) \ {i} = 1 .. (i - 1) /\ 1 .. i # {}
    BY <1>1, MaxFacts
  <2>2. (1 .. i) \in SUBSET (DOMAIN s)
    BY <1>1
  <2>3. f[1 .. i] = Apply(f[1 .. (i - 1)], s[i])
    BY <1>2, <2>1, <2>2 DEF Folds
  <2> QED BY <1>1, <2>3
<1>7. FoldLeft(Apply, d, s) = h[Len(s)]
  BY <1>1, <1>2
<1> QED BY <1>4, <1>5, <1>6, <1>7 DEF Runs

LEMMA FoldIsRun ==
    ASSUME NEW d \in Tables, NEW s \in Seq(Commands), NEW k, Runs(k, d, s)
    PROVE  FoldLeft(Apply, d, s) = k[Len(s)]
<1>1. Len(s) \in Nat
  OBVIOUS
<1>2. PICK h : Runs(h, d, s) /\ FoldLeft(Apply, d, s) = h[Len(s)]
  BY FoldRuns
<1> DEFINE Good == {i \in Nat : i <= Len(s) => h[i] = k[i]}
<1>3. 0 \in Good
  BY <1>1, <1>2 DEF Runs
<1>4. ASSUME NEW i \in Nat, i \in Good PROVE i + 1 \in Good
  <2>1. ASSUME i + 1 <= Len(s) PROVE h[i + 1] = k[i + 1]
    <3>1. i + 1 \in 1 .. Len(s) /\ (i + 1) - 1 = i /\ h[i] = k[i]
      BY <1>1, <1>4, <2>1
    <3>2. h[i + 1] = Apply(h[i], s[i + 1]) /\ k[i + 1] = Apply(k[i], s[i + 1])
      BY <1>2, <3>1 DEF Runs
    <3> QED BY <3>1, <3>2
  <2> QED BY <2>1
<1>5. \A i \in Nat : i \in Good
  <2> HIDE DEF Good
  <2> QED BY <1>3, <1>4, NumberInduction
<1> QED BY <1>1, <1>2, <1>5

\* The tables d once the commands s are applied.
After(d, s) == FoldLeft(Apply, d, s)

\* One more command, and one command that is applied.
LEMMA AfterOne ==
    ASSUME NEW d \in Tables, NEW s \in Seq(Commands)
    PROVE  /\ After(d, s) \in Tables
           /\ After(d, <<>>) = d
           /\ \A c \in Commands : After(d, Append(s, c)) = Apply(After(d, s), c)
           /\ s # <<>> => After(Apply(d, Head(s)), Tail(s)) = After(d, s)
<1>1. PICK h : Runs(h, d, s) /\ After(d, s) = h[Len(s)]
  BY FoldRuns DEF After
<1>2. /\ Len(s) \in Nat /\ DOMAIN s = 1 .. Len(s)
      /\ h \in [0 .. Len(s) -> Tables] /\ h[0] = d
      /\ \A i \in 1 .. Len(s) : h[i] = Apply(h[i - 1], s[i])
  BY <1>1 DEF Runs
<1>3. After(d, s) \in Tables
  BY <1>1, <1>2
<1>4. After(d, <<>>) = d
  <2>1. PICK t \in Seq(Commands) : t = <<>>
    <3>1. <<>> \in Seq(Commands)
      OBVIOUS
    <3> QED BY <3>1
  <2>2. PICK k : Runs(k, d, t) /\ After(d, t) = k[Len(t)]
    BY FoldRuns DEF After
  <2> QED BY <2>1, <2>2 DEF Runs
<1>5. ASSUME NEW c \in Commands PROVE After(d, Append(s, c)) = Apply(After(d, s), c)
  <2>1. PICK t \in Seq(Commands) : t = Append(s, c)
    <3>1. Append(s, c) \in Seq(Commands)
      OBVIOUS
    <3> QED BY <3>1
  <2>2. Len(t) = Len(s) + 1 /\ t[Len(s) + 1] = c /\ \A i \in 1 .. Len(s) : t[i] = s[i]
    BY <2>1
  <2>3. PICK k : Runs(k, d, t) /\ After(d, t) = k[Len(t)]
    BY FoldRuns DEF After
  <2>4. PICK j : j = [i \in 0 .. Len(s) |-> k[i]]
    OBVIOUS
  <2>5. Runs(j, d, s)
    BY <1>2, <2>2, <2>3, <2>4 DEF Runs
  <2>6. After(d, s) = j[Len(s)]
    BY <2>5, FoldIsRun DEF After
  <2>7. k[Len(s) + 1] = Apply(k[Len(s)], c)
    BY <1>2, <2>2, <2>3 DEF Runs
  <2> QED BY <1>2, <2>1, <2>2, <2>3, <2>4, <2>6, <2>7
<1>6. ASSUME s # <<>> PROVE After(Apply(d, Head(s)), Tail(s)) = After(d, s)
  <2>1. PICK t \in Seq(Commands) : t = Tail(s)
    <3>1. Tail(s) \in Seq(Commands)
      BY <1>6
    <3> QED BY <3>1
  <2>2. PICK e : e = Apply(d, Head(s))
    OBVIOUS
  <2>3. /\ Len(s) = Len(t) + 1 /\ Head(s) = s[1] /\ Head(s) \in Commands
        /\ Len(t) \in Nat /\ \A i \in 1 .. Len(t) : t[i] = s[i + 1]
    BY <1>6, <2>1
  <2>4. e \in Tables
    BY <2>2, <2>3, ApplyType
  <2>5. PICK k : k = [i \in 0 .. Len(t) |-> h[i + 1]]
    OBVIOUS
  <2>6. Runs(k, e, t)
    <3>1. k \in [0 .. Len(t) -> Tables]
      BY <1>2, <2>3, <2>5
    <3>2. k[0] = e
      BY <1>2, <2>2, <2>3, <2>5
    <3>3. ASSUME NEW i \in 1 .. Len(t) PROVE k[i] = Apply(k[i - 1], t[i])
      <4>1. i + 1 \in 1 .. Len(s) /\ (i + 1) - 1 = i /\ (i - 1) + 1 = i
        BY <2>3
      <4>2. h[i + 1] = Apply(h[i], s[i + 1])
        BY <1>2, <4>1
      <4> QED BY <2>3, <2>5, <4>1, <4>2
    <3> QED BY <3>1, <3>2, <3>3 DEF Runs
  <2>7. After(e, t) = k[Len(t)]
    BY <2>4, <2>6, FoldIsRun DEF After
  <2> QED BY <1>1, <2>1, <2>2, <2>3, <2>5, <2>7
<1> QED BY <1>3, <1>4, <1>5, <1>6
-----------------------------------------------------------------------------
\* Worlds: what the operations on them change.

LEMMA WorldFields ==
    ASSUME NEW w \in Worlds
    PROVE  /\ w = [parent |-> w.parent, flags |-> w.flags, dirty |-> w.dirty,
                   gone |-> w.gone, missed |-> w.missed]
           /\ w.parent \in [Entities -> Places]
           /\ w.flags \in [Entities -> SUBSET Flags]
           /\ w.dirty \in Seq(Entities)
           /\ w.gone \in Seq(Ids)
           /\ w.missed \in SUBSET Entities
BY DEF Worlds

LEMMA WorldTypes ==
    ASSUME NEW w \in Worlds
    PROVE  /\ Range(w.dirty) \subseteq Entities
           /\ Range(w.gone) \subseteq Ids
           /\ Root \in Entities /\ Ids \subseteq Entities
<1>1. w.dirty \in Seq(Entities) /\ w.gone \in Seq(Ids)
  BY WorldFields
<1> QED BY <1>1 DEF Range, Entities

\* v is w but for the flags of e; w but for a queue or the history; w but for
\* a place.
Reflagged(w, v, e, f) ==
    /\ v \in Worlds /\ v.parent = w.parent /\ v.dirty = w.dirty /\ v.gone = w.gone
    /\ v.missed = w.missed
    /\ v.flags = [w.flags EXCEPT ![e] = f]

Requeued(w, v, d, g, m) ==
    /\ v \in Worlds /\ v.parent = w.parent /\ v.flags = w.flags
    /\ v.dirty = d /\ v.gone = g /\ v.missed = m

Replaced(w, v, e, to) ==
    /\ v \in Worlds /\ v.flags = w.flags /\ v.dirty = w.dirty /\ v.gone = w.gone
    /\ v.missed = w.missed
    /\ v.parent = [w.parent EXCEPT ![e] = to]

\* The last two as the operations write them.
Dirtied(w, e) == [w EXCEPT !.dirty = Append(@, e)]
Doomed(w, e) == [w EXCEPT !.gone = Append(@, e)]
Missing(w, e) == [w EXCEPT !.missed = @ \cup {e}]
Put(w, e, to) == [w EXCEPT !.parent[e] = to]

LEMMA FlagsChange ==
    ASSUME NEW w \in Worlds, NEW e \in Entities, NEW f \in SUBSET Flags
    PROVE  /\ Reflagged(w, AddFlags(w, e, f), e, w.flags[e] \cup f)
           /\ Reflagged(w, RemoveFlags(w, e, f), e, w.flags[e] \ f)
<1>1. AddFlags(w, e, f) \in Worlds
  BY DEF AddFlags, Worlds
<1>2. /\ AddFlags(w, e, f).parent = w.parent
      /\ AddFlags(w, e, f).dirty = w.dirty
      /\ AddFlags(w, e, f).gone = w.gone
      /\ AddFlags(w, e, f).missed = w.missed
  BY DEF AddFlags, Worlds
<1>3. AddFlags(w, e, f).flags = [w.flags EXCEPT ![e] = w.flags[e] \cup f]
  BY DEF AddFlags, Worlds
<1>4. RemoveFlags(w, e, f) \in Worlds
  BY DEF RemoveFlags, Worlds
<1>5. /\ RemoveFlags(w, e, f).parent = w.parent
      /\ RemoveFlags(w, e, f).dirty = w.dirty
      /\ RemoveFlags(w, e, f).gone = w.gone
      /\ RemoveFlags(w, e, f).missed = w.missed
  BY DEF RemoveFlags, Worlds
<1>6. RemoveFlags(w, e, f).flags = [w.flags EXCEPT ![e] = w.flags[e] \ f]
  BY DEF RemoveFlags, Worlds
<1>7. Reflagged(w, AddFlags(w, e, f), e, w.flags[e] \cup f)
  BY <1>1, <1>2, <1>3 DEF Reflagged
<1>8. Reflagged(w, RemoveFlags(w, e, f), e, w.flags[e] \ f)
  BY <1>4, <1>5, <1>6 DEF Reflagged
<1> QED BY <1>7, <1>8

LEMMA QueueChange ==
    ASSUME NEW w \in Worlds, NEW e \in Entities
    PROVE  /\ Requeued(w, Dirtied(w, e), Append(w.dirty, e), w.gone, w.missed)
           /\ e \in Ids => Requeued(w, Doomed(w, e), w.dirty, Append(w.gone, e), w.missed)
           /\ Requeued(w, Missing(w, e), w.dirty, w.gone, w.missed \cup {e})
<1>1. /\ Append(w.dirty, e) \in Seq(Entities)
      /\ e \in Ids => Append(w.gone, e) \in Seq(Ids)
      /\ w.missed \cup {e} \in SUBSET Entities
  BY WorldFields
<1>2. Requeued(w, Dirtied(w, e), Append(w.dirty, e), w.gone, w.missed)
  <2>1. Dirtied(w, e) \in Worlds
    BY <1>1 DEF Worlds, Dirtied
  <2>2. /\ Dirtied(w, e).parent = w.parent
        /\ Dirtied(w, e).flags = w.flags
        /\ Dirtied(w, e).dirty = Append(w.dirty, e)
        /\ Dirtied(w, e).gone = w.gone
        /\ Dirtied(w, e).missed = w.missed
    BY DEF Worlds, Dirtied
  <2> QED BY <2>1, <2>2 DEF Requeued
<1>3. e \in Ids => Requeued(w, Doomed(w, e), w.dirty, Append(w.gone, e), w.missed)
  <2>1. e \in Ids => Doomed(w, e) \in Worlds
    BY <1>1 DEF Worlds, Doomed
  <2>2. /\ Doomed(w, e).parent = w.parent
        /\ Doomed(w, e).flags = w.flags
        /\ Doomed(w, e).dirty = w.dirty
        /\ Doomed(w, e).gone = Append(w.gone, e)
        /\ Doomed(w, e).missed = w.missed
    BY DEF Worlds, Doomed
  <2> QED BY <2>1, <2>2 DEF Requeued
<1>4. Requeued(w, Missing(w, e), w.dirty, w.gone, w.missed \cup {e})
  <2>1. Missing(w, e) \in Worlds
    BY <1>1 DEF Worlds, Missing
  <2>2. /\ Missing(w, e).parent = w.parent
        /\ Missing(w, e).flags = w.flags
        /\ Missing(w, e).dirty = w.dirty
        /\ Missing(w, e).gone = w.gone
        /\ Missing(w, e).missed = w.missed \cup {e}
    BY DEF Worlds, Missing
  <2> QED BY <2>1, <2>2 DEF Requeued
<1> QED BY <1>2, <1>3, <1>4

LEMMA PlaceChange ==
    ASSUME NEW w \in Worlds, NEW e \in Entities, NEW to \in Places
    PROVE  Replaced(w, Put(w, e, to), e, to)
<1>1. Put(w, e, to) \in Worlds
  BY DEF Worlds, Put
<1>2. Put(w, e, to).parent = [w.parent EXCEPT ![e] = to]
  BY DEF Worlds, Put
<1>3. /\ Put(w, e, to).flags = w.flags
      /\ Put(w, e, to).dirty = w.dirty
      /\ Put(w, e, to).gone = w.gone
      /\ Put(w, e, to).missed = w.missed
  BY DEF Worlds, Put
<1> QED BY <1>1, <1>2, <1>3 DEF Replaced

\* entityUpdated, case by case.
LEMMA UpdatedCases ==
    ASSUME NEW w \in Worlds, NEW e \in Entities, NEW v, v = EntityUpdated(w, e),
           "destroyed" \notin w.flags[Root]
    PROVE  /\ v \in Worlds /\ v.parent = w.parent /\ v.missed = w.missed
           /\ \/ "connected" \notin w.flags[e] /\ v = w
              \/ /\ e \in Ids /\ {"connected", "destroyed"} \subseteq w.flags[e]
                 /\ v.flags = w.flags /\ v.dirty = w.dirty /\ v.gone = Append(w.gone, e)
              \/ /\ {"connected", "queued"} \subseteq w.flags[e]
                 /\ "destroyed" \notin w.flags[e]
                 /\ v = w
              \/ /\ "connected" \in w.flags[e] /\ "queued" \notin w.flags[e]
                 /\ "destroyed" \notin w.flags[e]
                 /\ v.flags = [w.flags EXCEPT ![e] = w.flags[e] \cup {"queued"}]
                 /\ v.dirty = Append(w.dirty, e) /\ v.gone = w.gone
<1>1. CASE "connected" \notin w.flags[e]
  BY <1>1 DEF EntityUpdated
<1>2. CASE "connected" \in w.flags[e] /\ "destroyed" \in w.flags[e]
  <2>1. e \in Ids
    BY <1>2 DEF Entities
  <2>2. v = Doomed(w, e)
    BY <1>2 DEF EntityUpdated, Doomed
  <2>3. Requeued(w, v, w.dirty, Append(w.gone, e), w.missed)
    BY <2>1, <2>2, QueueChange
  <2> QED BY <1>2, <2>1, <2>3 DEF Requeued
<1>3. CASE {"connected", "queued"} \subseteq w.flags[e] /\ "destroyed" \notin w.flags[e]
  BY <1>3 DEF EntityUpdated
<1>4. CASE /\ "connected" \in w.flags[e] /\ "destroyed" \notin w.flags[e]
           /\ "queued" \notin w.flags[e]
  <2>1. PICK u : u = Dirtied(w, e)
    OBVIOUS
  <2>2. /\ u \in Worlds /\ u.parent = w.parent /\ u.flags = w.flags
        /\ u.dirty = Append(w.dirty, e) /\ u.gone = w.gone /\ u.missed = w.missed
    BY <2>1, QueueChange DEF Requeued
  <2>3. PICK f \in SUBSET Flags : f = {"queued"}
    BY DEF Flags
  <2>4. v = AddFlags(u, e, f)
    BY <1>4, <2>1, <2>3 DEF EntityUpdated, Dirtied
  <2>5. Reflagged(u, v, e, u.flags[e] \cup f)
    BY <2>2, <2>4, FlagsChange
  <2> QED BY <1>4, <2>2, <2>3, <2>5 DEF Reflagged
<1> QED BY <1>1, <1>2, <1>3, <1>4

-----------------------------------------------------------------------------
\* Worlds: what the operations on them keep.

\* The flags that a signal and a move may change.
Light == {"queued", "clean", "locUnsent", "updateQueued"}

\* From w to v the queues only grow, and no more is marked as stored.
Grows(w, v) ==
    /\ \A x \in Entities :
        /\ v.flags[x] \ Light = w.flags[x] \ Light
        /\ "updateQueued" \in w.flags[x] => "updateQueued" \in v.flags[x]
        /\ "clean" \in v.flags[x] => "clean" \in w.flags[x]
    /\ Range(w.dirty) \subseteq Range(v.dirty)
    /\ Range(w.gone) \subseteq Range(v.gone)
    /\ w.missed \subseteq v.missed
    /\ w.dirty # <<>> => v.dirty # <<>> /\ Head(v.dirty) = Head(w.dirty)

\* Besides the entities in S, only connected ones have changed.
Near(w, v, S) ==
    /\ Grows(w, v)
    /\ \A x \in Entities \ S : "connected" \notin w.flags[x] => v.flags[x] = w.flags[x]

LEMMA NearSelf ==
    ASSUME NEW w, NEW S
    PROVE  Near(w, w, S)
BY DEF Near, Grows

LEMMA NearTrans ==
    ASSUME NEW w, NEW u, NEW v, NEW S, NEW T, Near(w, u, S), Near(u, v, T)
    PROVE  Near(w, v, S \cup T)
<1>1. \A x \in Entities :
        /\ v.flags[x] \ Light = w.flags[x] \ Light
        /\ "updateQueued" \in w.flags[x] => "updateQueued" \in v.flags[x]
        /\ "clean" \in v.flags[x] => "clean" \in w.flags[x]
  BY DEF Near, Grows
<1>2. \A x \in Entities : "connected" \in u.flags[x] <=> "connected" \in w.flags[x]
  <2>1. "connected" \notin Light
    BY DEF Light
  <2> QED BY <2>1 DEF Near, Grows
<1>3. \A x \in Entities \ (S \cup T) : "connected" \notin w.flags[x] => v.flags[x] = w.flags[x]
  BY <1>2 DEF Near
<1>4. Grows(w, v)
  BY <1>1 DEF Near, Grows
<1> QED BY <1>3, <1>4 DEF Near

LEMMA GrowsFlags ==
    ASSUME NEW w, NEW v, Grows(w, v), NEW x \in Entities
    PROVE  \A f : f \notin Light => (f \in v.flags[x] <=> f \in w.flags[x])
BY DEF Grows

LEMMA GrowsKeeps ==
    ASSUME NEW w, NEW k, NEW moving, Kept(w, k, moving), NEW v \in Worlds, Grows(w, v),
           Marked(v, k), NEW S, \A x \in Entities \ S : v.parent[x] = w.parent[x]
    PROVE  Kept(v, k, moving \cup S)
<1> DEFINE same(x, f) == f \in v.flags[x] <=> f \in w.flags[x]
<1>1. \A x \in Entities :
        same(x, "propClean") /\ same(x, "stored") /\ same(x, "ephem")
            /\ same(x, "unsent") /\ same(x, "destroyed")
  <2>1. {"propClean", "stored", "ephem", "unsent", "destroyed"} \cap Light = {}
    BY DEF Light
  <2> QED BY <2>1, GrowsFlags
<1>2. /\ \A x \in Entities : "updateQueued" \in w.flags[x] => "updateQueued" \in v.flags[x]
      /\ \A x \in Entities : "clean" \in v.flags[x] => "clean" \in w.flags[x]
      /\ Range(w.dirty) \subseteq Range(v.dirty)
      /\ Range(w.gone) \subseteq Range(v.gone)
      /\ w.missed \subseteq v.missed
  BY DEF Grows
<1>3. k.live \cup k.new \subseteq Entities /\ k.coming \subseteq k.new
  BY DEF Kept
<1>4. \A x \in Entities : Due(w, k, x) => Due(v, k, x)
  BY <1>2 DEF Due
<1>5. ASSUME NEW x \in Entities PROVE Sound(v, k, moving \cup S, x)
  <2>1. Sound(w, k, moving, x)
    BY DEF Kept
  <2>2. PropKept(w, k, x) => PropKept(v, k, x)
    BY <1>1, <1>2, <1>4 DEF PropKept
  <2>3. Stored(w, k, x) => Stored(v, k, x)
    BY <1>1, <1>2, <2>2 DEF Stored
  <2>4. x \notin S /\ RowKept(w, k, x) => RowKept(v, k, x)
    BY <1>4 DEF RowKept
  <2>5. Dropped(w, k, x) => Dropped(v, k, x)
    BY <1>1, <1>2 DEF Dropped
  <2> QED BY <1>1, <1>2, <2>1, <2>3, <2>4, <2>5 DEF Sound
<1> QED BY <1>3, <1>5 DEF Kept

\* StorageManager::entityUpdated
LEMMA UpdatedKeeps ==
    ASSUME NEW w, NEW k, NEW moving, Kept(w, k, moving),
           NEW e \in Entities, NEW v, v = EntityUpdated(w, e)
    PROVE  /\ Kept(v, k, moving)
           /\ Near(w, v, {})
           /\ v.parent = w.parent /\ v.missed = w.missed
           /\ /\ "connected" \in w.flags[e] /\ "destroyed" \notin w.flags[e]
              /\ ~("queued" \in w.flags[e] /\ e \in k.busy)
              => e \in Range(v.dirty) \ k.busy
           /\ {"connected", "destroyed"} \subseteq w.flags[e] => e \in Range(v.gone)
<1>1. w \in Worlds /\ "destroyed" \notin w.flags[Root] /\ Marked(w, k)
  BY DEF Kept, Marked
<1>2. /\ w.flags \in [Entities -> SUBSET Flags]
      /\ w.dirty \in Seq(Entities) /\ w.gone \in Seq(Ids)
  BY <1>1, WorldFields
<1>3. /\ Range(w.dirty) \subseteq Entities /\ Range(w.gone) \subseteq Ids /\ Root \in Entities
      /\ Ids \subseteq Entities /\ k.live \cup k.new \subseteq Entities /\ k.coming \subseteq k.new
  BY <1>1, WorldTypes DEF Kept
<1>4. /\ v \in Worlds /\ v.parent = w.parent /\ v.missed = w.missed
      /\ \/ "connected" \notin w.flags[e] /\ v = w
         \/ /\ e \in Ids /\ {"connected", "destroyed"} \subseteq w.flags[e]
            /\ v.flags = w.flags /\ v.dirty = w.dirty /\ v.gone = Append(w.gone, e)
         \/ /\ {"connected", "queued"} \subseteq w.flags[e]
            /\ "destroyed" \notin w.flags[e]
            /\ v = w
         \/ /\ "connected" \in w.flags[e] /\ "queued" \notin w.flags[e]
            /\ "destroyed" \notin w.flags[e]
            /\ v.flags = [w.flags EXCEPT ![e] = w.flags[e] \cup {"queued"}]
            /\ v.dirty = Append(w.dirty, e) /\ v.gone = w.gone
  BY <1>1, UpdatedCases
<1>5. CASE "connected" \notin w.flags[e] /\ v = w
  BY <1>5, NearSelf
<1>6. CASE /\ e \in Ids /\ {"connected", "destroyed"} \subseteq w.flags[e]
           /\ v.flags = w.flags /\ v.dirty = w.dirty /\ v.gone = Append(w.gone, e)
  <2>1. Range(v.gone) = Range(w.gone) \cup {e}
    BY <1>2, <1>6, AppendRange
  <2>2. Near(w, v, {}) /\ e \in Range(v.gone)
    BY <1>4, <1>6, <2>1 DEF Near, Grows
  <2>3. Marked(v, k)
    BY <1>1, <1>6, <2>1 DEF Marked
  <2>4. Kept(v, k, moving \cup {})
    BY <1>4, <2>2, <2>3, GrowsKeeps DEF Near
  <2>5. moving \cup {} = moving
    OBVIOUS
  <2> QED BY <1>4, <1>6, <2>2, <2>4, <2>5
<1>7. CASE /\ {"connected", "queued"} \subseteq w.flags[e]
           /\ "destroyed" \notin w.flags[e]
           /\ v = w
  <2>1. e \in Range(w.dirty)
    BY <1>1, <1>7 DEF Marked
  <2> QED BY <1>7, <2>1, NearSelf
<1>8. CASE /\ "connected" \in w.flags[e] /\ "queued" \notin w.flags[e]
           /\ "destroyed" \notin w.flags[e]
           /\ v.flags = [w.flags EXCEPT ![e] = w.flags[e] \cup {"queued"}]
           /\ v.dirty = Append(w.dirty, e) /\ v.gone = w.gone
  <2>1. Range(v.dirty) = Range(w.dirty) \cup {e} /\ e \notin Range(w.dirty)
    BY <1>1, <1>2, <1>8, AppendRange DEF Marked
  <2>2. /\ v.flags[e] = w.flags[e] \cup {"queued"}
        /\ \A x \in Entities \ {e} : v.flags[x] = w.flags[x]
    BY <1>2, <1>8
  <2>3. \A x \in Entities : \A f : f # "queued" => (f \in v.flags[x] <=> f \in w.flags[x])
    BY <2>2
  <2>4. w.dirty # <<>> => v.dirty # <<>> /\ Head(v.dirty) = Head(w.dirty)
    BY <1>2, <1>8
  <2>5. \A x \in Entities : v.flags[x] \ Light = w.flags[x] \ Light
    BY <2>3 DEF Light
  <2>6. Near(w, v, {})
    BY <1>4, <1>8, <2>1, <2>2, <2>3, <2>4, <2>5 DEF Near, Grows
  <2>7. IsInjective(v.dirty)
    BY <1>1, <1>2, <1>8, <2>1, AppendRange DEF Marked
  <2>8. \A x \in Entities : x \in Range(v.dirty) <=> {"connected", "queued"} \subseteq v.flags[x]
    <3>1. \A x \in Entities \ {e} : x \in Range(v.dirty) <=> {"connected", "queued"} \subseteq v.flags[x]
      BY <1>1, <2>1, <2>2 DEF Marked
    <3> QED BY <1>8, <2>1, <2>2, <3>1
  <2>9. Marked(v, k)
    <3>1. /\ \A x \in Entities : /\ "connected" \in v.flags[x] => "stored" \in v.flags[x]
                                 /\ "stored" \in v.flags[x] => "ephem" \notin v.flags[x]
          /\ \A x \in k.new : v.flags[x] \cap {"connected", "ephem"} = {}
          /\ \A x \in k.coming : "stored" \in v.flags[x]
      BY <1>1, <1>3, <2>3 DEF Marked
    <3>2. \A x \in k.live : /\ "destroyed" \notin v.flags[x]
                            /\ x \in k.new \/ v.flags[x] \cap {"connected", "ephem"} # {}
      BY <1>1, <1>3, <2>2 DEF Marked
    <3>3. /\ \A x \in Range(v.gone) : "destroyed" \in v.flags[x]
          /\ "connected" \in v.flags[Root] /\ "destroyed" \notin v.flags[Root]
          /\ k.busy \subseteq Range(v.dirty)
      BY <1>1, <1>3, <1>8, <2>1, <2>3 DEF Marked
    <3> QED BY <2>7, <2>8, <3>1, <3>2, <3>3 DEF Marked
  <2>10. Kept(v, k, moving \cup {})
    BY <1>4, <2>6, <2>9, GrowsKeeps DEF Near
  <2>11. moving \cup {} = moving
    OBVIOUS
  <2>12. e \notin k.busy
    BY <1>1, <2>1 DEF Marked
  <2> QED BY <1>4, <1>8, <2>1, <2>6, <2>10, <2>11, <2>12
<1> QED BY <1>4, <1>5, <1>6, <1>7, <1>8

\* The history changes.
LEMMA MissingKeeps ==
    ASSUME NEW w, NEW k, NEW moving, Kept(w, k, moving), NEW e \in Entities,
           NEW v, v = Missing(w, e)
    PROVE  /\ Kept(v, k, moving)
           /\ Near(w, v, {})
           /\ v.parent = w.parent /\ v.flags = w.flags /\ v.missed = w.missed \cup {e}
<1>1. Requeued(w, v, w.dirty, w.gone, w.missed \cup {e})
  BY QueueChange DEF Kept
<1>2. Near(w, v, {}) /\ v \in Worlds /\ v.parent = w.parent
  BY <1>1 DEF Near, Grows, Requeued
<1>3. Marked(v, k)
  BY <1>1 DEF Kept, Marked, Requeued
<1>4. Kept(v, k, moving \cup {}) /\ moving \cup {} = moving
  BY <1>2, <1>3, GrowsKeeps DEF Near
<1> QED BY <1>1, <1>2, <1>4 DEF Requeued

\* The setting k is that of the step.
Now(k) ==
    /\ k.coming = (IF tick = "inserted" THEN {Head(unstored)} ELSE {})
    /\ k.busy = (IF tick = "updated" THEN {Head(dirty)} ELSE {})

\* Whoever has changed is on a queue then, or nobody was told.
LEMMA SignalKeeps ==
    ASSUME NEW w, NEW k, NEW moving, Kept(w, k, moving), Now(k),
           NEW e \in Entities, NEW signal, NEW v, v = Signal(w, e, signal)
    PROVE  /\ Kept(v, k, moving)
           /\ Near(w, v, {})
           /\ v.parent = w.parent
           /\ /\ "stored" \in w.flags[e] /\ "destroyed" \notin w.flags[e]
              /\ e \in k.new \/ "connected" \in w.flags[e]
              /\ signal = "containered" \/ e \notin k.new \ k.coming
              => e \in v.missed \cup (Range(v.dirty) \ k.busy)
           /\ e \in Ids /\ {"stored", "destroyed"} \subseteq w.flags[e]
              => e \in v.missed \cup Range(v.gone)
<1>1. PICK u : u = IF Unheard(w, e, signal) THEN Missing(w, e) ELSE w
  OBVIOUS
<1>2. w \in Worlds /\ w = [parent |-> w.parent, flags |-> w.flags, dirty |-> w.dirty,
                           gone |-> w.gone, missed |-> w.missed]
  BY WorldFields DEF Kept
<1>3. v = EntityUpdated(u, e)
  <2>1. CASE Unheard(w, e, signal)
    BY <1>1, <2>1 DEF Signal, Missing
  <2>2. CASE ~Unheard(w, e, signal)
    <3>1. [w EXCEPT !.missed = IF Unheard(w, e, signal) THEN @ \cup {e} ELSE @] = w
      BY <1>2, <2>2
    <3> QED BY <1>1, <2>2, <3>1 DEF Signal
  <2> QED BY <2>1, <2>2
<1>4. /\ Kept(u, k, moving) /\ Near(w, u, {}) /\ u.parent = w.parent /\ u.flags = w.flags
      /\ Unheard(w, e, signal) => e \in u.missed
  <2>1. CASE u = Missing(w, e)
    BY <2>1, MissingKeeps
  <2>2. CASE u = w /\ ~Unheard(w, e, signal)
    BY <2>2, NearSelf
  <2> QED BY <1>1, <2>1, <2>2
<1>5. /\ Kept(v, k, moving)
      /\ Near(u, v, {})
      /\ v.parent = u.parent /\ v.missed = u.missed
      /\ /\ "connected" \in u.flags[e] /\ "destroyed" \notin u.flags[e]
         /\ ~("queued" \in u.flags[e] /\ e \in k.busy)
         => e \in Range(v.dirty) \ k.busy
      /\ {"connected", "destroyed"} \subseteq u.flags[e] => e \in Range(v.gone)
  BY <1>3, <1>4, UpdatedKeeps
<1>6. Near(w, v, {} \cup {}) /\ {} \cup {} = {}
  BY <1>4, <1>5, NearTrans
<1>7. Unheard(w, e, signal) => e \in v.missed
  BY <1>4, <1>5
<1>8. Marked(w, k)
  BY DEF Kept
<1>9. ASSUME "stored" \in w.flags[e], "destroyed" \notin w.flags[e],
             e \in k.new \/ "connected" \in w.flags[e],
             signal = "containered" \/ e \notin k.new \ k.coming
      PROVE  e \in v.missed \cup (Range(v.dirty) \ k.busy)
  <2>2. CASE "connected" \notin w.flags[e]
    <3>1. signal = "containered" \/ e \in k.coming
      BY <1>9, <2>2
    <3>2. Unheard(w, e, signal)
      BY <1>9, <2>2, <3>1 DEF Unheard, Now
    <3> QED BY <1>7, <3>2
  <2>3. CASE "connected" \in w.flags[e] /\ "queued" \in w.flags[e] /\ e \in k.busy
    <3>1. Unheard(w, e, signal)
      BY <1>9, <2>3 DEF Unheard, Now
    <3> QED BY <1>7, <3>1
  <2>4. CASE "connected" \in w.flags[e] /\ ~("queued" \in w.flags[e] /\ e \in k.busy)
    BY <1>4, <1>5, <1>9, <2>4
  <2> QED BY <2>2, <2>3, <2>4
<1>10. ASSUME e \in Ids, {"stored", "destroyed"} \subseteq w.flags[e]
       PROVE  e \in v.missed \cup Range(v.gone)
  <2>1. CASE "connected" \notin w.flags[e]
    <3>1. Unheard(w, e, signal)
      BY <1>10, <2>1 DEF Unheard
    <3> QED BY <1>7, <3>1
  <2>2. CASE "connected" \in w.flags[e]
    BY <1>4, <1>5, <1>10, <2>2
  <2> QED BY <2>1, <2>2
<1> QED BY <1>4, <1>5, <1>6, <1>9, <1>10

\* A place changes.
LEMMA PutKeeps ==
    ASSUME NEW w, NEW k, NEW moving, Kept(w, k, moving),
           NEW e \in Entities, NEW to \in Places, NEW v, Replaced(w, v, e, to)
    PROVE  /\ Kept(v, k, moving \cup {e})
           /\ Near(w, v, {})
<1>1. w \in Worlds /\ w.parent \in [Entities -> Places]
  BY WorldFields DEF Kept
<1>2. /\ v \in Worlds /\ v.flags = w.flags /\ v.dirty = w.dirty /\ v.gone = w.gone
      /\ v.missed = w.missed
      /\ \A x \in Entities \ {e} : v.parent[x] = w.parent[x]
  BY <1>1 DEF Replaced
<1>3. Marked(v, k)
  BY <1>2 DEF Kept, Marked
<1>4. Near(w, v, {})
  BY <1>2 DEF Near, Grows
<1> QED BY <1>2, <1>3, <1>4, GrowsKeeps DEF Near

\* Flags change that no queue depends on, or in the direction that asks for
\* more to be written.
Harmless(f, g) ==
    /\ f \ {"locUnsent", "updateQueued", "clean"} = g \ {"locUnsent", "updateQueued", "clean"}
    /\ "updateQueued" \in f => "updateQueued" \in g
    /\ "clean" \in g => "clean" \in f

\* Marks that depend on flags the change leaves alone.
LEMMA MarksStay ==
    ASSUME NEW w, NEW k, NEW moving, Kept(w, k, moving), NEW v, v.dirty = w.dirty, v.gone = w.gone,
           \A x \in Entities :
                \A f \in {"connected", "queued", "stored", "ephem", "destroyed"} :
                    f \in v.flags[x] <=> f \in w.flags[x]
    PROVE  Marked(v, k)
<1>1. Marked(w, k) /\ w \in Worlds /\ k.live \cup k.new \subseteq Entities /\ k.coming \subseteq k.new
  BY DEF Kept
<1>2. Range(w.gone) \subseteq Entities /\ Root \in Entities
  BY <1>1, WorldTypes
<1>3. \A x \in Entities :
        /\ "connected" \in v.flags[x] <=> "connected" \in w.flags[x]
        /\ "queued" \in v.flags[x] <=> "queued" \in w.flags[x]
        /\ "stored" \in v.flags[x] <=> "stored" \in w.flags[x]
        /\ "ephem" \in v.flags[x] <=> "ephem" \in w.flags[x]
        /\ "destroyed" \in v.flags[x] <=> "destroyed" \in w.flags[x]
  OBVIOUS
<1>4. \A x \in Entities :
        /\ x \in Range(v.dirty) <=> {"connected", "queued"} \subseteq v.flags[x]
        /\ "connected" \in v.flags[x] => "stored" \in v.flags[x]
        /\ "stored" \in v.flags[x] => "ephem" \notin v.flags[x]
  BY <1>1, <1>3 DEF Marked
<1>5. /\ \A x \in k.new : v.flags[x] \cap {"connected", "ephem"} = {}
      /\ \A x \in k.coming : "stored" \in v.flags[x]
  BY <1>1, <1>3 DEF Marked
<1>6. ASSUME NEW x \in k.live
      PROVE  /\ "destroyed" \notin v.flags[x]
             /\ x \in k.new \/ v.flags[x] \cap {"connected", "ephem"} # {}
  <2>1. /\ "destroyed" \notin w.flags[x] /\ x \in Entities
        /\ x \in k.new \/ "connected" \in w.flags[x] \/ "ephem" \in w.flags[x]
    BY <1>1 DEF Marked
  <2> QED BY <1>3, <2>1
<1>7. /\ \A x \in Range(v.gone) : "destroyed" \in v.flags[x]
      /\ "connected" \in v.flags[Root] /\ "destroyed" \notin v.flags[Root]
      /\ k.busy \subseteq Range(v.dirty)
      /\ IsInjective(v.dirty)
  BY <1>1, <1>2, <1>3 DEF Marked
<1> QED BY <1>4, <1>5, <1>6, <1>7 DEF Marked

LEMMA FlagsKeep ==
    ASSUME NEW w, NEW k, NEW moving, Kept(w, k, moving),
           NEW e \in Entities, NEW f, Harmless(w.flags[e], f), NEW v, Reflagged(w, v, e, f)
    PROVE  /\ Kept(v, k, moving)
           /\ Near(w, v, {e})
<1>1. w.flags \in [Entities -> SUBSET Flags]
  BY WorldFields DEF Kept
<1>2. /\ v \in Worlds /\ v.parent = w.parent /\ v.dirty = w.dirty /\ v.gone = w.gone
      /\ v.missed = w.missed
      /\ v.flags[e] = f
      /\ \A x \in Entities \ {e} : v.flags[x] = w.flags[x]
  BY <1>1 DEF Reflagged
<1>3. \A x \in Entities : Harmless(w.flags[x], v.flags[x])
  BY <1>1, <1>2 DEF Harmless
<1>4. \A x \in Entities : \A g :
        g \notin {"locUnsent", "updateQueued", "clean"} => (g \in v.flags[x] <=> g \in w.flags[x])
  BY <1>3 DEF Harmless
<1>5. Marked(v, k)
  BY <1>2, <1>4, MarksStay
<1>6. \A x \in Entities : v.flags[x] \ Light = w.flags[x] \ Light
  BY <1>4 DEF Light
<1>7. Near(w, v, {e})
  BY <1>2, <1>3, <1>6 DEF Near, Grows, Harmless
<1>8. Kept(v, k, moving \cup {}) /\ moving \cup {} = moving
  BY <1>2, <1>5, <1>7, GrowsKeeps DEF Near
<1> QED BY <1>7, <1>8

\* The entity that was moved is to be written.
LEMMA Arrived ==
    ASSUME NEW w, NEW k, NEW e, Kept(w, k, {e}),
           e \in k.live \ w.missed /\ "stored" \in w.flags[e] => RowKept(w, k, e)
    PROVE  Kept(w, k, {})
BY DEF Kept, Sound

\* LocatedEntity::removeChild
LEMMA RemoveChildKeeps ==
    ASSUME NEW w, NEW k, NEW e \in Entities, Kept(w, k, {}),
           w.parent[e] # Nowhere, NEW v, v = RemoveChild(w, e)
    PROVE  /\ Kept(v, k, {e})
           /\ Near(w, v, {})
           /\ v.parent = [w.parent EXCEPT ![e] = Nowhere]
<1>1. w \in Worlds /\ w.parent[e] \in Entities /\ Nowhere \in Places
  BY WorldFields DEF Kept, Places
<1>2. PICK u : u = Put(w, e, Nowhere)
  OBVIOUS
<1>3. Replaced(w, u, e, Nowhere)
  BY <1>1, <1>2, PlaceChange
<1>4. Kept(u, k, {} \cup {e}) /\ Near(w, u, {})
  BY <1>1, <1>3, PutKeeps
<1>5. Kept(u, k, {e}) /\ u.parent = [w.parent EXCEPT ![e] = Nowhere]
  <2>1. {} \cup {e} = {e}
    OBVIOUS
  <2> QED BY <1>3, <1>4, <2>1 DEF Replaced
<1>6. v = u \/ v = EntityUpdated(u, w.parent[e])
  BY <1>2 DEF RemoveChild, Put
<1>7. CASE v = u
  BY <1>4, <1>5, <1>7
<1>8. CASE v = EntityUpdated(u, w.parent[e])
  <2>1. PICK x \in Entities : x = w.parent[e]
    BY <1>1
  <2>2. v = EntityUpdated(u, x)
    BY <1>8, <2>1
  <2>3. Kept(v, k, {e}) /\ Near(u, v, {}) /\ v.parent = u.parent
    BY <1>5, <2>2, UpdatedKeeps
  <2>4. Near(w, v, {} \cup {}) /\ {} \cup {} = {}
    BY <1>4, <2>3, NearTrans
  <2> QED BY <1>5, <2>3, <2>4
<1> QED BY <1>6, <1>7, <1>8

\* From w to v, e has come into to; and no others than e and connected
\* entities have changed.
PutIn(w, v, e, to) == v.parent = [w.parent EXCEPT ![e] = to]

Moved(w, v, e, to) == Near(w, v, {e}) /\ PutIn(w, v, e, to)

\* LocatedEntity::addChild
LEMMA AddChildKeeps ==
    ASSUME NEW w, NEW k, NEW e \in Entities, Kept(w, k, {e}),
           NEW to \in Entities, NEW v, v = AddChild(w, e, to)
    PROVE  /\ Kept(v, k, {e})
           /\ Near(w, v, {})
           /\ PutIn(w, v, e, to)
<1>1. PICK u : u = IF Children(w, to) = {} THEN EntityUpdated(w, to) ELSE w
  OBVIOUS
<1>2. Kept(u, k, {e}) /\ Near(w, u, {}) /\ u.parent = w.parent
  <2>1. CASE u = w
    BY <2>1, NearSelf
  <2>2. CASE u = EntityUpdated(w, to)
    BY <2>2, UpdatedKeeps
  <2> QED BY <1>1, <2>1, <2>2
<1>3. v = Put(u, e, to)
  BY <1>1 DEF AddChild, Put
<1>4. to \in Places /\ u \in Worlds
  BY <1>2 DEF Places, Kept
<1>5. Replaced(u, v, e, to)
  BY <1>3, <1>4, PlaceChange
<1>6. Kept(v, k, {e} \cup {e}) /\ Near(u, v, {})
  BY <1>2, <1>4, <1>5, PutKeeps
<1>7. Near(w, v, {} \cup {})
  BY <1>2, <1>6, NearTrans
<1>8. {} \cup {} = {} /\ {e} \cup {e} = {e}
  OBVIOUS
<1>9. PutIn(w, v, e, to)
  BY <1>2, <1>5 DEF Replaced, PutIn
<1> QED BY <1>6, <1>7, <1>8, <1>9

\* "loc" is unsent, an Update op is on its way; the entity is not clean.
Flagged(w, e, f) == AddFlags(w, e, {f})
Unclean(w, e) == RemoveFlags(w, e, {"clean"})

LEMMA AddedKeeps ==
    ASSUME NEW w, NEW k, NEW moving, Kept(w, k, moving),
           NEW e \in Entities, NEW f \in {"locUnsent", "updateQueued"},
           NEW v, v = Flagged(w, e, f)
    PROVE  Kept(v, k, moving) /\ Near(w, v, {e}) /\ v.parent = w.parent
<1>1. w \in Worlds
  BY DEF Kept
<1>2. PICK g \in SUBSET Flags : g = {f}
  BY DEF Flags
<1>3. PICK h : h = w.flags[e] \cup g
  OBVIOUS
<1>4. Reflagged(w, v, e, h)
  BY <1>1, <1>2, <1>3, FlagsChange DEF Flagged
<1>5. Harmless(w.flags[e], h)
  BY <1>2, <1>3 DEF Harmless
<1>6. Kept(v, k, moving) /\ Near(w, v, {e})
  BY <1>4, <1>5, FlagsKeep
<1> QED BY <1>4, <1>6 DEF Reflagged

LEMMA UncleanKeeps ==
    ASSUME NEW w, NEW k, NEW moving, Kept(w, k, moving),
           NEW e \in Entities, NEW v, v = Unclean(w, e)
    PROVE  /\ Kept(v, k, moving)
           /\ Near(w, v, {e}) /\ v.parent = w.parent
           /\ "clean" \notin v.flags[e]
<1>1. w \in Worlds /\ w.flags \in [Entities -> SUBSET Flags]
  BY WorldFields DEF Kept
<1>2. PICK g \in SUBSET Flags : g = {"clean"}
  BY DEF Flags
<1>3. PICK h : h = w.flags[e] \ g
  OBVIOUS
<1>4. Reflagged(w, v, e, h)
  BY <1>1, <1>2, <1>3, FlagsChange DEF Unclean
<1>5. Harmless(w.flags[e], h)
  BY <1>2, <1>3 DEF Harmless
<1>6. Kept(v, k, moving) /\ Near(w, v, {e})
  BY <1>4, <1>5, FlagsKeep
<1> QED BY <1>1, <1>2, <1>3, <1>4, <1>6 DEF Reflagged

\* LocatedEntity::changeContainer
LEMMA ChangeContainerKeeps ==
    ASSUME NEW w, NEW k, NEW e \in Entities, Kept(w, k, {}), Now(k),
           NEW to \in Entities, NEW v, v = ChangeContainer(w, e, to)
    PROVE  Kept(v, k, {}) /\ Moved(w, v, e, to)
<1>1. PICK w1 : w1 = IF w.parent[e] = Nowhere THEN w ELSE RemoveChild(w, e)
  OBVIOUS
<1>2. /\ Kept(w1, k, {e})
      /\ Near(w, w1, {})
      /\ \A x \in Entities \ {e} : w1.parent[x] = w.parent[x]
      /\ w1.parent \in [Entities -> Places] /\ w.parent \in [Entities -> Places]
  <2>1. w \in Worlds /\ w.parent \in [Entities -> Places]
    BY WorldFields DEF Kept
  <2>2. CASE w.parent[e] = Nowhere
    <3>1. Kept(w, k, {e})
      BY DEF Kept, Sound
    <3> QED BY <1>1, <2>1, <2>2, <3>1, NearSelf
  <2>3. CASE w.parent[e] # Nowhere
    <3>1. w1 = RemoveChild(w, e)
      BY <1>1, <2>3
    <3>2. /\ Kept(w1, k, {e})
          /\ Near(w, w1, {}) /\ w1.parent = [w.parent EXCEPT ![e] = Nowhere]
      BY <2>3, <3>1, RemoveChildKeeps
    <3> QED BY <2>1, <3>2 DEF Places
  <2> QED BY <2>2, <2>3
<1>3. PICK w2 : w2 = AddChild(w1, e, to)
  OBVIOUS
<1>4. Kept(w2, k, {e}) /\ Near(w1, w2, {}) /\ PutIn(w1, w2, e, to)
  BY <1>2, <1>3, AddChildKeeps
<1>5. PICK w3 : w3 = Flagged(w2, e, "locUnsent")
  OBVIOUS
<1>6. Kept(w3, k, {e}) /\ Near(w2, w3, {e}) /\ w3.parent = w2.parent
  BY <1>4, <1>5, AddedKeeps
<1>7. PICK w4 : w4 = Unclean(w3, e)
  OBVIOUS
<1>8. /\ Kept(w4, k, {e}) /\ Near(w3, w4, {e}) /\ w4.parent = w3.parent
      /\ "clean" \notin w4.flags[e]
  BY <1>6, <1>7, UncleanKeeps
<1>9. v = Signal(w4, e, "containered")
  BY <1>1, <1>3, <1>5, <1>7 DEF ChangeContainer, Flagged, Unclean
<1>10. /\ Kept(v, k, {e}) /\ Near(w4, v, {}) /\ v.parent = w4.parent
       /\ e \in k.live /\ "stored" \in w4.flags[e]
            => e \in v.missed \cup (Range(v.dirty) \ k.busy)
  <2>1. /\ Kept(v, k, {e}) /\ Near(w4, v, {}) /\ v.parent = w4.parent
        /\ /\ "stored" \in w4.flags[e] /\ "destroyed" \notin w4.flags[e]
           /\ e \in k.new \/ "connected" \in w4.flags[e]
           => e \in v.missed \cup (Range(v.dirty) \ k.busy)
    BY <1>8, <1>9, SignalKeeps
  <2>2. e \in k.live /\ "stored" \in w4.flags[e]
            => /\ "destroyed" \notin w4.flags[e]
               /\ e \in k.new \/ "connected" \in w4.flags[e]
    BY <1>8 DEF Kept, Marked
  <2> QED BY <2>1, <2>2
<1>11. "clean" \notin v.flags[e] /\ ("stored" \in v.flags[e] <=> "stored" \in w4.flags[e])
  <2>1. "stored" \notin Light
    BY DEF Light
  <2> QED BY <1>8, <1>10, <2>1 DEF Near, Grows
<1>12. Kept(v, k, {})
  BY <1>10, <1>11, Arrived DEF RowKept, Due
<1>13. Near(w, v, {e})
  <2>1. Near(w, w2, {} \cup {})
    BY <1>2, <1>4, NearTrans
  <2>2. Near(w2, w4, {e} \cup {e})
    BY <1>6, <1>8, NearTrans
  <2>3. Near(w, w4, ({} \cup {}) \cup ({e} \cup {e}))
    BY <2>1, <2>2, NearTrans
  <2>4. Near(w, v, (({} \cup {}) \cup ({e} \cup {e})) \cup {})
    BY <1>10, <2>3, NearTrans
  <2>5. (({} \cup {}) \cup ({e} \cup {e})) \cup {} = {e}
    OBVIOUS
  <2> QED BY <2>4, <2>5
<1>14. v.parent = [w.parent EXCEPT ![e] = to]
  <2>1. v.parent = [w1.parent EXCEPT ![e] = to]
    BY <1>4, <1>6, <1>8, <1>10 DEF PutIn
  <2> QED BY <1>2, <2>1
<1> QED BY <1>12, <1>13, <1>14 DEF Moved, PutIn

\* LocatedEntity::moveOurselves
LEMMA MoveOurselvesKeeps ==
    ASSUME NEW w, NEW k, NEW e \in Entities, Kept(w, k, {}), Now(k),
           NEW to \in Entities, NEW v, v = MoveOurselves(w, e, to)
    PROVE  Kept(v, k, {}) /\ Moved(w, v, e, to)
<1>1. PICK w1 : w1 = ChangeContainer(w, e, to)
  OBVIOUS
<1>2. Kept(w1, k, {}) /\ Moved(w, w1, e, to)
  BY <1>1, ChangeContainerKeeps
<1>3. PICK w2 : w2 = Flagged(w1, e, "updateQueued")
  OBVIOUS
<1>4. Kept(w2, k, {}) /\ Near(w1, w2, {e}) /\ w2.parent = w1.parent
  BY <1>2, <1>3, AddedKeeps
<1>5. PICK w3 : w3 = Unclean(w2, e)
  OBVIOUS
<1>6. Kept(w3, k, {}) /\ Near(w2, w3, {e}) /\ w3.parent = w2.parent
  BY <1>4, <1>5, UncleanKeeps
<1>7. v = Signal(w3, e, "updated")
  BY <1>1, <1>3, <1>5 DEF MoveOurselves, Flagged, Unclean
<1>8. Kept(v, k, {}) /\ Near(w3, v, {}) /\ v.parent = w3.parent
  BY <1>6, <1>7, SignalKeeps
<1>9. Near(w, v, {e})
  <2>1. Near(w, w2, {e} \cup {e})
    BY <1>2, <1>4, NearTrans DEF Moved
  <2>2. Near(w2, v, {e} \cup {})
    BY <1>6, <1>8, NearTrans
  <2>3. Near(w, v, ({e} \cup {e}) \cup ({e} \cup {}))
    BY <2>1, <2>2, NearTrans
  <2>4. ({e} \cup {e}) \cup ({e} \cup {}) = {e}
    OBVIOUS
  <2> QED BY <2>3, <2>4
<1> QED BY <1>2, <1>4, <1>6, <1>8, <1>9 DEF Moved, PutIn

\* The world g after the entities in t have moved from w to a place.
MovedAll(w, g, t, to) ==
    /\ Near(w, g, t)
    /\ \A x \in Entities : g.parent[x] = IF x \in t THEN to ELSE w.parent[x]

\* destroy(): everything in e moves to where e is.
LEMMA EmptyKeeps ==
    ASSUME NEW w, NEW k, NEW e \in Entities, Kept(w, k, {}), Now(k),
           w.parent[e] \in Entities, NEW v, v = Empty(w, e)
    PROVE  /\ Kept(v, k, {})
           /\ MovedAll(w, v, Children(w, e), w.parent[e])
<1>1. PICK to \in Entities : to = w.parent[e]
  OBVIOUS
<1>2. PICK S : S = Children(w, e)
  OBVIOUS
<1>3. IsFiniteSet(S) /\ S \subseteq Ids /\ S \subseteq Entities
  <2>1. S \in SUBSET Ids
    BY <1>2 DEF Children
  <2>2. IsFiniteSet(Ids)
    BY StorageManagerAssumption, FS_Interval DEF Ids
  <2> QED BY <2>1, <2>2, FS_Subset DEF Entities
<1> DEFINE D == {x \in Worlds : Kept(x, k, {})}
           pick == [t \in SUBSET S |-> CHOOSE x \in t : TRUE]
           step == [z \in D \X S |-> MoveOurselves(z[1], z[2], to)]
           P(g) == g = [t \in SUBSET Children(w, e) |->
                          IF t = {} THEN w
                          ELSE MoveOurselves(g[t \ {CHOOSE x \in t : TRUE}],
                                             CHOOSE x \in t : TRUE, w.parent[e])]
<1>4. w \in D
  BY DEF Kept
<1>5. ASSUME NEW x \in D, NEW c \in S
      PROVE  MoveOurselves(x, c, to) \in D /\ Moved(x, MoveOurselves(x, c, to), c, to)
  <2>1. Kept(x, k, {}) /\ c \in Entities
    BY <1>3
  <2>2. PICK y : y = MoveOurselves(x, c, to)
    OBVIOUS
  <2>3. Kept(y, k, {}) /\ Moved(x, y, c, to)
    BY <2>1, <2>2, MoveOurselvesKeeps
  <2>4. y \in D
    BY <2>3 DEF Kept
  <2> QED BY <2>2, <2>3, <2>4
<1>6. Picks(pick, S)
  BY DEF Picks
<1>7. \A t \in SUBSET S : pick[t] = CHOOSE x \in t : TRUE
  OBVIOUS
<1>8. /\ step \in [D \X S -> D]
      /\ \A z \in D \X S : step[z] = MoveOurselves(z[1], z[2], to)
  <2>1. \A z \in D \X S : MoveOurselves(z[1], z[2], to) \in D
    <3> HIDE DEF D
    <3> QED BY <1>5
  <2> HIDE DEF D
  <2> QED BY <2>1
<1>9. PICK f : Computes(f, S, pick, D, w, step)
  <2> HIDE DEF D, pick, step
  <2> QED BY <1>3, <1>4, <1>6, <1>8, FoldExists
<1>10. P(f)
  <2>0. f \in [SUBSET S -> D]
    BY <1>9 DEF Computes
  <2>1. ASSUME NEW t \in SUBSET S, t # {}
        PROVE  f[t] = MoveOurselves(f[t \ {CHOOSE x \in t : TRUE}], CHOOSE x \in t : TRUE, to)
    <3>1. PICK c : c = CHOOSE x \in t : TRUE
      OBVIOUS
    <3>2. c \in S /\ t \ {c} \in SUBSET S /\ pick[t] = c
      BY <2>1, <3>1
    <3>3. <<f[t \ {c}], c>> \in D \X S
      <4> HIDE DEF D
      <4> QED BY <2>0, <3>2
    <3>4. step[<<f[t \ {c}], c>>] = MoveOurselves(f[t \ {c}], c, to)
      <4> HIDE DEF D, step
      <4> QED BY <1>8, <3>3
    <3>5. f[t] = step[<<f[t \ {c}], c>>]
      <4> HIDE DEF D, step, pick
      <4> QED BY <1>9, <2>1, <3>2 DEF Computes
    <3> QED BY <3>1, <3>4, <3>5
  <2>2. f[{}] = w
    <3> HIDE DEF D, step, pick
    <3> QED BY <1>9 DEF Computes
  <2>3. \A t \in SUBSET S : f[t] = IF t = {} THEN w
                                   ELSE MoveOurselves(f[t \ {CHOOSE x \in t : TRUE}],
                                                      CHOOSE x \in t : TRUE, to)
    BY <2>1, <2>2
  <2> HIDE DEF D
  <2> QED BY <1>1, <1>2, <2>0, <2>3
<1>11. PICK g : P(g) /\ g = (CHOOSE h : P(h))
  <2>1. P(CHOOSE h : P(h))
    <3> HIDE DEF P
    <3> QED BY <1>10
  <2> HIDE DEF P
  <2> QED BY <2>1
<1>12. v = g[Children(w, e)]
  BY <1>11 DEF Empty, FoldSet, MapThenFoldSet
<1> DEFINE Good == {t \in SUBSET S : g[t] \in D /\ MovedAll(w, g[t], t, to)}
<1>13. {} \in Good
  <2>1. g[{}] = w
    BY <1>11
  <2>2. MovedAll(w, w, {}, to)
    BY NearSelf DEF MovedAll
  <2> QED BY <1>4, <2>1, <2>2
<1>14. ASSUME NEW t \in SUBSET S, t # {}, t \ {pick[t]} \in Good PROVE t \in Good
  <2>1. PICK c : c = CHOOSE x \in t : TRUE
    OBVIOUS
  <2>2. c \in t /\ pick[t] = c
    BY <1>14, <2>1
  <2>3. PICK r : r = t \ {c}
    OBVIOUS
  <2>4. g[r] \in D /\ MovedAll(w, g[r], r, to)
    BY <1>14, <2>2, <2>3
  <2>5. g[t] = MoveOurselves(g[r], c, to)
    BY <1>1, <1>2, <1>11, <1>14, <2>1, <2>3
  <2>6. g[t] \in D /\ Moved(g[r], g[t], c, to)
    <3> HIDE DEF D
    <3> QED BY <1>5, <2>2, <2>4, <2>5
  <2>7. g[r].parent \in [Entities -> Places]
    BY <2>4, WorldFields
  <2>8. Near(w, g[t], t)
    <3>1. Near(w, g[t], r \cup {c})
      BY <2>4, <2>6, NearTrans DEF Moved, MovedAll
    <3>2. r \cup {c} = t
      BY <2>2, <2>3
    <3> QED BY <3>1, <3>2
  <2>9. \A x \in Entities : g[t].parent[x] = IF x \in t THEN to ELSE w.parent[x]
    BY <2>2, <2>3, <2>4, <2>6, <2>7 DEF Moved, MovedAll, PutIn
  <2> QED BY <2>6, <2>8, <2>9 DEF MovedAll
<1>15. S \in Good
  <2>1. \A t \in SUBSET S : t # {} /\ t \ {pick[t]} \in Good => t \in Good
    BY <1>14
  <2>2. \A t \in SUBSET S : t \in Good
    <3> HIDE DEF Good, pick
    <3> QED BY <1>3, <1>6, <1>13, <2>1, SubsetInduction
  <2> QED BY <2>2
<1> QED BY <1>1, <1>2, <1>12, <1>15

-----------------------------------------------------------------------------
\* The containment tree.

\* No place and no row are no entities.
LEMMA NoEntities == Nowhere \notin Entities /\ Absent \notin Entities
<1>1. Entities \subseteq Nat
  BY StorageManagerAssumption DEF Entities, Ids, Root
<1> QED BY <1>1, StorageManagerAssumption

\* The containers around an entity, one after the other.
Ups(f, e) ==
    /\ f \in [0 .. MaxId -> SUBSET Entities]
    /\ f[0] = {e}
    /\ \A n \in 1 .. MaxId :
        f[n] = f[n - 1] \cup {parent[x] : x \in {y \in f[n - 1] : parent[y] # Nowhere}}

LEMMA WithinIs ==
    ASSUME parent \in [Entities -> Places], NEW e \in Entities
    PROVE  \E f : Ups(f, e) /\ Within(e) = f[MaxId]
<1> DEFINE D == SUBSET Entities
           Up(T) == T \cup {parent[x] : x \in {y \in T : parent[y] # Nowhere}}
           step == [T \in D |-> Up(T)]
           P(g) == g = [n \in 0 .. MaxId |->
                          IF n = 0 THEN {e}
                          ELSE g[n - 1] \cup {parent[x] : x \in {y \in g[n - 1] : parent[y] # Nowhere}}]
<1>1. MaxId \in Nat
  BY StorageManagerAssumption
<1>2. \A T \in D : Up(T) \in D
  BY DEF Places
<1>3. step \in [D -> D] /\ \A T \in D : step[T] = Up(T)
  <2> HIDE DEF D, Up
  <2> QED BY <1>2
<1>4. {e} \in D
  OBVIOUS
<1>5. PICK f \in [0 .. MaxId -> D] :
        \A n \in 0 .. MaxId : f[n] = IF n = 0 THEN {e} ELSE step[f[n - 1]]
  <2>1. PICK st, set, base : st = step /\ set = D /\ base = {e}
    OBVIOUS
  <2>2. st \in [set -> set] /\ base \in set
    <3> HIDE DEF D, step
    <3> QED BY <1>3, <1>4, <2>1
  <2>3. PICK f : Steps(f, MaxId, set, base, st)
    BY <1>1, <2>2, StepsExist
  <2> HIDE DEF D, step
  <2> QED BY <2>1, <2>3 DEF Steps
<1>6. \A n \in 0 .. MaxId : n = 0 \/ (n - 1 \in 0 .. MaxId /\ f[n - 1] \in D)
  <2> HIDE DEF D
  <2> QED BY <1>1
<1>7. \A n \in 0 .. MaxId : f[n] = IF n = 0 THEN {e} ELSE Up(f[n - 1])
  <2> HIDE DEF D, step, Up
  <2> QED BY <1>3, <1>5, <1>6
<1>8. f = [n \in 0 .. MaxId |-> f[n]]
  OBVIOUS
<1>9. P(f)
  BY <1>7, <1>8
<1>10. P(CHOOSE g : P(g))
  <2> HIDE DEF P
  <2> QED BY <1>9
<1>11. PICK g : g = CHOOSE h : P(h)
  OBVIOUS
<1>12. P(g)
  <2> HIDE DEF P
  <2> QED BY <1>10, <1>11
<1>13. Within(e) = g[MaxId]
  BY <1>11 DEF Within
<1>14. \A n \in 0 .. MaxId : g[n] = IF n = 0 THEN {e} ELSE Up(g[n - 1])
  BY <1>12
<1>15. DOMAIN g = 0 .. MaxId /\ g = [n \in 0 .. MaxId |-> g[n]]
  BY <1>12
<1>16. \A n \in Nat : n \in 0 .. MaxId => g[n] \in D
  <2> DEFINE Good == {n \in Nat : n \in 0 .. MaxId => g[n] \in D}
  <2>1. 0 \in Good
    BY <1>1, <1>4, <1>14
  <2>2. ASSUME NEW n \in Nat, n \in Good PROVE n + 1 \in Good
    <3>1. CASE n + 1 \in 0 .. MaxId
      <4>1. n \in 0 .. MaxId /\ n + 1 # 0 /\ (n + 1) - 1 = n
        BY <1>1, <3>1
      <4>2. g[n] \in D /\ g[n + 1] = Up(g[n])
        <5> HIDE DEF D, Up
        <5> QED BY <1>14, <2>2, <3>1, <4>1
      <4>3. g[n + 1] \in D
        <5> HIDE DEF D, Up
        <5> QED BY <1>2, <4>2
      <4> QED BY <4>3
    <3>2. CASE n + 1 \notin 0 .. MaxId
      BY <3>2
    <3> QED BY <3>1, <3>2
  <2>3. \A n \in Nat : n \in Good
    <3> HIDE DEF Good
    <3> QED BY <2>1, <2>2, NumberInduction
  <2> QED BY <2>3
<1>17. g \in [0 .. MaxId -> SUBSET Entities]
  BY <1>1, <1>15, <1>16
<1>18. Ups(g, e)
  BY <1>1, <1>14, <1>17 DEF Ups
<1> QED BY <1>13, <1>18

\* In a tree the containers around an entity are entities, and their number
\* grows until the root is among them.
LEMMA WithinTree ==
    ASSUME parent \in [Entities -> Places], NEW live \in SUBSET Entities, Tree(parent, live),
           NEW e \in live, NEW f, Ups(f, e)
    PROVE  Root \in f[MaxId] /\ f[MaxId] \subseteq live
<1> DEFINE Fine(n) == /\ f[n] \subseteq live /\ f[n] # {}
                      /\ Root \in f[n] \/ Cardinality(f[n]) >= n + 1
           Good == {n \in Nat : n \in 0 .. MaxId => Fine(n)}
<1>1. MaxId \in Nat /\ IsFiniteSet(Ids) /\ Cardinality(Ids) = MaxId
  <2>1. MaxId \in Nat
    BY StorageManagerAssumption
  <2> QED BY <2>1, FS_Interval DEF Ids
<1>2. \A T \in SUBSET live : IsFiniteSet(T) /\ Cardinality(T) \in Nat
  <2>1. IsFiniteSet(Ids \cup {Root}) /\ Entities = Ids \cup {Root}
    BY <1>1, FS_AddElement DEF Entities
  <2>2. IsFiniteSet(Entities)
    BY <2>1
  <2>3. \A T \in SUBSET Entities : IsFiniteSet(T) /\ Cardinality(T) \in Nat
    BY <2>2, FS_Subset, FS_CardinalityType
  <2> QED BY <2>3
<1>3. 0 \in Good
  <2>1. f[0] = {e} /\ Cardinality({e}) = 1
    BY FS_Singleton DEF Ups
  <2> QED BY <2>1
<1>4. ASSUME NEW n \in Nat, n \in Good PROVE n + 1 \in Good
  <2> SUFFICES ASSUME n + 1 \in 0 .. MaxId PROVE Fine(n + 1)
    OBVIOUS
  <2>1. n \in 0 .. MaxId /\ n + 1 \in 1 .. MaxId /\ (n + 1) - 1 = n
    BY <1>1
  <2>2. Fine(n)
    BY <1>4, <2>1
  <2>3. PICK T, U : T = f[n] /\ U = f[n + 1]
    OBVIOUS
  <2>4. U = T \cup {parent[x] : x \in {y \in T : parent[y] # Nowhere}}
    BY <2>1, <2>3 DEF Ups
  <2>5. T \subseteq live /\ T # {} /\ (Root \in T \/ Cardinality(T) >= n + 1)
    BY <2>2, <2>3
  <2>6. U \subseteq live
    BY <2>4, <2>5 DEF Tree, ClosedUnder
  <2>7. CASE Root \in T
    BY <2>3, <2>4, <2>5, <2>6, <2>7
  <2>8. CASE Root \notin T
    <3>1. ~ClosedUnder(parent, T)
      BY <2>5, <2>8 DEF Tree
    <3>2. PICK x \in T \ {Root} : parent[x] \notin T
      BY <3>1 DEF ClosedUnder
    <3>3. parent[x] \in live
      BY <2>5 DEF Tree, ClosedUnder
    <3>4. parent[x] # Nowhere
      BY <3>3, NoEntities
    <3>5. PICK y : y = parent[x]
      OBVIOUS
    <3>6. T \cup {y} \in SUBSET U /\ y \notin T
      BY <2>4, <3>2, <3>4, <3>5
    <3>7. IsFiniteSet(T) /\ IsFiniteSet(U) /\ Cardinality(T) \in Nat /\ Cardinality(U) \in Nat
      BY <1>2, <2>5, <2>6
    <3>8. Cardinality(T \cup {y}) = Cardinality(T) + 1
      BY <3>6, <3>7, FS_AddElement
    <3>9. Cardinality(T \cup {y}) <= Cardinality(U)
      BY <3>6, <3>7, FS_Subset
    <3>10. Cardinality(U) >= n + 1 + 1
      BY <2>5, <2>8, <3>7, <3>8, <3>9
    <3> QED BY <2>3, <2>4, <2>5, <2>6, <3>10
  <2> QED BY <2>7, <2>8
<1>5. \A n \in Nat : n \in Good
  <2> HIDE DEF Good
  <2> QED BY <1>3, <1>4, NumberInduction
<1>6. Fine(MaxId)
  <2>1. MaxId \in 0 .. MaxId
    BY <1>1
  <2> QED BY <1>1, <1>5, <2>1
<1>7. ASSUME Root \notin f[MaxId] PROVE FALSE
  <2>1. f[MaxId] \in SUBSET Ids
    BY <1>6, <1>7 DEF Entities
  <2>2. Cardinality(f[MaxId]) <= MaxId
    BY <1>1, <2>1, FS_Subset
  <2>3. Cardinality(f[MaxId]) \in Nat
    BY <1>2, <1>6
  <2> QED BY <1>1, <1>6, <1>7, <2>2, <2>3
<1> QED BY <1>6, <1>7

\* An entity moves to a place that is not inside of it.
LEMMA TreeMoves ==
    ASSUME parent \in [Entities -> Places], NEW live \in SUBSET Entities, Tree(parent, live),
           NEW e \in live \ {Root}, NEW to \in live, e \notin Within(to),
           NEW at, at = [parent EXCEPT ![e] = to]
    PROVE  Tree(at, live)
<1>1. PICK f : Ups(f, to) /\ Within(to) = f[MaxId]
  BY WithinIs
<1>2. Root \in f[MaxId]
  BY <1>1, WithinTree
<1>3. at[e] = to /\ \A x \in Entities \ {e} : at[x] = parent[x]
  OBVIOUS
<1>4. at[Root] = Nowhere /\ Root \in live /\ ClosedUnder(at, live)
  BY <1>3 DEF Tree, ClosedUnder
<1>5. ASSUME NEW S \in SUBSET live, S # {}, ClosedUnder(at, S), Root \notin S
      PROVE  FALSE
  <2>1. e \in S
    <3>1. ASSUME e \notin S PROVE ClosedUnder(parent, S)
      BY <1>3, <1>5, <3>1 DEF ClosedUnder
    <3> QED BY <1>5, <3>1 DEF Tree
  <2>2. to \in S
    BY <1>3, <1>5, <2>1 DEF ClosedUnder
  <2> DEFINE Good == {n \in Nat : n \in 0 .. MaxId => f[n] \subseteq S \/ e \in f[n]}
  <2>3. 0 \in Good
    BY <1>1, <2>2 DEF Ups
  <2>4. ASSUME NEW n \in Nat, n \in Good PROVE n + 1 \in Good
    <3> SUFFICES ASSUME n + 1 \in 0 .. MaxId
                 PROVE  f[n + 1] \subseteq S \/ e \in f[n + 1]
      OBVIOUS
    <3>1. n \in 0 .. MaxId /\ n + 1 \in 1 .. MaxId /\ (n + 1) - 1 = n
      BY StorageManagerAssumption
    <3>2. PICK T, U : T = f[n] /\ U = f[n + 1]
      OBVIOUS
    <3>3. U = T \cup {parent[x] : x \in {y \in T : parent[y] # Nowhere}}
      BY <1>1, <3>1, <3>2 DEF Ups
    <3>4. T \subseteq S \/ e \in T
      BY <2>4, <3>1, <3>2
    <3>5. CASE e \in T
      BY <3>2, <3>3, <3>5
    <3>6. CASE T \subseteq S /\ e \notin T
      <4>1. \A x \in T : parent[x] \in S
        BY <1>3, <1>5, <3>6 DEF ClosedUnder
      <4> QED BY <3>2, <3>3, <3>6, <4>1
    <3> QED BY <3>4, <3>5, <3>6
  <2>5. \A n \in Nat : n \in Good
    <3> HIDE DEF Good
    <3> QED BY <2>3, <2>4, NumberInduction
  <2>6. f[MaxId] \subseteq S \/ e \in f[MaxId]
    <3>1. MaxId \in Nat /\ MaxId \in 0 .. MaxId
      BY StorageManagerAssumption
    <3> QED BY <2>5, <3>1
  <2> QED BY <1>1, <1>2, <1>5, <2>6
<1> QED BY <1>4, <1>5 DEF Tree

\* A new entity gets a place.
LEMMA TreeGrows ==
    ASSUME parent \in [Entities -> Places], NEW live \in SUBSET Entities, Tree(parent, live),
           NEW e \in Entities \ live, NEW to \in live, NEW at, at = [parent EXCEPT ![e] = to]
    PROVE  Tree(at, live \cup {e})
<1>1. at[e] = to /\ \A x \in Entities \ {e} : at[x] = parent[x]
  OBVIOUS
<1>2. /\ at[Root] = Nowhere /\ Root \in live \cup {e} /\ e # Root
      /\ ClosedUnder(at, live \cup {e})
  BY <1>1 DEF Tree, ClosedUnder
<1>3. ASSUME NEW S \in SUBSET (live \cup {e}), S # {}, ClosedUnder(at, S)
      PROVE  Root \in S
  <2>1. PICK T : T = S \ {e}
    OBVIOUS
  <2>2. T \in SUBSET live
    BY <2>1
  <2>3. T # {}
    BY <1>1, <1>2, <1>3, <2>1 DEF ClosedUnder
  <2>4. \A x \in live \ {Root} : parent[x] # e
    BY DEF Tree, ClosedUnder
  <2>5. ClosedUnder(parent, T)
    BY <1>1, <1>3, <2>1, <2>2, <2>4 DEF ClosedUnder
  <2> QED BY <2>1, <2>2, <2>3, <2>5 DEF Tree
<1> QED BY <1>2, <1>3 DEF Tree

\* An entity leaves, and what it contains moves to where it was.
LEMMA TreeShrinks ==
    ASSUME parent \in [Entities -> Places], NEW live \in SUBSET Entities, Tree(parent, live),
           NEW e \in live \ {Root}, NEW at,
           \A x \in live \ {e} : at[x] = IF parent[x] = e THEN parent[e] ELSE parent[x],
           NEW rest, rest = live \ {e}
    PROVE  Tree(at, rest)
<1>1. parent[Root] = Nowhere /\ Root \in live /\ ClosedUnder(parent, live)
  BY DEF Tree
<1>2. e # Nowhere
  BY NoEntities
<1>3. parent[e] \in live /\ parent[e] # e
  <2>1. parent[e] \in live
    BY <1>1 DEF ClosedUnder
  <2>2. ASSUME parent[e] = e PROVE FALSE
    <3>1. PICK S \in SUBSET live : S = {e}
      OBVIOUS
    <3>2. ClosedUnder(parent, S) /\ S # {} /\ Root \notin S
      BY <2>2, <3>1 DEF ClosedUnder
    <3> QED BY <3>2 DEF Tree
  <2> QED BY <2>1, <2>2
<1>4. at[Root] = Nowhere /\ Root \in rest
  BY <1>1, <1>2
<1>5. ClosedUnder(at, rest)
  BY <1>1, <1>3 DEF ClosedUnder
<1>6. ASSUME NEW S \in SUBSET rest, S # {}, ClosedUnder(at, S)
      PROVE  Root \in S
  <2>1. CASE \E x \in S \ {Root} : parent[x] = e
    <3>1. PICK T : T = S \cup {e}
      OBVIOUS
    <3>2. parent[e] \in S
      BY <1>6, <2>1 DEF ClosedUnder
    <3>3. ClosedUnder(parent, T)
      BY <1>6, <3>1, <3>2 DEF ClosedUnder
    <3>4. T \in SUBSET live /\ T # {}
      BY <3>1
    <3> QED BY <3>1, <3>3, <3>4 DEF Tree
  <2>2. CASE \A x \in S \ {Root} : parent[x] # e
    <3>1. ClosedUnder(parent, S)
      BY <1>6, <2>2 DEF ClosedUnder
    <3> QED BY <1>6, <3>1 DEF Tree
  <2> QED BY <2>1, <2>2
<1> QED BY <1>4, <1>5, <1>6 DEF Tree

\* The rows that restoreChildren finds, level by level.
Downs(g) ==
    /\ g \in [0 .. MaxId -> SUBSET Entities]
    /\ g[0] = {Root}
    /\ \A n \in 1 .. MaxId : g[n] = g[n - 1] \cup {x \in Ids : db.rows[x] \in g[n - 1]}

LEMMA ReachableIs == \E g : Downs(g) /\ Reachable = g[MaxId]
<1> DEFINE rows == db.rows
           D == SUBSET Entities
           Down(T) == T \cup {x \in Ids : rows[x] \in T}
           step == [T \in D |-> Down(T)]
           P(g) == g = [n \in 0 .. MaxId |->
                          IF n = 0 THEN {Root}
                          ELSE g[n - 1] \cup {x \in Ids : db.rows[x] \in g[n - 1]}]
<1>1. MaxId \in Nat
  BY StorageManagerAssumption
<1>2. \A T \in D : Down(T) \in D
  BY DEF Entities
<1>3. step \in [D -> D] /\ \A T \in D : step[T] = Down(T)
  <2> HIDE DEF D, Down
  <2> QED BY <1>2
<1>4. {Root} \in D
  BY DEF Entities
<1>5. PICK f \in [0 .. MaxId -> D] :
        \A n \in 0 .. MaxId : f[n] = IF n = 0 THEN {Root} ELSE step[f[n - 1]]
  <2>1. PICK st, set, base : st = step /\ set = D /\ base = {Root}
    OBVIOUS
  <2>2. st \in [set -> set] /\ base \in set
    <3> HIDE DEF D, step
    <3> QED BY <1>3, <1>4, <2>1
  <2>3. PICK f : Steps(f, MaxId, set, base, st)
    BY <1>1, <2>2, StepsExist
  <2> HIDE DEF D, step
  <2> QED BY <2>1, <2>3 DEF Steps
<1>6. \A n \in 0 .. MaxId : n = 0 \/ (n - 1 \in 0 .. MaxId /\ f[n - 1] \in D)
  <2> HIDE DEF D
  <2> QED BY <1>1
<1>7. \A n \in 0 .. MaxId : f[n] = IF n = 0 THEN {Root} ELSE Down(f[n - 1])
  <2> HIDE DEF D, step, Down
  <2> QED BY <1>3, <1>5, <1>6
<1>8. f = [n \in 0 .. MaxId |-> f[n]]
  OBVIOUS
<1>9. P(f)
  BY <1>7, <1>8
<1>10. PICK g : P(g) /\ g = CHOOSE h : P(h)
  <2>1. P(CHOOSE h : P(h))
    <3> HIDE DEF P
    <3> QED BY <1>9
  <2> HIDE DEF P
  <2> QED BY <2>1
<1>11. Reachable = g[MaxId]
  BY <1>10 DEF Reachable
<1>12. \A n \in 0 .. MaxId : g[n] = IF n = 0 THEN {Root} ELSE Down(g[n - 1])
  BY <1>10
<1>13. g = f
  <2>1. f \in [0 .. MaxId -> D]
    <3> HIDE DEF D
    <3> QED BY <1>5
  <2>2. g = [n \in 0 .. MaxId |-> g[n]]
    BY <1>10
  <2> DEFINE Good == {n \in Nat : n \in 0 .. MaxId => g[n] = f[n]}
  <2>3. 0 \in Good
    <3> HIDE DEF Down
    <3> QED BY <1>7, <1>12
  <2>4. ASSUME NEW n \in Nat, n \in Good PROVE n + 1 \in Good
    <3> SUFFICES ASSUME n + 1 \in 0 .. MaxId PROVE g[n + 1] = f[n + 1]
      OBVIOUS
    <3>1. n \in 0 .. MaxId /\ n + 1 # 0 /\ (n + 1) - 1 = n
      BY <1>1
    <3>2. g[n] = f[n]
      BY <2>4, <3>1
    <3> HIDE DEF Down
    <3> QED BY <1>7, <1>12, <3>1, <3>2
  <2>5. \A n \in Nat : n \in Good
    <3> HIDE DEF Good
    <3> QED BY <2>3, <2>4, NumberInduction
  <2>6. \A n \in 0 .. MaxId : g[n] = f[n]
    BY <1>1, <2>5
  <2> QED BY <1>8, <2>2, <2>6
<1>14. Downs(f)
  <2>1. f[0] = {Root}
    <3> HIDE DEF Down
    <3> QED BY <1>1, <1>7
  <2>2. ASSUME NEW n \in 1 .. MaxId
        PROVE  f[n] = f[n - 1] \cup {x \in Ids : db.rows[x] \in f[n - 1]}
    <3>1. n \in 0 .. MaxId /\ n # 0
      OBVIOUS
    <3>2. f[n] = Down(f[n - 1])
      <4> HIDE DEF Down
      <4> QED BY <1>7, <3>1
    <3> QED BY <3>2
  <2>3. f \in [0 .. MaxId -> SUBSET Entities]
    BY <1>5
  <2> QED BY <2>1, <2>2, <2>3 DEF Downs
<1> QED BY <1>11, <1>13, <1>14

\* They make a tree, whatever a crash left in the tables.
LEMMA RestoredTree ==
    ASSUME db \in Tables, db.rows[Root] = Nowhere
    PROVE  Reachable \in SUBSET Entities /\ Tree(db.rows, Reachable)
<1> DEFINE rows == db.rows
           D == SUBSET Entities
           Down(T) == T \cup {x \in Ids : rows[x] \in T}
<1>1. MaxId \in Nat
  BY StorageManagerAssumption
<1>2. \A T \in D : Down(T) \in D
  BY DEF Entities
<1>3. {Root} \in D
  BY DEF Entities
<1>4. PICK g : Downs(g) /\ Reachable = g[MaxId]
  BY ReachableIs
<1>5. Reachable = g[MaxId]
  BY <1>4
<1>6. \A n \in 0 .. MaxId : g[n] = IF n = 0 THEN {Root} ELSE Down(g[n - 1])
  BY <1>1, <1>4 DEF Downs
<1> DEFINE Good == {n \in Nat : n \in 0 .. MaxId => g[n] \in D /\ Tree(rows, g[n])}
<1>7. 0 \in Good
  <2>1. g[0] = {Root}
    <3>1. 0 \in 0 .. MaxId
      BY <1>1
    <3> HIDE DEF Down
    <3> QED BY <1>6, <3>1
  <2>2. Tree(rows, {Root})
    BY DEF Tree, ClosedUnder
  <2> QED BY <1>3, <2>1, <2>2
<1>8. ASSUME NEW n \in Nat, n \in Good PROVE n + 1 \in Good
  <2> SUFFICES ASSUME n + 1 \in 0 .. MaxId PROVE g[n + 1] \in D /\ Tree(rows, g[n + 1])
    OBVIOUS
  <2>1. n \in 0 .. MaxId /\ n + 1 # 0 /\ (n + 1) - 1 = n
    BY <1>1
  <2>2. PICK T, U : T = g[n] /\ U = g[n + 1]
    OBVIOUS
  <2>3. T \in D /\ Tree(rows, T)
    BY <1>8, <2>1, <2>2
  <2>4. U = Down(T)
    <3> HIDE DEF D, Down
    <3> QED BY <1>6, <2>1, <2>2
  <2>5. U \in D
    <3> HIDE DEF D, Down
    <3> QED BY <1>2, <2>3, <2>4
  <2>6. rows[Root] = Nowhere /\ Root \in U /\ ClosedUnder(rows, U)
    BY <2>3, <2>4 DEF Tree, ClosedUnder
  <2>7. ASSUME NEW S \in SUBSET U, S # {}, ClosedUnder(rows, S)
        PROVE  Root \in S
    <3>1. PICK R : R = S \cap T
      OBVIOUS
    <3>2. Root \in T /\ ClosedUnder(rows, T)
      BY <2>3 DEF Tree
    <3>3. R # {}
      BY <2>4, <2>7, <3>1, <3>2 DEF ClosedUnder
    <3>4. ClosedUnder(rows, R)
      BY <2>7, <3>1, <3>2 DEF ClosedUnder
    <3> QED BY <2>3, <3>1, <3>3, <3>4 DEF Tree
  <2>8. Tree(rows, U)
    BY <2>6, <2>7 DEF Tree
  <2> QED BY <2>2, <2>5, <2>8
<1>9. \A n \in Nat : n \in Good
  <2> HIDE DEF Good
  <2> QED BY <1>7, <1>8, NumberInduction
<1>10. MaxId \in 0 .. MaxId
  BY <1>1
<1> QED BY <1>1, <1>5, <1>9, <1>10

\* All of them: a row whose container is found is found.
LEMMA ReachableAll ==
    ASSUME NEW x \in Ids, db.rows[x] \in Reachable
    PROVE  x \in Reachable
<1>1. PICK g : Downs(g) /\ Reachable = g[MaxId]
  BY ReachableIs
<1>2. /\ MaxId \in Nat /\ IsFiniteSet(Entities) /\ Cardinality(Entities) = MaxId + 1
      /\ \A T \in SUBSET Entities : IsFiniteSet(T) /\ Cardinality(T) \in Nat
  <2>1. MaxId \in Nat
    BY StorageManagerAssumption
  <2>2. IsFiniteSet(Ids) /\ Cardinality(Ids) = MaxId /\ Root \notin Ids
    BY <2>1, FS_Interval DEF Ids, Root
  <2>3. IsFiniteSet(Ids \cup {Root}) /\ Cardinality(Ids \cup {Root}) = MaxId + 1
    BY <2>2, FS_AddElement
  <2>4. Entities = Ids \cup {Root}
    BY DEF Entities
  <2>5. \A T \in SUBSET Entities : IsFiniteSet(T) /\ Cardinality(T) \in Nat
    BY <2>3, <2>4, FS_Subset, FS_CardinalityType
  <2> QED BY <2>1, <2>3, <2>4, <2>5
<1> DEFINE Whole(T) == \A y \in Ids : db.rows[y] \in T => y \in T
           Fine(n) == g[n] \in SUBSET Entities /\ (Whole(g[n]) \/ Cardinality(g[n]) >= n + 1)
           Good == {n \in Nat : n \in 0 .. MaxId => Fine(n)}
<1>3. 0 \in Good
  <2>1. g[0] = {Root} /\ Cardinality({Root}) = 1
    BY <1>1, FS_Singleton DEF Downs
  <2> QED BY <2>1 DEF Entities
<1>4. ASSUME NEW n \in Nat, n \in Good PROVE n + 1 \in Good
  <2> SUFFICES ASSUME n + 1 \in 0 .. MaxId PROVE Fine(n + 1)
    OBVIOUS
  <2>1. n \in 0 .. MaxId /\ n + 1 \in 1 .. MaxId /\ (n + 1) - 1 = n
    BY <1>2
  <2>2. PICK T, U : T = g[n] /\ U = g[n + 1]
    OBVIOUS
  <2>3. T \in SUBSET Entities /\ (Whole(T) \/ Cardinality(T) >= n + 1)
    <3> HIDE DEF Whole
    <3> QED BY <1>4, <2>1, <2>2
  <2>4. U = T \cup {y \in Ids : db.rows[y] \in T} /\ U \in SUBSET Entities
    BY <1>1, <2>1, <2>2 DEF Downs
  <2>5. CASE Whole(T)
    <3>1. U = T
      BY <2>4, <2>5
    <3> QED BY <2>2, <2>4, <2>5, <3>1
  <2>6. CASE ~Whole(T)
    <3>1. PICK y \in Ids : db.rows[y] \in T /\ y \notin T
      BY <2>6
    <3>2. T \cup {y} \in SUBSET U
      BY <2>4, <3>1
    <3>3. IsFiniteSet(T) /\ IsFiniteSet(U) /\ Cardinality(T) \in Nat /\ Cardinality(U) \in Nat
      BY <1>2, <2>3, <2>4
    <3>4. Cardinality(T \cup {y}) = Cardinality(T) + 1
      BY <3>1, <3>3, FS_AddElement
    <3>5. Cardinality(T \cup {y}) <= Cardinality(U)
      BY <3>2, <3>3, FS_Subset
    <3>6. Cardinality(U) >= n + 1 + 1
      <4> HIDE DEF Whole
      <4> QED BY <2>3, <2>6, <3>3, <3>4, <3>5
    <3> QED BY <2>2, <2>4, <3>6
  <2> QED BY <2>5, <2>6
<1>5. \A n \in Nat : n \in Good
  <2> HIDE DEF Good
  <2> QED BY <1>3, <1>4, NumberInduction
<1>6. Fine(MaxId)
  <2>1. MaxId \in 0 .. MaxId
    BY <1>2
  <2> QED BY <1>2, <1>5, <2>1
<1>7. CASE Whole(g[MaxId])
  BY <1>1, <1>7
<1>8. CASE Cardinality(g[MaxId]) >= MaxId + 1
  <2>1. PICK T : T = g[MaxId] /\ T \in SUBSET Entities
    BY <1>6
  <2>2. Cardinality(T) <= Cardinality(Entities) /\ Cardinality(T) \in Nat
    BY <1>2, <2>1, FS_Subset
  <2>3. Cardinality(T) = Cardinality(Entities)
    BY <1>2, <1>8, <2>1, <2>2
  <2>4. T = Entities
    BY <1>2, <2>1, <2>3, FS_Subset
  <2> QED BY <1>1, <2>1, <2>4 DEF Entities
<1> QED BY <1>6, <1>7, <1>8

-----------------------------------------------------------------------------
\* What the commands of a tick do to the tables.

\* The tables g are d but for e, whose row is r and whose property is q.
Wrote(d, g, e, r, q) ==
    /\ g \in Tables
    /\ \A x \in Entities \ {e} : g.rows[x] = d.rows[x] /\ g.props[x] = d.props[x]
    /\ g.rows[e] = r /\ g.props[e] = q

LEMMA WroteTwice ==
    ASSUME NEW d, NEW g, NEW h, NEW e, NEW r, NEW q, NEW r2, NEW q2,
           Wrote(d, g, e, r, q), Wrote(g, h, e, r2, q2)
    PROVE  Wrote(d, h, e, r2, q2)
BY DEF Wrote

\* One row or one property is set.
SetRow(d, e, a) == [d EXCEPT !.rows[e] = a]
SetProp(d, e, a) == [d EXCEPT !.props[e] = a]

LEMMA SetOne ==
    ASSUME NEW d \in Tables, NEW e \in Entities
    PROVE  /\ \A a \in Places \cup {Absent} : Wrote(d, SetRow(d, e, a), e, a, d.props[e])
           /\ \A a \in Settings \cup {Absent} : Wrote(d, SetProp(d, e, a), e, d.rows[e], a)
           /\ Wrote(d, d, e, d.rows[e], d.props[e])
<1>1. ASSUME NEW a \in Places \cup {Absent} PROVE Wrote(d, SetRow(d, e, a), e, a, d.props[e])
  <2>1. SetRow(d, e, a) \in Tables
    BY DEF Tables, SetRow
  <2>2. SetRow(d, e, a).props = d.props
    BY DEF Tables, SetRow
  <2>3. SetRow(d, e, a).rows = [d.rows EXCEPT ![e] = a] /\ d.rows \in [Entities -> Places \cup {Absent}]
    BY DEF Tables, SetRow
  <2> QED BY <2>1, <2>2, <2>3 DEF Wrote
<1>2. ASSUME NEW a \in Settings \cup {Absent} PROVE Wrote(d, SetProp(d, e, a), e, d.rows[e], a)
  <2>1. SetProp(d, e, a) \in Tables
    BY DEF Tables, SetProp
  <2>2. SetProp(d, e, a).rows = d.rows
    BY DEF Tables, SetProp
  <2>3. SetProp(d, e, a).props = [d.props EXCEPT ![e] = a] /\ d.props \in [Entities -> Settings \cup {Absent}]
    BY DEF Tables, SetProp
  <2> QED BY <2>1, <2>2, <2>3 DEF Wrote
<1>3. Wrote(d, d, e, d.rows[e], d.props[e])
  BY DEF Wrote
<1> QED BY <1>1, <1>2, <1>3

\* Each command.
LEMMA Effects ==
    ASSUME NEW d \in Tables, NEW e \in Entities
    PROVE  /\ \A a \in Places :
                Wrote(d, Apply(d, Command("insertEntity", e, a)), e,
                      IF d.rows[e] = Absent THEN a ELSE d.rows[e], d.props[e])
           /\ \A a \in Places :
                Wrote(d, Apply(d, Command("updateEntity", e, a)), e,
                      IF d.rows[e] = Absent THEN Absent ELSE a, d.props[e])
           /\ \A a \in Settings :
                Wrote(d, Apply(d, Command("upsertProperties", e, a)), e, d.rows[e], a)
           /\ \A op \in {"updateEntityWithoutLoc", "deleteThoughts"} :
                Wrote(d, Apply(d, Command(op, e, Absent)), e, d.rows[e], d.props[e])
           /\ \A op \in {"deleteProperty", "deleteProperties"} :
                Wrote(d, Apply(d, Command(op, e, Absent)), e, d.rows[e], Absent)
           /\ Wrote(d, Apply(d, Command("deleteEntity", e, Absent)), e, Absent, d.props[e])
<1>1. ASSUME NEW a \in Places
      PROVE  Wrote(d, Apply(d, Command("insertEntity", e, a)), e,
                   IF d.rows[e] = Absent THEN a ELSE d.rows[e], d.props[e])
  <2>1. CASE d.rows[e] = Absent
    <3>1. Apply(d, Command("insertEntity", e, a)) = SetRow(d, e, a)
      BY <2>1 DEF Apply, Command, SetRow
    <3> QED BY <2>1, <3>1, SetOne
  <2>2. CASE d.rows[e] # Absent
    <3>1. Apply(d, Command("insertEntity", e, a)) = d
      BY <2>2 DEF Apply, Command
    <3> QED BY <2>2, <3>1, SetOne
  <2> QED BY <2>1, <2>2
<1>2. ASSUME NEW a \in Places
      PROVE  Wrote(d, Apply(d, Command("updateEntity", e, a)), e,
                   IF d.rows[e] = Absent THEN Absent ELSE a, d.props[e])
  <2>1. CASE d.rows[e] = Absent
    <3>1. Apply(d, Command("updateEntity", e, a)) = d
      BY <2>1 DEF Apply, Command
    <3> QED BY <2>1, <3>1, SetOne
  <2>2. CASE d.rows[e] # Absent
    <3>1. Apply(d, Command("updateEntity", e, a)) = SetRow(d, e, a)
      BY <2>2 DEF Apply, Command, SetRow
    <3> QED BY <2>2, <3>1, SetOne
  <2> QED BY <2>1, <2>2
<1>3. ASSUME NEW a \in Settings
      PROVE  Wrote(d, Apply(d, Command("upsertProperties", e, a)), e, d.rows[e], a)
  <2>1. Apply(d, Command("upsertProperties", e, a)) = SetProp(d, e, a)
    BY DEF Apply, Command, SetProp
  <2> QED BY <2>1, SetOne
<1>4. ASSUME NEW op \in {"updateEntityWithoutLoc", "deleteThoughts"}
      PROVE  Wrote(d, Apply(d, Command(op, e, Absent)), e, d.rows[e], d.props[e])
  <2>1. Apply(d, Command(op, e, Absent)) = d
    BY DEF Apply, Command
  <2> QED BY <2>1, SetOne
<1>5. ASSUME NEW op \in {"deleteProperty", "deleteProperties"}
      PROVE  Wrote(d, Apply(d, Command(op, e, Absent)), e, d.rows[e], Absent)
  <2>1. Apply(d, Command(op, e, Absent)) = SetProp(d, e, Absent)
    BY DEF Apply, Command, SetProp
  <2> QED BY <2>1, SetOne
<1>6. Wrote(d, Apply(d, Command("deleteEntity", e, Absent)), e, Absent, d.props[e])
  <2>1. Apply(d, Command("deleteEntity", e, Absent)) = SetRow(d, e, Absent)
    BY DEF Apply, Command, SetRow
  <2> QED BY <2>1, SetOne
<1> QED BY <1>1, <1>2, <1>3, <1>4, <1>5, <1>6

\* Several commands are scheduled at once.
LEMMA AfterMore ==
    ASSUME NEW d \in Tables, NEW s \in Seq(Commands), NEW a \in Commands
    PROVE  /\ s \o <<a>> \in Seq(Commands)
           /\ After(d, s \o <<a>>) = Apply(After(d, s), a)
           /\ \A b \in Commands : /\ s \o <<a, b>> \in Seq(Commands)
                                  /\ After(d, s \o <<a, b>>) = Apply(Apply(After(d, s), a), b)
<1>1. s \o <<a>> = Append(s, a) /\ Append(s, a) \in Seq(Commands)
  OBVIOUS
<1>2. After(d, Append(s, a)) = Apply(After(d, s), a)
  BY AfterOne
<1>3. ASSUME NEW b \in Commands
      PROVE  /\ s \o <<a, b>> \in Seq(Commands)
             /\ After(d, s \o <<a, b>>) = Apply(Apply(After(d, s), a), b)
  <2>1. s \o <<a, b>> = Append(Append(s, a), b)
    OBVIOUS
  <2>2. PICK t \in Seq(Commands) : t = Append(s, a)
    BY <1>1
  <2>3. After(d, Append(t, b)) = Apply(After(d, t), b) /\ Append(t, b) \in Seq(Commands)
    BY AfterOne
  <2> QED BY <1>2, <2>1, <2>2, <2>3
<1> QED BY <1>1, <1>2, <1>3

LEMMA CommandTypes ==
    ASSUME NEW e \in Entities
    PROVE  /\ \A op \in {"insertEntity", "updateEntity"}, a \in Places :
                Command(op, e, a) \in Commands
           /\ \A a \in Settings : Command("upsertProperties", e, a) \in Commands
           /\ \A op \in {"updateEntityWithoutLoc", "deleteProperty", "deleteProperties",
                         "deleteEntity", "deleteThoughts"} : Command(op, e, Absent) \in Commands
BY DEF Commands, Command

LEMMA Joined ==
    ASSUME NEW a \in Commands, NEW b \in Commands
    PROVE  <<a>> \o <<>> = <<a>> /\ <<a>> \o <<b>> = <<a, b>>
<1>1. <<a>> \o <<>> = <<a>>
  OBVIOUS
<1>2. <<a>> \o <<b>> = Append(<<a>>, b)
  OBVIOUS
<1>3. <<a, b>> = Append(<<a>>, b)
  OBVIOUS
<1> QED BY <1>1, <1>2, <1>3

\* Database::dropEntity
LEMMA DropIs ==
    ASSUME NEW d \in Tables, NEW s \in Seq(Commands), NEW e \in Entities
    PROVE  /\ s \o DropEntity(e) \in Seq(Commands)
           /\ Wrote(After(d, s), After(d, s \o DropEntity(e)), e, Absent, Absent)
<1>1. PICK a \in Commands, b \in Commands, c \in Commands :
        /\ a = Command("deleteProperties", e, Absent)
        /\ b = Command("deleteEntity", e, Absent)
        /\ c = Command("deleteThoughts", e, Absent)
  BY CommandTypes
<1>2. DropEntity(e) = <<a, b, c>>
  BY <1>1 DEF DropEntity
<1>3. PICK t \in Seq(Commands) : t = s \o <<a, b>>
  BY AfterMore
<1>4. s \o <<a, b, c>> = Append(t, c)
  BY <1>3
<1>5. PICK F \in Tables : F = After(d, s)
  BY AfterOne
<1>6. After(d, t) = Apply(Apply(F, a), b)
  BY <1>3, <1>5, AfterMore
<1>7. After(d, Append(t, c)) = Apply(After(d, t), c) /\ Append(t, c) \in Seq(Commands)
  BY AfterOne
<1>8. PICK g : g = Apply(F, a)
  OBVIOUS
<1>9. Wrote(F, g, e, F.rows[e], Absent)
  BY <1>1, <1>8, Effects
<1>10. PICK h : h = Apply(g, b)
  OBVIOUS
<1>11. g \in Tables /\ g.props[e] = Absent
  BY <1>9 DEF Wrote
<1>12. Wrote(g, h, e, Absent, g.props[e])
  BY <1>1, <1>10, <1>11, Effects
<1>13. h \in Tables /\ h.rows[e] = Absent /\ h.props[e] = Absent
  BY <1>11, <1>12 DEF Wrote
<1>14. PICK k : k = Apply(h, c)
  OBVIOUS
<1>15. Wrote(h, k, e, h.rows[e], h.props[e])
  BY <1>1, <1>13, <1>14, Effects
<1>16. Wrote(F, h, e, Absent, Absent)
  BY <1>9, <1>11, <1>12, WroteTwice
<1>17. Wrote(F, k, e, Absent, Absent)
  BY <1>13, <1>15, <1>16, WroteTwice
<1> QED BY <1>2, <1>4, <1>5, <1>6, <1>7, <1>8, <1>10, <1>14, <1>17

\* StorageManager::insertEntity: the row stays if there is one.
LEMMA InsertIs ==
    ASSUME NEW d \in Tables, NEW s \in Seq(Commands), NEW e \in Entities,
           parent[e] \in Places, prop[e] \in Settings \cup {Absent}, NEW F, F = After(d, s)
    PROVE  /\ s \o InsertCommands(e) \in Seq(Commands)
           /\ Wrote(F, After(d, s \o InsertCommands(e)), e,
                    IF F.rows[e] = Absent THEN parent[e] ELSE F.rows[e],
                    IF prop[e] = Absent THEN F.props[e] ELSE prop[e])
<1>1. PICK a \in Commands : a = Command("insertEntity", e, parent[e])
  BY CommandTypes
<1>2. F \in Tables
  BY AfterOne
<1>3. PICK g : g = Apply(F, a)
  OBVIOUS
<1>4. PICK r : r = IF F.rows[e] = Absent THEN parent[e] ELSE F.rows[e]
  OBVIOUS
<1>5. Wrote(F, g, e, r, F.props[e])
  BY <1>1, <1>2, <1>3, <1>4, Effects
<1>6. g \in Tables /\ g.rows[e] = r
  BY <1>5 DEF Wrote
<1>7. CASE prop[e] = Absent
  <2>1. InsertCommands(e) = <<a>>
    BY <1>1, <1>7 DEF InsertCommands
  <2>2. s \o <<a>> \in Seq(Commands) /\ After(d, s \o <<a>>) = g
    BY <1>3, AfterMore
  <2> QED BY <1>4, <1>5, <1>7, <2>1, <2>2
<1>8. CASE prop[e] # Absent
  <2>1. prop[e] \in Settings
    BY <1>8
  <2>2. PICK b \in Commands : b = Command("upsertProperties", e, prop[e])
    BY <2>1, CommandTypes
  <2>3. InsertCommands(e) = <<a, b>>
    <3>1. InsertCommands(e) = <<a>> \o <<b>>
      BY <1>1, <1>8, <2>2 DEF InsertCommands
    <3> QED BY <3>1, Joined
  <2>4. s \o <<a, b>> \in Seq(Commands) /\ After(d, s \o <<a, b>>) = Apply(g, b)
    BY <1>3, AfterMore
  <2>5. Wrote(g, Apply(g, b), e, g.rows[e], prop[e])
    BY <1>6, <2>1, <2>2, Effects
  <2>6. Wrote(F, Apply(g, b), e, r, prop[e])
    BY <1>5, <1>6, <2>5, WroteTwice
  <2> QED BY <1>4, <1>8, <2>3, <2>4, <2>6
<1> QED BY <1>7, <1>8

\* StorageManager::updateEntity
LEMMA UpdateIs ==
    ASSUME NEW d \in Tables, NEW s \in Seq(Commands), NEW e \in Entities,
           parent[e] \in Places, prop[e] \in Settings \cup {Absent}, NEW F, F = After(d, s)
    PROVE  /\ s \o UpdateCommands(e) \in Seq(Commands)
           /\ Wrote(F, After(d, s \o UpdateCommands(e)), e,
                    IF parent[e] = Nowhere \/ F.rows[e] = Absent THEN F.rows[e] ELSE parent[e],
                    IF prop[e] = Absent \/ "propClean" \in flags[e] THEN F.props[e]
                    ELSE IF prop[e] = Unset THEN Absent ELSE prop[e])
<1>1. PICK a : a = IF parent[e] = Nowhere
                   THEN Command("updateEntityWithoutLoc", e, Absent)
                   ELSE Command("updateEntity", e, parent[e])
  OBVIOUS
<1>2. a \in Commands
  BY <1>1, CommandTypes
<1>3. F \in Tables
  BY AfterOne
<1>4. PICK g : g = Apply(F, a)
  OBVIOUS
<1>5. PICK r : r = IF parent[e] = Nowhere \/ F.rows[e] = Absent THEN F.rows[e] ELSE parent[e]
  OBVIOUS
<1>6. PICK q : q = IF prop[e] = Absent \/ "propClean" \in flags[e] THEN F.props[e]
                   ELSE IF prop[e] = Unset THEN Absent ELSE prop[e]
  OBVIOUS
<1>7. Wrote(F, g, e, r, F.props[e])
  <2>1. CASE parent[e] = Nowhere
    <3>1. a = Command("updateEntityWithoutLoc", e, Absent) /\ r = F.rows[e]
      BY <1>1, <1>5, <2>1
    <3> QED BY <1>3, <1>4, <3>1, Effects
  <2>2. CASE parent[e] # Nowhere
    <3>1. a = Command("updateEntity", e, parent[e])
      BY <1>1, <2>2
    <3>2. Wrote(F, g, e, IF F.rows[e] = Absent THEN Absent ELSE parent[e], F.props[e])
      BY <1>3, <1>4, <3>1, Effects
    <3> QED BY <1>5, <2>2, <3>2
  <2> QED BY <2>1, <2>2
<1>8. g \in Tables /\ g.rows[e] = r /\ g.props[e] = F.props[e]
  BY <1>7 DEF Wrote
<1>9. CASE prop[e] = Absent \/ "propClean" \in flags[e]
  <2>1. UpdateCommands(e) = <<a>>
    <3>1. UpdateCommands(e) = <<a>> \o <<>>
      BY <1>1, <1>9, Zenon DEF UpdateCommands
    <3> QED BY <1>2, <3>1, Joined
  <2>2. s \o <<a>> \in Seq(Commands) /\ After(d, s \o <<a>>) = g
    BY <1>2, <1>4, AfterMore
  <2> QED BY <1>5, <1>6, <1>7, <1>9, <2>1, <2>2
<1>10. CASE ~(prop[e] = Absent \/ "propClean" \in flags[e])
  <2>1. PICK b : b = IF prop[e] = Unset THEN Command("deleteProperty", e, Absent)
                     ELSE Command("upsertProperties", e, prop[e])
    OBVIOUS
  <2>2. b \in Commands
    BY <1>10, <2>1, CommandTypes
  <2>3. UpdateCommands(e) = <<a, b>>
    <3>1. CASE prop[e] = Unset
      <4>1. UpdateCommands(e) = <<a>> \o <<b>>
        BY <1>1, <1>10, <2>1, <3>1, Zenon DEF UpdateCommands
      <4> QED BY <1>2, <2>2, <4>1, Joined
    <3>2. CASE prop[e] # Unset
      <4>1. UpdateCommands(e) = <<a>> \o <<b>>
        BY <1>1, <1>10, <2>1, <3>2, Zenon DEF UpdateCommands
      <4> QED BY <1>2, <2>2, <4>1, Joined
    <3> QED BY <3>1, <3>2
  <2>4. s \o <<a, b>> \in Seq(Commands) /\ After(d, s \o <<a, b>>) = Apply(g, b)
    BY <1>2, <1>4, <2>2, AfterMore
  <2>5. Wrote(g, Apply(g, b), e, r, q)
    <3>1. CASE prop[e] = Unset
      BY <1>6, <1>8, <1>10, <2>1, <3>1, Effects
    <3>2. CASE prop[e] # Unset
      BY <1>6, <1>8, <1>10, <2>1, <3>2, Effects
    <3> QED BY <3>1, <3>2
  <2>6. Wrote(F, Apply(g, b), e, r, q)
    BY <1>7, <2>5, WroteTwice
  <2> QED BY <1>5, <1>6, <2>3, <2>4, <2>6
<1> QED BY <1>9, <1>10

\* Command c may change the row that x has, or the one it has not.
Touches(c, x, had) ==
    c.id = x /\ c.op \in IF had THEN {"updateEntity", "deleteEntity"} ELSE {"insertEntity"}

LEMMA UntouchedByOne ==
    ASSUME NEW d \in Tables, NEW c \in Commands, NEW x \in Entities,
           ~Touches(c, x, d.rows[x] # Absent)
    PROVE  Apply(d, c).rows[x] = d.rows[x]
<1>1. /\ c.id \in Entities
      /\ \/ c.op \in {"insertEntity", "updateEntity"} /\ c.arg \in Places
         \/ c.op = "upsertProperties" /\ c.arg \in Settings
         \/ c.op \in {"updateEntityWithoutLoc", "deleteProperty", "deleteProperties",
                      "deleteEntity", "deleteThoughts"}
  BY DEF Commands
<1>2. ASSUME NEW a
      PROVE  /\ [d EXCEPT !.rows[c.id] = a].rows = [d.rows EXCEPT ![c.id] = a]
             /\ [d EXCEPT !.props[c.id] = a].rows = d.rows
  BY DEF Tables
<1>3. d.rows \in [Entities -> Places \cup {Absent}]
  BY DEF Tables
<1>4. CASE c.id # x
  <2>1. \A a : [d.rows EXCEPT ![c.id] = a][x] = d.rows[x]
    BY <1>3, <1>4
  <2>2. Apply(d, c).rows \in {d.rows} \cup {[d.rows EXCEPT ![c.id] = a] : a \in {c.arg, Absent}}
    BY <1>1, <1>2 DEF Apply
  <2> QED BY <2>1, <2>2
<1>5. CASE c.id = x /\ c.op \in {"insertEntity", "updateEntity", "deleteEntity"}
  <2>1. CASE d.rows[x] = Absent
    <3>1. c.op = "updateEntity" \/ c.op = "deleteEntity"
      BY <1>5, <2>1 DEF Touches
    <3>2. CASE c.op = "updateEntity"
      BY <1>5, <2>1, <3>2 DEF Apply
    <3>3. CASE c.op = "deleteEntity"
      <4>1. Apply(d, c) = [d EXCEPT !.rows[c.id] = Absent]
        BY <3>3 DEF Apply
      <4> QED BY <1>2, <1>3, <1>5, <2>1, <4>1
    <3> QED BY <3>1, <3>2, <3>3
  <2>2. CASE d.rows[x] # Absent
    <3>1. c.op = "insertEntity"
      BY <1>5, <2>2 DEF Touches
    <3> QED BY <1>5, <2>2, <3>1 DEF Apply
  <2> QED BY <2>1, <2>2
<1>6. CASE c.id = x /\ c.op \notin {"insertEntity", "updateEntity", "deleteEntity"}
  BY <1>1, <1>2, <1>6 DEF Apply
<1> QED BY <1>4, <1>5, <1>6

LEMMA Untouched ==
    ASSUME NEW d \in Tables, NEW s \in Seq(Commands), NEW x \in Entities,
           \A c \in Range(s) : ~Touches(c, x, d.rows[x] # Absent)
    PROVE  After(d, s).rows[x] = d.rows[x]
<1>1. PICK h : Runs(h, d, s) /\ After(d, s) = h[Len(s)]
  BY FoldRuns DEF After
<1>2. Len(s) \in Nat /\ DOMAIN s = 1 .. Len(s) /\ \A i \in 1 .. Len(s) : s[i] \in Commands
  OBVIOUS
<1> DEFINE Good == {i \in Nat : i <= Len(s) => h[i].rows[x] = d.rows[x]}
<1>3. 0 \in Good
  BY <1>2, <1>1 DEF Runs
<1>4. ASSUME NEW i \in Nat, i \in Good PROVE i + 1 \in Good
  <2>1. ASSUME i + 1 <= Len(s) PROVE h[i + 1].rows[x] = d.rows[x]
    <3>1. i \in 0 .. Len(s) /\ i + 1 \in 1 .. Len(s) /\ (i + 1) - 1 = i /\ h[i].rows[x] = d.rows[x]
      BY <1>2, <1>4, <2>1
    <3>2. h[i + 1] = Apply(h[i], s[i + 1]) /\ h[i] \in Tables
      BY <1>1, <3>1 DEF Runs
    <3>3. s[i + 1] \in Range(s) /\ s[i + 1] \in Commands
      BY <1>2, <3>1 DEF Range
    <3>4. ~Touches(s[i + 1], x, h[i].rows[x] # Absent)
      BY <3>1, <3>3
    <3> QED BY <3>1, <3>2, <3>3, <3>4, UntouchedByOne
  <2> QED BY <2>1
<1>5. \A i \in Nat : i \in Good
  <2> HIDE DEF Good
  <2> QED BY <1>3, <1>4, NumberInduction
<1> QED BY <1>1, <1>2, <1>5

\* What is destroyed stays so.
Lasting(f, g) == \A x \in Entities : "destroyed" \in f[x] => "destroyed" \in g[x]

LEMMA SparedStay ==
    ASSUME NEW f, NEW s \in Seq(Spared(f))
    PROVE  /\ s \in Seq(Commands)
           /\ \A g : Lasting(f, g) => s \in Seq(Spared(g))
<1>1. s \in Seq(Commands)
  <2>1. Spared(f) \subseteq Commands
    BY DEF Spared
  <2>2. PICK A : A = Spared(f)
    OBVIOUS
  <2> QED BY <2>1, <2>2
<1>2. ASSUME NEW g, Lasting(f, g) PROVE s \in Seq(Spared(g))
  <2>1. \A c \in Commands : c.id \in Entities
    BY DEF Commands
  <2>2. Spared(f) \subseteq Spared(g)
    BY <1>2, <2>1 DEF Spared, Lasting
  <2>3. PICK A, B : A = Spared(f) /\ B = Spared(g)
    OBVIOUS
  <2> QED BY <2>2, <2>3
<1> QED BY <1>1, <1>2

LEMMA RootRow ==
    ASSUME NEW f, NEW s \in Seq(Spared(f)), NEW d \in Tables, d.rows[Root] = Nowhere
    PROVE  After(d, s).rows[Root] = Nowhere
<1>1. s \in Seq(Commands) /\ Root \in Entities
  BY SparedStay DEF Entities
<1>2. \A c \in Range(s) : c \in Spared(f)
  <2>1. PICK A : A = Spared(f)
    OBVIOUS
  <2>2. s \in Seq(A)
    BY <2>1
  <2>3. \A c \in Range(s) : c \in A
    BY <2>2 DEF Range
  <2> QED BY <2>1, <2>3
<1>3. \A c \in Range(s) : ~Touches(c, Root, d.rows[Root] # Absent)
  BY <1>2 DEF Touches, Spared
<1> QED BY <1>1, <1>3, Untouched

\* The commands of a tick leave the root alone.
LEMMA SparedCommands ==
    ASSUME NEW f, NEW e \in Entities
    PROVE  /\ e \in Ids /\ "destroyed" \in f[e] => Command("deleteEntity", e, Absent) \in Spared(f)
           /\ e \in Ids => \A a \in Places : /\ Command("insertEntity", e, a) \in Spared(f)
                                             /\ Command("updateEntity", e, a) \in Spared(f)
           /\ \A a \in Settings : Command("upsertProperties", e, a) \in Spared(f)
           /\ \A op \in {"updateEntityWithoutLoc", "deleteProperty", "deleteProperties",
                         "deleteThoughts"} : Command(op, e, Absent) \in Spared(f)
<1>1. e \in Ids => e # Root
  BY DEF Ids, Root
<1>2. e \in Ids /\ "destroyed" \in f[e] => Command("deleteEntity", e, Absent) \in Spared(f)
  BY <1>1 DEF Command, Commands, Spared
<1>3. e \in Ids => \A a \in Places : Command("insertEntity", e, a) \in Spared(f)
  BY <1>1 DEF Command, Commands, Spared
<1>4. e \in Ids => \A a \in Places : Command("updateEntity", e, a) \in Spared(f)
  BY <1>1 DEF Command, Commands, Spared
<1>5. \A a \in Settings : Command("upsertProperties", e, a) \in Spared(f)
  BY DEF Command, Commands, Spared
<1>6. \A op \in {"updateEntityWithoutLoc", "deleteProperty", "deleteProperties",
                 "deleteThoughts"} : Command(op, e, Absent) \in Spared(f)
  BY DEF Command, Commands, Spared
<1> QED BY <1>2, <1>3, <1>4, <1>5, <1>6

-----------------------------------------------------------------------------
\* The operations of the main thread.

LEMMA RunFacts ==
    ASSUME RunInv
    PROVE  /\ World \in Worlds
           /\ World.parent = parent /\ World.flags = flags
           /\ World.dirty = dirty /\ World.gone = gone /\ World.missed = missed
           /\ parent \in [Entities -> Places] /\ flags \in [Entities -> SUBSET Flags]
           /\ dirty \in Seq(Entities) /\ gone \in Seq(Ids) /\ missed \in SUBSET Entities
           /\ Range(dirty) \subseteq Entities /\ Range(gone) \subseteq Ids
           /\ Range(unstored) \subseteq Ids
           /\ Root \in Entities /\ Ids \subseteq Entities /\ Root \notin Ids
           /\ Root \in entities /\ Fresh \subseteq Ids
           /\ pending \in Seq(Commands) /\ Final \in Tables /\ Final = After(db, pending)
<1>1. /\ World.parent = parent /\ World.flags = flags
      /\ World.dirty = dirty /\ World.gone = gone /\ World.missed = missed
  BY DEF World
<1>2. World \in Worlds
  BY DEF RunInv, Kept
<1>3. Range(unstored) \subseteq Ids
  BY DEF RunInv, Range
<1>4. Root \notin Ids /\ Fresh \subseteq Ids /\ Root \in entities
  BY DEF Ids, Root, Fresh, RunInv, Tree
<1>5. pending \in Seq(Commands)
  BY SparedStay DEF RunInv
<1>6. Final = After(db, pending)
  BY DEF Final, After
<1>7. Final \in Tables
  BY <1>5, <1>6, AfterOne DEF RunInv
<1> QED BY <1>1, <1>2, <1>3, <1>4, <1>5, <1>6, <1>7, WorldFields, WorldTypes

LEMMA SettingFacts ==
    ASSUME NEW k, k = Setting
    PROVE  /\ k.live = entities /\ k.new = Range(unstored) /\ k.dying = {}
           /\ k.coming = (IF tick = "inserted" THEN {Head(unstored)} ELSE {})
           /\ k.busy = (IF tick = "updated" THEN {Head(dirty)} ELSE {})
           /\ k.p = prop /\ k.F = Final
           /\ Now(k)
<1>1. /\ k.live = entities /\ k.new = Range(unstored) /\ k.dying = {}
      /\ k.coming = (IF tick = "inserted" THEN {Head(unstored)} ELSE {})
      /\ k.busy = (IF tick = "updated" THEN {Head(dirty)} ELSE {})
      /\ k.p = prop /\ k.F = Final
  BY DEF Setting
<1> QED BY <1>1 DEF Now

\* The changes of an operation are those of the world it leaves.
LEMMA BecomeIs ==
    ASSUME NEW v \in Worlds, Become(v)
    PROVE  World' = v
BY WorldFields DEF Become, World

\* Nothing that matters for what is stored of x differs.
Same(w, k, v, j, x) ==
    /\ v.flags[x] = w.flags[x] /\ v.parent[x] = w.parent[x]
    /\ x \in v.missed <=> x \in w.missed
    /\ x \in Range(v.gone) <=> x \in Range(w.gone)
    /\ x \in Range(v.dirty) \ j.busy <=> x \in Range(w.dirty) \ k.busy
    /\ x \in j.live <=> x \in k.live
    /\ x \in j.new \ j.coming <=> x \in k.new \ k.coming
    /\ x \in j.dying <=> x \in k.dying
    /\ j.p[x] = k.p[x] /\ j.F.rows[x] = k.F.rows[x] /\ j.F.props[x] = k.F.props[x]

LEMMA SameSound ==
    ASSUME NEW w, NEW k, NEW M, NEW v, NEW j, NEW N, NEW x, Same(w, k, v, j, x),
           Sound(w, k, M, x), x \in M => x \in N
    PROVE  Sound(v, j, N, x)
<1>1. Due(v, j, x) <=> Due(w, k, x)
  BY DEF Same, Due
<1>2. Matches(j, x) <=> Matches(k, x)
  BY DEF Same, Matches
<1>3. PropKept(w, k, x) => PropKept(v, j, x)
  BY <1>1, <1>2 DEF Same, PropKept
<1>4. RowKept(w, k, x) => RowKept(v, j, x)
  BY <1>1 DEF Same, RowKept
<1>5. Stored(w, k, x) => Stored(v, j, x)
  BY <1>2, <1>3 DEF Same, Stored
<1>6. Dropped(w, k, x) => Dropped(v, j, x)
  BY DEF Same, Dropped
<1>7. /\ v.flags[x] = w.flags[x]
      /\ x \in v.missed <=> x \in w.missed
      /\ x \in j.live <=> x \in k.live
  BY DEF Same
<1> QED BY <1>4, <1>5, <1>6, <1>7 DEF Sound

\* A change of one entity.
LEMMA KeptSame ==
    ASSUME NEW w, NEW k, NEW M, Kept(w, k, M), NEW v \in Worlds, NEW j, Marked(v, j),
           j.live \cup j.new \subseteq Entities, j.coming \subseteq j.new,
           NEW e, NEW N, M \subseteq N \cup {e},
           \A x \in Entities \ {e} : Same(w, k, v, j, x),
           Sound(v, j, N, e)
    PROVE  Kept(v, j, N)
<1>1. ASSUME NEW x \in Entities PROVE Sound(v, j, N, x)
  <2>1. CASE x = e
    BY <2>1
  <2>2. CASE x # e
    <3>1. Sound(w, k, M, x) /\ Same(w, k, v, j, x)
      BY <2>2 DEF Kept
    <3>2. x \in M => x \in N
      BY <2>2
    <3> QED BY <3>1, <3>2, SameSound
  <2> QED BY <2>1, <2>2
<1> QED BY <1>1 DEF Kept

\* A step of the main thread: it writes nothing.
LEMMA MainStep ==
    ASSUME RunInv, NEW v, World' = v, UNCHANGED <<tick, dbVars>>,
           entities' \in SUBSET Entities, prop' \in [Entities -> Settings \cup {Absent}],
           unstored' \in Seq(Ids), IsInjective(unstored'),
           \A e \in Range(unstored') : e \in entities' \/ "destroyed" \in v.flags[e],
           unstored # <<>> => unstored' # <<>> /\ Head(unstored') = Head(unstored),
           dirty # <<>> => v.dirty # <<>> /\ Head(v.dirty) = Head(dirty),
           Lasting(flags, v.flags), Tree(v.parent, entities'), idGenerator' \in 0 .. MaxId,
           \A e \in Fresh' : /\ e \in Fresh /\ e \notin entities'
                             /\ v.flags[e] = {} /\ v.parent[e] = Nowhere,
           NEW j, Kept(v, j, {}), j.live = entities', j.new = Range(unstored'),
           j = [live |-> j.live, new |-> j.new, coming |-> Setting.coming,
                busy |-> Setting.busy, dying |-> {}, p |-> prop', F |-> Final]
    PROVE  RunInv'
<1>1. /\ parent' = v.parent /\ flags' = v.flags /\ dirty' = v.dirty
  BY DEF World
<1>2. Final' = Final /\ UNCHANGED <<tick, pending, db>>
  BY DEF Final, dbVars
<1>3. tick = "inserted" => unstored # <<>>
  BY DEF RunInv
<1>4. tick = "updated" => dirty # <<>>
  BY DEF RunInv
<1>5. Setting' = j
  <2>1. Setting.coming = IF tick' = "inserted" THEN {Head(unstored')} ELSE {}
    BY <1>2, <1>3 DEF Setting
  <2>2. Setting.busy = IF tick' = "updated" THEN {Head(dirty')} ELSE {}
    BY <1>1, <1>2, <1>4 DEF Setting
  <2> QED BY <1>2, <2>1, <2>2 DEF Setting
<1>6. Kept(World, Setting, {})'
  BY <1>5
<1>7. Tree(parent, entities)'
  BY <1>1
<1>8. pending' \in Seq(Spared(flags'))
  <2>1. pending \in Seq(Spared(flags)) /\ Lasting(flags, flags')
    BY <1>1 DEF RunInv
  <2> QED BY <1>2, <2>1, SparedStay
<1>9. db' \in Tables /\ db'.rows[Root] = Nowhere
  BY <1>2 DEF RunInv
<1>10. \A e \in Fresh' : /\ e \notin entities'
                         /\ flags'[e] = {} /\ parent'[e] = Nowhere
                         /\ Final'.rows[e] = Absent
  BY <1>1, <1>2 DEF RunInv
<1>11. /\ tick' = "inserted" => unstored' # <<>>
       /\ tick' = "updated" => dirty' # <<>>
  BY <1>1, <1>2, <1>3, <1>4
<1>12. \A e \in Range(unstored') : e \in entities' \/ "destroyed" \in flags'[e]
  BY <1>1
<1> QED BY <1>6, <1>7, <1>8, <1>9, <1>10, <1>11, <1>12 DEF RunInv

\* ... that leaves the entities and the queue of unstored ones.
LEMMA StayStep ==
    ASSUME RunInv, NEW v, World' = v, UNCHANGED <<tick, dbVars, entities, unstored, idGenerator>>,
           prop' \in [Entities -> Settings \cup {Absent}],
           dirty # <<>> => v.dirty # <<>> /\ Head(v.dirty) = Head(dirty),
           Lasting(flags, v.flags), Tree(v.parent, entities),
           \A e \in Fresh : v.flags[e] = {} /\ v.parent[e] = Nowhere,
           NEW j, Kept(v, j, {}),
           j = [live |-> entities, new |-> Range(unstored), coming |-> Setting.coming,
                busy |-> Setting.busy, dying |-> {}, p |-> prop', F |-> Final]
    PROVE  RunInv'
<1>1. /\ entities' \in SUBSET Entities
      /\ unstored' \in Seq(Ids) /\ IsInjective(unstored')
      /\ idGenerator' \in 0 .. MaxId
      /\ Tree(v.parent, entities')
  BY DEF RunInv
<1>2. \A e \in Range(unstored') : e \in entities' \/ "destroyed" \in v.flags[e]
  <2>1. \A e \in Range(unstored) : e \in Entities
    BY RunFacts
  <2> QED BY <2>1 DEF RunInv, Lasting
<1>3. Fresh' = Fresh
  BY DEF Fresh
<1>4. \A e \in Fresh' : /\ e \in Fresh /\ e \notin entities'
                        /\ v.flags[e] = {} /\ v.parent[e] = Nowhere
  BY <1>3 DEF RunInv
<1>5. /\ j.live = entities' /\ j.new = Range(unstored')
      /\ j = [live |-> j.live, new |-> j.new, coming |-> Setting.coming,
              busy |-> Setting.busy, dying |-> {}, p |-> prop', F |-> Final]
  OBVIOUS
<1>6. unstored # <<>> => unstored' # <<>> /\ Head(unstored') = Head(unstored)
  OBVIOUS
<1> QED BY <1>1, <1>2, <1>4, <1>5, <1>6, MainStep

\* What Grows says of flags, for the steps below.
LEMMA GrowsLasting ==
    ASSUME NEW w, NEW v, Grows(w, v)
    PROVE  Lasting(w.flags, v.flags)
<1>1. "destroyed" \notin Light
  BY DEF Light
<1> QED BY <1>1, GrowsFlags DEF Lasting

\* moveOurselves
LEMMA MoveStep ==
    ASSUME RunInv, NEW e \in Entities, NEW to \in Entities, MoveOperation(e, to)
    PROVE  RunInv'
<1>1. PICK v : v = MoveOurselves(World, e, to)
  OBVIOUS
<1>2. /\ UNCHANGED <<entities, prop, unstored, tick, dbVars, idGenerator>>
      /\ e \in entities \ {Root} /\ to \in entities /\ e \notin Within(to)
      /\ Become(v)
  BY <1>1 DEF MoveOperation, MayMove
<1>3. PICK w, j : w = World /\ j = Setting
  OBVIOUS
<1>4. Kept(v, j, {}) /\ Moved(w, v, e, to)
  <2>1. Kept(w, j, {}) /\ Now(j)
    BY <1>3, SettingFacts DEF RunInv
  <2> QED BY <1>1, <1>3, <2>1, MoveOurselvesKeeps
<1>5. World' = v
  BY <1>2, <1>4, BecomeIs DEF Kept
<1>6. v.parent = [parent EXCEPT ![e] = to]
  BY <1>3, <1>4, RunFacts DEF Moved, PutIn
<1>7. Grows(w, v) /\ \A x \in Entities \ {e} : "connected" \notin flags[x] => v.flags[x] = flags[x]
  BY <1>3, <1>4, RunFacts DEF Moved, Near
<1>8. Lasting(flags, v.flags) /\ (dirty # <<>> => v.dirty # <<>> /\ Head(v.dirty) = Head(dirty))
  <2>1. Lasting(w.flags, v.flags)
    BY <1>7, GrowsLasting
  <2>2. w.flags = flags /\ w.dirty = dirty
    BY <1>3, RunFacts
  <2>3. w.dirty # <<>> => v.dirty # <<>> /\ Head(v.dirty) = Head(w.dirty)
    BY <1>7 DEF Grows
  <2> QED BY <2>1, <2>2, <2>3
<1>9. Tree(v.parent, entities)
  <2>1. PICK live, at : live = entities /\ live \in SUBSET Entities /\ at = v.parent
    BY DEF RunInv
  <2>2. parent \in [Entities -> Places] /\ Tree(parent, live)
    BY <2>1, RunFacts DEF RunInv
  <2>3. Tree(at, live)
    BY <1>2, <1>6, <2>1, <2>2, TreeMoves
  <2> QED BY <2>1, <2>3
<1>10. ASSUME NEW x \in Fresh PROVE v.flags[x] = {} /\ v.parent[x] = Nowhere
  <2>1. x # e /\ x \in Entities /\ flags[x] = {} /\ parent[x] = Nowhere
    BY <1>2, RunFacts DEF RunInv
  <2> QED BY <1>6, <1>7, <2>1, RunFacts
<1>11. prop' \in [Entities -> Settings \cup {Absent}]
  BY <1>2 DEF RunInv
<1>12. j = [live |-> entities, new |-> Range(unstored), coming |-> Setting.coming,
            busy |-> Setting.busy, dying |-> {}, p |-> prop', F |-> Final]
  BY <1>2, <1>3 DEF Setting
<1> QED BY <1>2, <1>4, <1>5, <1>8, <1>9, <1>10, <1>11, <1>12, StayStep

\* LocatedEntity::SetOperation
LEMMA SetStep ==
    ASSUME RunInv, NEW e \in Entities, NEW c \in Settings, SetOperation(e, c)
    PROVE  RunInv'
<1>1. /\ UNCHANGED <<entities, parent, dirty, gone, missed, unstored, tick, dbVars, idGenerator>>
      /\ e \in entities /\ prop' = [prop EXCEPT ![e] = c]
      /\ flags' = [flags EXCEPT ![e] = (flags[e] \ {"propClean", "clean"})
                                            \cup {"unsent", "updateQueued"}]
  BY DEF SetOperation, queueVars
<1>2. PICK w, v, k : w = World /\ v = World' /\ k = Setting
  OBVIOUS
<1>3. PICK j : j = [live |-> entities, new |-> Range(unstored), coming |-> Setting.coming,
                    busy |-> Setting.busy, dying |-> {}, p |-> prop', F |-> Final]
  OBVIOUS
<1>4. /\ j.live = k.live /\ j.new = k.new /\ j.coming = k.coming /\ j.busy = k.busy
      /\ j.dying = k.dying /\ j.F = k.F /\ j.p = [k.p EXCEPT ![e] = c]
      /\ k.live = entities
  BY <1>1, <1>2, <1>3, SettingFacts
<1>5. Kept(w, k, {}) /\ w.flags = flags /\ w.parent = parent
  BY <1>2, RunFacts DEF RunInv
<1>6. /\ flags' \in [Entities -> SUBSET Flags]
      /\ flags'[e] = (flags[e] \ {"propClean", "clean"}) \cup {"unsent", "updateQueued"}
      /\ \A x \in Entities \ {e} : flags'[x] = flags[x]
  <2>1. (flags[e] \ {"propClean", "clean"}) \cup {"unsent", "updateQueued"} \in SUBSET Flags
    BY RunFacts DEF Flags
  <2> QED BY <1>1, <2>1, RunFacts
<1>7. /\ v \in Worlds /\ v.parent = w.parent /\ v.flags = flags' /\ v.dirty = w.dirty
      /\ v.gone = w.gone /\ v.missed = w.missed
  BY <1>1, <1>2, <1>6, RunFacts DEF World, Worlds
<1>8. \A x \in Entities : \A f \in {"connected", "queued", "stored", "ephem", "destroyed"} :
            f \in v.flags[x] <=> f \in w.flags[x]
  BY <1>5, <1>6, <1>7
<1>9. Marked(v, j)
  <2>1. Marked(v, k)
    BY <1>5, <1>7, <1>8, MarksStay
  <2> QED BY <1>4, <2>1 DEF Marked
<1>10. prop' \in [Entities -> Settings \cup {Absent}] /\ k.p = prop /\ c # Absent
  BY <1>1, <1>2, SettingFacts, StorageManagerAssumption DEF RunInv, Settings
<1>11. \A x \in Entities \ {e} : Same(w, k, v, j, x)
  <2>1. \A x \in Entities \ {e} : j.p[x] = k.p[x]
    BY <1>1, <1>4, <1>10 DEF RunInv
  <2> QED BY <1>4, <1>5, <1>6, <1>7, <2>1 DEF Same
<1>12. Sound(v, j, {}, e)
  <2>1. Sound(w, k, {}, e) /\ e \in k.live /\ "destroyed" \notin w.flags[e]
    BY <1>1, <1>4, <1>5 DEF Kept, Marked
  <2>2. /\ "propClean" \notin v.flags[e] /\ "clean" \notin v.flags[e]
        /\ {"unsent", "updateQueued"} \subseteq v.flags[e]
        /\ "stored" \in v.flags[e] <=> "stored" \in w.flags[e]
        /\ "destroyed" \notin v.flags[e]
    BY <1>5, <1>6, <1>7, <2>1
  <2>3. j.p[e] = c /\ j.p[e] # Absent
    BY <1>4, <1>10 DEF RunInv
  <2>4. PropKept(v, j, e)
    BY <2>2 DEF PropKept
  <2>5. Stored(v, j, e)
    BY <1>4, <2>1, <2>2, <2>3, <2>4 DEF Stored, Sound
  <2>6. RowKept(w, k, e) => RowKept(v, j, e)
    BY <1>4, <1>7, <2>2 DEF RowKept, Due
  <2> QED BY <1>7, <2>1, <2>2, <2>5, <2>6 DEF Sound
<1>13. Kept(v, j, {})
  <2>1. j.live \cup j.new \subseteq Entities /\ j.coming \subseteq j.new
    BY <1>4, <1>5 DEF Kept
  <2> QED BY <1>5, <1>7, <1>9, <1>11, <1>12, <2>1, KeptSame
<1>14. Lasting(flags, v.flags)
  BY <1>5, <1>8 DEF Lasting
<1>15. Tree(v.parent, entities) /\ \A x \in Fresh : v.flags[x] = {} /\ v.parent[x] = Nowhere
  <2>1. \A x \in Fresh : x # e /\ x \in Entities
    BY <1>1, RunFacts DEF RunInv
  <2> QED BY <1>5, <1>6, <1>7, <2>1 DEF RunInv
<1>16. v.dirty = dirty
  BY <1>2, <1>7, RunFacts
<1> QED BY <1>1, <1>2, <1>3, <1>10, <1>13, <1>14, <1>15, <1>16, StayStep

\* updateProperties: what e has to store is on record in its flags.
LEMMA UnsendIs ==
    ASSUME NEW w \in Worlds, NEW e \in Entities, NEW v, v = Unsend(w, e)
    PROVE  \E f \in SUBSET Flags :
            /\ Reflagged(w, v, e, f)
            /\ f = w.flags[e] \ ((IF "unsent" \in w.flags[e] THEN {"propClean"} ELSE {})
                                    \cup {"unsent", "locUnsent", "clean"})
<1>1. PICK f, g : f = {"propClean"} /\ g = {"unsent", "locUnsent", "clean"}
  OBVIOUS
<1>2. f \in SUBSET Flags /\ g \in SUBSET Flags
  BY <1>1 DEF Flags
<1>3. PICK u : u = IF "unsent" \in w.flags[e] THEN RemoveFlags(w, e, f) ELSE w
  OBVIOUS
<1>4. v = RemoveFlags(u, e, g)
  BY <1>1, <1>3 DEF Unsend
<1>5. w.flags \in [Entities -> SUBSET Flags]
  BY WorldFields
<1>6. PICK h : h = IF "unsent" \in w.flags[e] THEN w.flags[e] \ f ELSE w.flags[e]
  OBVIOUS
<1>7. Reflagged(w, u, e, h)
  <2>1. CASE "unsent" \in w.flags[e]
    BY <1>2, <1>3, <1>6, <2>1, FlagsChange
  <2>2. CASE "unsent" \notin w.flags[e]
    <3>1. [w.flags EXCEPT ![e] = h] = w.flags
      BY <1>5, <1>6, <2>2
    <3> QED BY <1>3, <2>2, <3>1 DEF Reflagged
  <2> QED BY <2>1, <2>2
<1>8. u.flags[e] = h /\ u \in Worlds
  BY <1>5, <1>7 DEF Reflagged
<1>9. Reflagged(u, v, e, h \ g)
  <2>1. Reflagged(u, v, e, u.flags[e] \ g)
    BY <1>2, <1>4, <1>8, FlagsChange
  <2> QED BY <1>8, <2>1
<1>10. Reflagged(w, v, e, h \ g)
  <2>1. [u.flags EXCEPT ![e] = h \ g] = [w.flags EXCEPT ![e] = h \ g]
    BY <1>5, <1>7 DEF Reflagged
  <2> QED BY <1>7, <1>9, <2>1 DEF Reflagged
<1>11. h \ g = w.flags[e] \ ((IF "unsent" \in w.flags[e] THEN {"propClean"} ELSE {})
                                    \cup {"unsent", "locUnsent", "clean"})
  BY <1>1, <1>6
<1>12. h \ g \in SUBSET Flags
  BY <1>5, <1>6
<1> QED BY <1>10, <1>11, <1>12

\* The Update op of e is done.
Done(w, e) == RemoveFlags(w, e, {"updateQueued"})

\* LocatedEntity::UpdateOperation
LEMMA UpdateStep ==
    ASSUME RunInv, NEW e \in Entities, UpdateOperation(e)
    PROVE  RunInv'
<1>1. /\ UNCHANGED <<entities, prop, unstored, tick, dbVars, idGenerator>> /\ e \in entities
  BY DEF UpdateOperation, serverVars
<1>2. PICK w, k : w = World /\ k = Setting
  OBVIOUS
<1>3. PICK u : u = Unsend(w, e)
  OBVIOUS
<1>4. PICK t : t = IF flags[e] \cap {"unsent", "locUnsent"} # {}
                   THEN Signal(u, e, "updated") ELSE w
  OBVIOUS
<1>5. PICK v : v = Done(t, e)
  OBVIOUS
<1>6. Become(v)
  BY <1>2, <1>3, <1>4, <1>5 DEF UpdateOperation, Done
<1>7. /\ Kept(w, k, {}) /\ w.flags = flags /\ w.parent = parent /\ w.dirty = dirty
      /\ w \in Worlds /\ flags \in [Entities -> SUBSET Flags] /\ Now(k)
      /\ k.live = entities /\ k.new = Range(unstored)
  BY <1>2, RunFacts, SettingFacts DEF RunInv
<1>8. /\ Sound(w, k, {}, e) /\ e \in k.live /\ "destroyed" \notin w.flags[e]
      /\ e \in k.new \/ "connected" \in w.flags[e] \/ "ephem" \in w.flags[e]
      /\ "stored" \in w.flags[e] => "ephem" \notin w.flags[e]
      /\ e \in k.new => "connected" \notin w.flags[e]
      /\ "connected" \notin w.flags[e] => e \notin Range(w.dirty)
  BY <1>1, <1>7 DEF Kept, Marked
<1>9. CASE flags[e] \cap {"unsent", "locUnsent"} = {}
  <2>1. t = w
    BY <1>4, <1>9
  <2>2. PICK f \in SUBSET Flags : f = {"updateQueued"}
    BY DEF Flags
  <2>3. PICK h : h = w.flags[e] \ f
    OBVIOUS
  <2>4. Reflagged(w, v, e, h)
    BY <1>5, <1>7, <2>1, <2>2, <2>3, FlagsChange DEF Done
  <2>5. /\ v \in Worlds /\ v.parent = w.parent /\ v.dirty = w.dirty /\ v.gone = w.gone
        /\ v.missed = w.missed /\ v.flags[e] = h
        /\ \A x \in Entities \ {e} : v.flags[x] = w.flags[x]
    BY <1>7, <2>4 DEF Reflagged
  <2>6. \A x \in Entities : \A g : g # "updateQueued" => (g \in v.flags[x] <=> g \in w.flags[x])
    BY <2>2, <2>3, <2>5
  <2>7. Marked(v, k)
    BY <1>7, <2>5, <2>6, MarksStay
  <2>8. \A x \in Entities \ {e} : Same(w, k, v, k, x)
    BY <2>5 DEF Same
  <2>9. Due(v, k, e) <=> Due(w, k, e)
    BY <2>5, <2>6 DEF Due
  <2>10. PropKept(w, k, e) => PropKept(v, k, e)
    <3>1. "unsent" \notin w.flags[e]
      BY <1>7, <1>9
    <3> QED BY <2>6, <2>9, <3>1 DEF PropKept
  <2>11. Stored(v, k, e) /\ (RowKept(w, k, e) => RowKept(v, k, e))
    BY <1>8, <2>5, <2>6, <2>9, <2>10 DEF Stored, Sound, RowKept
  <2>12. Sound(v, k, {}, e)
    BY <1>8, <2>5, <2>6, <2>11 DEF Sound
  <2>13. Kept(v, k, {})
    <3>1. k.live \cup k.new \subseteq Entities /\ k.coming \subseteq k.new
      BY <1>7 DEF Kept
    <3> QED BY <1>7, <2>5, <2>7, <2>8, <2>12, <3>1, KeptSame
  <2>14. World' = v
    BY <1>6, <2>5, BecomeIs
  <2>15. Lasting(flags, v.flags) /\ v.dirty = dirty /\ Tree(v.parent, entities)
    BY <1>7, <2>5, <2>6 DEF Lasting, RunInv
  <2>16. \A x \in Fresh : v.flags[x] = {} /\ v.parent[x] = Nowhere
    <3>1. \A x \in Fresh : x # e /\ x \in Entities
      BY <1>1, RunFacts DEF RunInv
    <3> QED BY <1>7, <2>5, <3>1 DEF RunInv
  <2>17. prop' \in [Entities -> Settings \cup {Absent}]
    BY <1>1 DEF RunInv
  <2>18. k = [live |-> entities, new |-> Range(unstored), coming |-> Setting.coming,
              busy |-> Setting.busy, dying |-> {}, p |-> prop', F |-> Final]
    BY <1>1, <1>2 DEF Setting
  <2> QED BY <1>1, <2>13, <2>14, <2>15, <2>16, <2>17, <2>18, StayStep
<1>10. CASE flags[e] \cap {"unsent", "locUnsent"} # {}
  <2>1. t = Signal(u, e, "updated")
    BY <1>4, <1>10
  <2>2. PICK f \in SUBSET Flags :
            /\ Reflagged(w, u, e, f)
            /\ f = w.flags[e] \ ((IF "unsent" \in w.flags[e] THEN {"propClean"} ELSE {})
                                    \cup {"unsent", "locUnsent", "clean"})
    BY <1>3, <1>7, UnsendIs
  <2>3. /\ u \in Worlds /\ u.parent = w.parent /\ u.dirty = w.dirty /\ u.gone = w.gone
        /\ u.missed = w.missed /\ u.flags[e] = f
        /\ \A x \in Entities \ {e} : u.flags[x] = w.flags[x]
    BY <1>7, <2>2 DEF Reflagged
  <2>4. \A g : g \notin {"propClean", "unsent", "locUnsent", "clean"}
                => (g \in u.flags[e] <=> g \in w.flags[e])
    BY <2>2, <2>3
  <2>5. \A x \in Entities : \A g \in {"connected", "queued", "stored", "ephem", "destroyed", "updateQueued"} :
            g \in u.flags[x] <=> g \in w.flags[x]
    BY <2>3, <2>4
  <2>6. "clean" \notin u.flags[e] /\ ("propClean" \in u.flags[e] => "propClean" \in w.flags[e])
    BY <2>2, <2>3
  <2>7. PICK j : j = [live |-> k.live \ {e}, new |-> k.new, coming |-> k.coming, busy |-> k.busy,
                      dying |-> k.dying, p |-> k.p, F |-> k.F]
    OBVIOUS
  <2>8. /\ j.live = k.live \ {e} /\ j.new = k.new /\ j.coming = k.coming /\ j.busy = k.busy
        /\ j.dying = k.dying /\ j.p = k.p /\ j.F = k.F
    BY <2>7
  <2>9. Kept(u, j, {})
    <3>1. Marked(u, k)
      BY <1>7, <2>3, <2>5, MarksStay
    <3>2. Marked(u, j)
      BY <2>8, <3>1 DEF Marked
    <3>3. \A x \in Entities \ {e} : Same(w, k, u, j, x)
      BY <2>3, <2>8 DEF Same
    <3>4. Sound(u, j, {}, e)
      BY <1>8, <2>5, <2>8 DEF Sound
    <3>5. j.live \cup j.new \subseteq Entities /\ j.coming \subseteq j.new
      BY <1>7, <2>8 DEF Kept
    <3> QED BY <1>7, <2>3, <3>2, <3>3, <3>4, <3>5, KeptSame
  <2>10. /\ Kept(t, j, {}) /\ Near(u, t, {}) /\ t.parent = u.parent
         /\ /\ "stored" \in u.flags[e] /\ "destroyed" \notin u.flags[e]
            /\ e \in j.new \/ "connected" \in u.flags[e]
            /\ e \notin j.new \ j.coming
            => e \in t.missed \cup (Range(t.dirty) \ j.busy)
    <3>1. Now(j)
      BY <1>7, <2>8 DEF Now
    <3> QED BY <2>1, <2>9, <3>1, SignalKeeps
  <2>11. PICK g \in SUBSET Flags : g = {"updateQueued"}
    BY DEF Flags
  <2>12. PICK h : h = t.flags[e] \ g
    OBVIOUS
  <2>13. t \in Worlds /\ t.flags \in [Entities -> SUBSET Flags]
    BY <2>10, WorldFields DEF Kept
  <2>14. Reflagged(t, v, e, h)
    BY <1>5, <2>11, <2>12, <2>13, FlagsChange DEF Done
  <2>15. /\ v \in Worlds /\ v.parent = t.parent /\ v.dirty = t.dirty /\ v.gone = t.gone
         /\ v.missed = t.missed /\ v.flags[e] = h
         /\ \A x \in Entities \ {e} : v.flags[x] = t.flags[x]
    BY <2>13, <2>14 DEF Reflagged
  <2>16. \A x \in Entities : \A y : y # "updateQueued" => (y \in v.flags[x] <=> y \in t.flags[x])
    BY <2>11, <2>12, <2>15
  <2>17. \A x \in Entities : \A y : y \notin Light => (y \in t.flags[x] <=> y \in u.flags[x])
    BY <2>10, GrowsFlags DEF Near
  <2>18. /\ "clean" \notin v.flags[e]
         /\ "propClean" \in v.flags[e] <=> "propClean" \in u.flags[e]
         /\ \A x \in Entities : \A y \in {"connected", "stored", "ephem", "destroyed"} :
                y \in v.flags[x] <=> y \in w.flags[x]
    <3>1. {"propClean", "connected", "stored", "ephem", "destroyed"} \cap Light = {}
      BY DEF Light
    <3>2. "clean" \notin t.flags[e]
      BY <2>6, <2>10 DEF Near, Grows
    <3> QED BY <2>5, <2>16, <2>17, <3>1, <3>2
  <2>19. /\ w.missed \subseteq v.missed /\ v.parent = w.parent
         /\ w.dirty # <<>> => v.dirty # <<>> /\ Head(v.dirty) = Head(w.dirty)
         /\ "connected" \notin w.flags[e] => e \notin Range(v.dirty)
    <3>1. /\ w.missed \subseteq v.missed /\ v.parent = w.parent
          /\ w.dirty # <<>> => v.dirty # <<>> /\ Head(v.dirty) = Head(w.dirty)
      BY <2>3, <2>10, <2>15 DEF Near, Grows
    <3>2. "connected" \notin w.flags[e] => "connected" \notin t.flags[e]
      BY <2>15, <2>16, <2>18
    <3>3. "connected" \notin t.flags[e] => e \notin Range(t.dirty)
      BY <2>10 DEF Kept, Marked
    <3> QED BY <2>15, <3>1, <3>2, <3>3
  <2>20. Marked(v, k)
    <3>1. Marked(v, j)
      BY <2>10, <2>15, <2>16, MarksStay
    <3>2. "destroyed" \notin v.flags[e] /\ (e \in k.new \/ v.flags[e] \cap {"connected", "ephem"} # {})
      BY <1>8, <2>18
    <3>3. \A x \in k.live : x \in j.live \/ x = e
      BY <2>8
    <3> QED BY <2>8, <3>1, <3>2, <3>3 DEF Marked
  <2>21. "stored" \in w.flags[e] /\ e \notin v.missed \cup (k.new \ k.coming) => Due(v, k, e)
    BY <1>8, <2>5, <2>8, <2>10, <2>15, <2>18 DEF Due
  <2>22. "propClean" \in v.flags[e] => Matches(k, e)
    BY <1>8, <2>6, <2>18 DEF Sound, Stored
  <2>23. Stored(v, k, e)
    <3>1. /\ "stored" \in v.flags[e] <=> k.F.rows[e] # Absent
          /\ e \notin v.missed /\ "ephem" \notin v.flags[e] /\ k.p[e] = Absent
                => k.F.props[e] = Absent
      BY <1>8, <2>18, <2>19 DEF Sound, Stored
    <3>2. "stored" \in v.flags[e] /\ e \notin v.missed \cup (k.new \ k.coming) => PropKept(v, k, e)
      BY <2>18, <2>21, <2>22 DEF PropKept
    <3> QED BY <2>22, <3>1, <3>2 DEF Stored
  <2>24. "stored" \in v.flags[e] /\ e \notin v.missed => RowKept(v, k, e)
    <3>1. CASE e \in k.new
      <4>1. "connected" \notin w.flags[e] /\ ~Due(w, k, e)
        BY <1>8, <3>1 DEF Due
      <4>2. "stored" \in v.flags[e] /\ e \notin v.missed => RowKept(w, k, e)
        BY <1>8, <2>18, <2>19 DEF Sound
      <4> QED BY <2>19, <4>1, <4>2 DEF RowKept
    <3>2. CASE e \notin k.new
      BY <2>18, <2>21, <3>2 DEF RowKept
    <3> QED BY <3>1, <3>2
  <2>25. Sound(v, k, {}, e)
    BY <1>8, <2>18, <2>23, <2>24 DEF Sound
  <2>26. Kept(v, k, {})
    <3>1. \A x \in Entities \ {e} : Same(t, j, v, k, x)
      BY <2>8, <2>15 DEF Same
    <3>2. k.live \cup k.new \subseteq Entities /\ k.coming \subseteq k.new
      BY <1>7 DEF Kept
    <3> QED BY <2>10, <2>15, <2>20, <2>25, <3>1, <3>2, KeptSame
  <2>27. World' = v
    BY <1>6, <2>15, BecomeIs
  <2>28. Lasting(flags, v.flags) /\ Tree(v.parent, entities)
    BY <1>7, <2>18, <2>19 DEF Lasting, RunInv
  <2>29. \A x \in Fresh : v.flags[x] = {} /\ v.parent[x] = Nowhere
    <3>1. \A x \in Fresh : x # e /\ x \in Entities /\ flags[x] = {}
      BY <1>1, RunFacts DEF RunInv
    <3>2. \A x \in Entities \ {e} : "connected" \notin w.flags[x] => v.flags[x] = w.flags[x]
      BY <2>3, <2>10, <2>15 DEF Near
    <3> QED BY <1>7, <2>19, <3>1, <3>2 DEF RunInv
  <2>30. prop' \in [Entities -> Settings \cup {Absent}]
    BY <1>1 DEF RunInv
  <2>31. k = [live |-> entities, new |-> Range(unstored), coming |-> Setting.coming,
              busy |-> Setting.busy, dying |-> {}, p |-> prop', F |-> Final]
    BY <1>1, <1>2 DEF Setting
  <2> QED BY <1>1, <1>7, <2>19, <2>26, <2>27, <2>28, <2>29, <2>30, <2>31, StayStep
<1> QED BY <1>9, <1>10

\* The entity that is about to be added, and what the inserted signal does.
NewBorn(w, e, f) == [w EXCEPT !.flags[e] = f]
NewQueued(w, e) == AddFlags(w, e, {"queued"})

\* WorldRouter::addNewEntity
LEMMA AddStep ==
    ASSUME RunInv, NEW to \in Entities, NEW c \in Settings \cup {Absent}, NEW ephem \in BOOLEAN,
           AddNewEntity(to, c, ephem)
    PROVE  RunInv'
<1>1. PICK e : e = idGenerator + 1
  OBVIOUS
<1>2. PICK own : own = (IF c = Absent THEN {} ELSE {"unsent"})
                            \cup (IF ephem THEN {"ephem"} ELSE {})
  OBVIOUS
<1>3. PICK w, k : w = World /\ k = Setting
  OBVIOUS
<1>4. PICK w0 : w0 = NewBorn(w, e, own)
  OBVIOUS
<1>5. PICK w1 : w1 = ChangeContainer(w0, e, to)
  OBVIOUS
<1>6. PICK w2 : w2 = NewQueued(w1, e)
  OBVIOUS
<1>7. PICK v : v = IF ephem THEN w1 ELSE Inherits(w2, e, c)
  OBVIOUS
<1>8. /\ UNCHANGED <<tick, dbVars>> /\ idGenerator < MaxId /\ idGenerator' = e
      /\ entities' = entities \cup {e} /\ prop' = [prop EXCEPT ![e] = c] /\ to \in entities
      /\ unstored' = IF ephem THEN unstored ELSE Append(unstored, e)
      /\ Become(v)
  BY <1>1, <1>2, <1>3, <1>4, <1>5, <1>6, <1>7 DEF AddNewEntity, NewBorn, NewQueued
<1>9. /\ e \in Ids /\ e \in Fresh /\ e # Root /\ idGenerator' \in 0 .. MaxId
      /\ Fresh' = Fresh \ {e}
  BY <1>1, <1>8, StorageManagerAssumption DEF RunInv, Fresh, Ids, Root
<1>10. /\ e \in Entities /\ e \notin entities /\ flags[e] = {} /\ parent[e] = Nowhere
       /\ e \notin Range(unstored) /\ Final.rows[e] = Absent
  BY <1>9, RunFacts DEF RunInv
<1>11. /\ Kept(w, k, {}) /\ w.flags = flags /\ w.parent = parent /\ w.dirty = dirty
       /\ w \in Worlds /\ flags \in [Entities -> SUBSET Flags] /\ Now(k)
       /\ k.live = entities /\ k.new = Range(unstored) /\ k.p = prop /\ k.F = Final
       /\ k.dying = {} /\ k.coming = Setting.coming /\ k.busy = Setting.busy
  BY <1>3, RunFacts, SettingFacts DEF RunInv
<1>12. /\ own \in SUBSET Flags
       /\ {"connected", "stored", "destroyed", "propClean", "queued"} \cap own = {}
       /\ "ephem" \in own <=> ephem
  BY <1>2 DEF Flags
<1>13. Reflagged(w, w0, e, own)
  <2>1. w0 \in Worlds
    BY <1>4, <1>11, <1>12 DEF NewBorn, Worlds
  <2>2. /\ w0.parent = w.parent /\ w0.dirty = w.dirty /\ w0.gone = w.gone
        /\ w0.missed = w.missed /\ w0.flags = [w.flags EXCEPT ![e] = own]
    BY <1>4, <1>11 DEF NewBorn, Worlds
  <2> QED BY <2>1, <2>2 DEF Reflagged
<1>14. /\ w0 \in Worlds /\ w0.parent = w.parent /\ w0.dirty = w.dirty /\ w0.gone = w.gone
       /\ w0.missed = w.missed /\ w0.flags[e] = own
       /\ \A x \in Entities \ {e} : w0.flags[x] = w.flags[x]
  BY <1>10, <1>11, <1>13 DEF Reflagged
<1>15. Kept(w0, k, {})
  <2>1. Marked(w, k) /\ e \notin k.live \cup k.new /\ k.coming \subseteq k.new
    BY <1>10, <1>11 DEF Kept
  <2>2. e \notin Range(w.dirty) /\ e \notin Range(w.gone)
    BY <1>10, <1>11, <2>1 DEF Marked
  <2>3. /\ \A x \in Entities :
            /\ x \in Range(w0.dirty) <=> {"connected", "queued"} \subseteq w0.flags[x]
            /\ "connected" \in w0.flags[x] => "stored" \in w0.flags[x]
            /\ "stored" \in w0.flags[x] => "ephem" \notin w0.flags[x]
    BY <1>12, <1>14, <2>1, <2>2 DEF Marked
  <2>4. k.live \cup k.new \subseteq Entities /\ Range(w.gone) \subseteq Entities /\ Root \in Entities
    BY <1>11, WorldTypes DEF Kept
  <2>5. Marked(w0, k)
    BY <1>9, <1>14, <2>1, <2>2, <2>3, <2>4 DEF Marked
  <2>6. \A x \in Entities \ {e} : Same(w, k, w0, k, x)
    BY <1>14 DEF Same
  <2>7. Sound(w0, k, {}, e)
    BY <1>12, <1>14, <2>1 DEF Sound
  <2> QED BY <1>11, <1>14, <2>1, <2>4, <2>5, <2>6, <2>7, KeptSame
<1>16. Kept(w1, k, {}) /\ Moved(w0, w1, e, to)
  BY <1>5, <1>10, <1>11, <1>15, ChangeContainerKeeps
<1>17. /\ w1 \in Worlds /\ w1.flags \in [Entities -> SUBSET Flags]
       /\ w1.parent = [parent EXCEPT ![e] = to]
       /\ Grows(w0, w1)
       /\ \A x \in Entities \ {e} : "connected" \notin w0.flags[x] => w1.flags[x] = w0.flags[x]
  BY <1>11, <1>14, <1>16, WorldFields DEF Kept, Moved, PutIn, Near
<1>18. \A f \in {"connected", "stored", "destroyed", "propClean", "ephem"} :
            f \in w1.flags[e] <=> f \in own
  <2>1. {"connected", "stored", "destroyed", "propClean", "ephem"} \cap Light = {}
    BY DEF Light
  <2> QED BY <1>10, <1>14, <1>17, <2>1, GrowsFlags
\* The world v that the step leaves.
<1>19. /\ v \in Worlds /\ v.parent = w1.parent /\ v.dirty = w1.dirty /\ v.gone = w1.gone
       /\ \A x \in Entities \ {e} : /\ v.flags[x] = w1.flags[x]
                                    /\ x \in v.missed <=> x \in w1.missed
       /\ \A f : f # "queued" => (f \in v.flags[e] <=> f \in w1.flags[e])
       /\ ephem \/ c # Absent \/ Final.props[e] = Absent \/ e \in v.missed
  <2>1. CASE ephem
    BY <1>7, <1>17, <2>1
  <2>2. CASE ~ephem
    <3>1. PICK f \in SUBSET Flags : f = {"queued"}
      BY DEF Flags
    <3>2. PICK g : g = w1.flags[e] \cup f
      OBVIOUS
    <3>3. Reflagged(w1, w2, e, g)
      BY <1>6, <1>10, <1>17, <3>1, <3>2, FlagsChange DEF NewQueued
    <3>4. /\ w2 \in Worlds /\ w2.parent = w1.parent /\ w2.dirty = w1.dirty
          /\ w2.gone = w1.gone /\ w2.missed = w1.missed /\ w2.flags[e] = g
          /\ \A x \in Entities \ {e} : w2.flags[x] = w1.flags[x]
      BY <1>10, <1>17, <3>3 DEF Reflagged
    <3>5. CASE c = Absent /\ Final.props[e] # Absent
      <4>1. v = Missing(w2, e)
        BY <1>7, <2>2, <3>5 DEF Inherits, Missing
      <4>2. Requeued(w2, v, w2.dirty, w2.gone, w2.missed \cup {e})
        BY <1>10, <3>4, <4>1, QueueChange
      <4>3. /\ v \in Worlds /\ v.parent = w2.parent /\ v.dirty = w2.dirty
            /\ v.gone = w2.gone /\ v.flags = w2.flags /\ v.missed = w2.missed \cup {e}
        BY <4>2 DEF Requeued
      <4> QED BY <3>1, <3>2, <3>4, <4>3
    <3>6. CASE ~(c = Absent /\ Final.props[e] # Absent)
      <4>1. v = w2
        BY <1>7, <2>2, <3>6 DEF Inherits
      <4> QED BY <3>1, <3>2, <3>4, <3>6, <4>1
    <3> QED BY <3>5, <3>6
  <2> QED BY <2>1, <2>2
<1>20. \A f \in {"connected", "stored", "destroyed", "propClean", "ephem"} :
            f \in v.flags[e] <=> f \in own
  BY <1>18, <1>19
<1>21. /\ unstored' \in Seq(Ids) /\ IsInjective(unstored')
       /\ Range(unstored') = Range(unstored) \cup (IF ephem THEN {} ELSE {e})
       /\ unstored # <<>> => unstored' # <<>> /\ Head(unstored') = Head(unstored)
  <2>1. CASE ephem
    BY <1>8, <2>1 DEF RunInv
  <2>2. CASE ~ephem
    <3>1. PICK s : s = unstored /\ s \in Seq(Ids) /\ IsInjective(s) /\ e \notin Range(s)
      BY <1>10 DEF RunInv
    <3>2. unstored' = Append(s, e)
      BY <1>8, <2>2, <3>1
    <3>3. Range(Append(s, e)) = Range(s) \cup {e} /\ IsInjective(Append(s, e))
      BY <1>9, <3>1, AppendRange
    <3>4. Append(s, e) \in Seq(Ids) /\ (s # <<>> => Append(s, e) # <<>> /\ Head(Append(s, e)) = Head(s))
      BY <1>9, <3>1
    <3> QED BY <2>2, <3>1, <3>2, <3>3, <3>4
  <2> QED BY <2>1, <2>2
<1>22. PICK j : j = [live |-> entities', new |-> Range(unstored'), coming |-> Setting.coming,
                     busy |-> Setting.busy, dying |-> {}, p |-> prop', F |-> Final]
  OBVIOUS
<1>23. /\ j.live = entities \cup {e} /\ j.new = k.new \cup (IF ephem THEN {} ELSE {e})
       /\ j.coming = k.coming /\ j.busy = k.busy /\ j.dying = k.dying /\ j.F = k.F
       /\ j.p = prop'
  BY <1>8, <1>11, <1>21, <1>22
<1>24. /\ prop' \in [Entities -> Settings \cup {Absent}] /\ prop'[e] = c
       /\ \A x \in Entities \ {e} : prop'[x] = prop[x]
  BY <1>8, <1>10 DEF RunInv
<1>25. e \notin k.live \cup k.new /\ k.live \cup k.new \subseteq Entities /\ k.coming \subseteq k.new
  BY <1>10, <1>11 DEF Kept
<1>26. Marked(v, j)
  <2>1. Marked(w1, k)
    BY <1>16 DEF Kept
  <2>2. Range(w1.gone) \subseteq Entities /\ Root \in Entities
    BY <1>17, WorldTypes
  <2>3. e \notin Range(w1.gone) /\ e \notin Range(w1.dirty)
    BY <1>10, <1>12, <1>18, <2>1 DEF Marked
  <2>4. \A x \in Entities :
            /\ x \in Range(v.dirty) <=> {"connected", "queued"} \subseteq v.flags[x]
            /\ "connected" \in v.flags[x] => "stored" \in v.flags[x]
            /\ "stored" \in v.flags[x] => "ephem" \notin v.flags[x]
    BY <1>12, <1>19, <1>20, <2>1, <2>3 DEF Marked
  <2>5. \A x \in j.new : v.flags[x] \cap {"connected", "ephem"} = {}
    <3>1. \A x \in k.new : v.flags[x] \cap {"connected", "ephem"} = {}
      BY <1>19, <1>25, <2>1 DEF Marked
    <3>2. ~ephem => v.flags[e] \cap {"connected", "ephem"} = {}
      BY <1>12, <1>20
    <3> QED BY <1>23, <3>1, <3>2
  <2>6. \A x \in j.live : /\ "destroyed" \notin v.flags[x]
                          /\ x \in j.new \/ v.flags[x] \cap {"connected", "ephem"} # {}
    <3>1. \A x \in k.live : /\ "destroyed" \notin v.flags[x]
                            /\ x \in j.new \/ v.flags[x] \cap {"connected", "ephem"} # {}
      BY <1>19, <1>23, <1>25, <2>1 DEF Marked
    <3>2. /\ "destroyed" \notin v.flags[e]
          /\ e \in j.new \/ v.flags[e] \cap {"connected", "ephem"} # {}
      BY <1>12, <1>20, <1>23
    <3> QED BY <1>11, <1>23, <3>1, <3>2
  <2>7. \A x \in j.coming : "stored" \in v.flags[x]
    BY <1>19, <1>23, <1>25, <2>1 DEF Marked
  <2>8. /\ \A x \in Range(v.gone) : "destroyed" \in v.flags[x]
        /\ "connected" \in v.flags[Root] /\ "destroyed" \notin v.flags[Root]
        /\ j.busy \subseteq Range(v.dirty)
        /\ IsInjective(v.dirty)
    BY <1>9, <1>19, <1>23, <2>1, <2>2, <2>3 DEF Marked
  <2> QED BY <2>4, <2>5, <2>6, <2>7, <2>8 DEF Marked
<1>27. \A x \in Entities \ {e} : Same(w1, k, v, j, x)
  BY <1>11, <1>17, <1>19, <1>23, <1>24 DEF Same
<1>28. Sound(v, j, {}, e)
  <2>1. /\ "propClean" \notin v.flags[e] /\ "stored" \notin v.flags[e]
        /\ "destroyed" \notin v.flags[e]
    BY <1>12, <1>20
  <2>2. j.F.rows[e] = Absent /\ j.p[e] = c /\ j.F = Final
    BY <1>10, <1>11, <1>23, <1>24
  <2>3. "ephem" \in v.flags[e] <=> ephem
    BY <1>12, <1>20
  <2>4. Stored(v, j, e)
    BY <1>12, <1>19, <1>20, <2>2, <2>3 DEF Stored
  <2> QED BY <1>12, <1>20, <2>4 DEF Sound
<1>29. Kept(v, j, {})
  <2>1. j.live \cup j.new \subseteq Entities /\ j.coming \subseteq j.new
    BY <1>10, <1>11, <1>23, <1>25
  <2> QED BY <1>16, <1>19, <1>26, <1>27, <1>28, <2>1, KeptSame
<1>30. World' = v
  BY <1>8, <1>19, BecomeIs
<1>31. Tree(v.parent, entities')
  <2>1. PICK live, at : live = entities /\ live \in SUBSET Entities /\ at = v.parent
    BY DEF RunInv
  <2>2. parent \in [Entities -> Places] /\ Tree(parent, live)
    BY <2>1, RunFacts DEF RunInv
  <2>3. Tree(at, live \cup {e})
    BY <1>8, <1>10, <1>17, <1>19, <2>1, <2>2, TreeGrows
  <2> QED BY <1>8, <2>1, <2>3
<1>32. Lasting(flags, v.flags)
  <2>1. "destroyed" \notin Light
    BY DEF Light
  <2>2. \A x \in Entities \ {e} : "destroyed" \in v.flags[x] <=> "destroyed" \in flags[x]
    BY <1>11, <1>14, <1>17, <1>19, <2>1, GrowsFlags
  <2> QED BY <1>10, <2>2 DEF Lasting
<1>33. ASSUME NEW x \in Fresh'
       PROVE  /\ x \in Fresh /\ x \notin entities'
              /\ v.flags[x] = {} /\ v.parent[x] = Nowhere
  <2>1. x # e /\ x \in Fresh /\ x \in Entities /\ flags[x] = {} /\ parent[x] = Nowhere /\ x \notin entities
    BY <1>9, RunFacts DEF RunInv
  <2>2. v.parent[x] = Nowhere
    BY <1>17, <1>19, <2>1, RunFacts
  <2>3. v.flags[x] = {}
    BY <1>11, <1>14, <1>17, <1>19, <2>1
  <2> QED BY <1>8, <2>1, <2>2, <2>3
<1>34. \A x \in Range(unstored') : x \in entities' \/ "destroyed" \in v.flags[x]
  <2>1. \A x \in Range(unstored) : x \in entities \/ "destroyed" \in v.flags[x]
    BY <1>32, RunFacts DEF RunInv, Lasting
  <2> QED BY <1>8, <1>21, <2>1
<1>35. dirty # <<>> => v.dirty # <<>> /\ Head(v.dirty) = Head(dirty)
  BY <1>11, <1>14, <1>17, <1>19 DEF Grows
<1>36. entities' \in SUBSET Entities
  BY <1>8, <1>10 DEF RunInv
<1>37. /\ j.live = entities' /\ j.new = Range(unstored')
       /\ j = [live |-> j.live, new |-> j.new, coming |-> Setting.coming,
               busy |-> Setting.busy, dying |-> {}, p |-> prop', F |-> Final]
  BY <1>22
<1> QED BY <1>8, <1>9, <1>21, <1>24, <1>29, <1>30, <1>31, <1>32, <1>33, <1>34, <1>35, <1>36,
           <1>37, MainStep

\* The entity that is about to go.
Destroying(w, e) == AddFlags(w, e, {"destroyed"})

\* WorldRouter::delEntity
LEMMA DelStep ==
    ASSUME RunInv, NEW e \in Entities, DelEntity(e)
    PROVE  RunInv'
<1>1. /\ e \in entities \ {Root} /\ UNCHANGED <<prop, unstored, tick, dbVars, idGenerator>>
      /\ entities' = entities \ {e}
  BY DEF DelEntity
<1>2. PICK w, k : w = World /\ k = Setting
  OBVIOUS
<1>3. PICK w0 : w0 = Destroying(w, e)
  OBVIOUS
<1>4. PICK w1 : w1 = Empty(w0, e)
  OBVIOUS
<1>5. PICK w2 : w2 = RemoveChild(w1, e)
  OBVIOUS
<1>6. PICK v : v = Signal(w2, e, "updated")
  OBVIOUS
<1>7. Become(v)
  BY <1>2, <1>3, <1>4, <1>5, <1>6 DEF DelEntity, Destroying
<1>8. /\ Kept(w, k, {}) /\ w.flags = flags /\ w.parent = parent /\ w.dirty = dirty
      /\ w \in Worlds /\ flags \in [Entities -> SUBSET Flags] /\ Now(k)
      /\ k.live = entities /\ k.new = Range(unstored) /\ k.p = prop /\ k.F = Final
      /\ k.dying = {} /\ k.coming = Setting.coming /\ k.busy = Setting.busy
  BY <1>2, RunFacts, SettingFacts DEF RunInv
<1>9. PICK to \in Entities : to = parent[e]
  <2>1. parent[e] \in entities /\ entities \in SUBSET Entities
    BY <1>1 DEF RunInv, Tree, ClosedUnder
  <2> QED BY <2>1
<1>10. e \in Ids /\ "destroyed" \notin w.flags[e] /\ Sound(w, k, {}, e) /\ e \in k.live
  BY <1>1, <1>8 DEF Kept, Marked, Entities
<1>11. PICK j : j = [live |-> k.live \ {e}, new |-> k.new, coming |-> k.coming, busy |-> k.busy,
                     dying |-> {e}, p |-> k.p, F |-> k.F]
  OBVIOUS
<1>12. /\ j.live = k.live \ {e} /\ j.new = k.new /\ j.coming = k.coming /\ j.busy = k.busy
       /\ j.dying = {e} /\ j.p = k.p /\ j.F = k.F /\ Now(j)
  BY <1>8, <1>11 DEF Now
<1>13. k.live \cup k.new \subseteq Entities /\ k.coming \subseteq k.new
  BY <1>8 DEF Kept
<1>14. /\ w0 \in Worlds /\ w0.parent = w.parent /\ w0.dirty = w.dirty /\ w0.gone = w.gone
       /\ w0.missed = w.missed /\ w0.flags[e] = w.flags[e] \cup {"destroyed"}
       /\ \A x \in Entities \ {e} : w0.flags[x] = w.flags[x]
  <2>1. PICK f \in SUBSET Flags : f = {"destroyed"}
    BY DEF Flags
  <2>2. Reflagged(w, w0, e, w.flags[e] \cup f)
    BY <1>3, <1>8, <2>1, FlagsChange DEF Destroying
  <2> QED BY <1>8, <2>1, <2>2 DEF Reflagged
<1>15. Kept(w0, j, {})
  <2>1. \A x \in Entities : \A f : f # "destroyed" => (f \in w0.flags[x] <=> f \in w.flags[x])
    BY <1>14
  <2>2. Marked(w, k) /\ Range(w.gone) \subseteq Entities /\ Root \in Entities
    BY <1>8, WorldTypes DEF Kept
  <2>3. Marked(w0, j)
    <3>1. \A x \in Entities :
            /\ x \in Range(w0.dirty) <=> {"connected", "queued"} \subseteq w0.flags[x]
            /\ "connected" \in w0.flags[x] => "stored" \in w0.flags[x]
            /\ "stored" \in w0.flags[x] => "ephem" \notin w0.flags[x]
      BY <1>14, <2>1, <2>2 DEF Marked
    <3>2. /\ \A x \in j.new : w0.flags[x] \cap {"connected", "ephem"} = {}
          /\ \A x \in j.coming : "stored" \in w0.flags[x]
      BY <1>12, <1>13, <2>1, <2>2 DEF Marked
    <3>3. \A x \in j.live : /\ "destroyed" \notin w0.flags[x]
                            /\ x \in j.new \/ w0.flags[x] \cap {"connected", "ephem"} # {}
      BY <1>12, <1>13, <1>14, <2>2 DEF Marked
    <3>4. /\ \A x \in Range(w0.gone) : "destroyed" \in w0.flags[x]
          /\ "connected" \in w0.flags[Root] /\ "destroyed" \notin w0.flags[Root]
          /\ j.busy \subseteq Range(w0.dirty)
          /\ IsInjective(w0.dirty)
      BY <1>1, <1>12, <1>14, <2>2 DEF Marked
    <3> QED BY <3>1, <3>2, <3>3, <3>4 DEF Marked
  <2>4. \A x \in Entities \ {e} : Same(w, k, w0, j, x)
    BY <1>8, <1>12, <1>14 DEF Same
  <2>5. Sound(w0, j, {}, e)
    <3>1. "stored" \notin w0.flags[e] => j.F.rows[e] = Absent
      BY <1>10, <1>12, <2>1 DEF Sound, Stored
    <3> QED BY <1>12, <3>1 DEF Sound, Dropped
  <2> QED BY <1>8, <1>12, <1>13, <1>14, <2>3, <2>4, <2>5, KeptSame
<1>16. Kept(w1, j, {}) /\ MovedAll(w0, w1, Children(w0, e), to)
  <2>1. w0.parent[e] \in Entities /\ w0.parent[e] = to
    BY <1>8, <1>9, <1>14
  <2> QED BY <1>4, <1>12, <1>15, <2>1, EmptyKeeps
<1>17. e \notin Children(w0, e)
  <2>1. parent[e] # e
    <3>1. PICK S : S = {e}
      OBVIOUS
    <3>2. S \in SUBSET entities /\ S # {} /\ Root \notin S
      BY <1>1, <3>1
    <3>3. ~ClosedUnder(parent, S)
      BY <3>2 DEF RunInv, Tree
    <3> QED BY <3>1, <3>3 DEF ClosedUnder
  <2> QED BY <1>8, <1>14, <2>1 DEF Children
<1>18. Kept(w2, j, {e}) /\ Near(w1, w2, {}) /\ w2.parent = [w1.parent EXCEPT ![e] = Nowhere]
  <2>1. w1.parent[e] # Nowhere
    BY <1>8, <1>9, <1>14, <1>16, <1>17, NoEntities DEF MovedAll
  <2> QED BY <1>5, <1>16, <2>1, RemoveChildKeeps
<1>19. /\ Kept(v, j, {e}) /\ Near(w2, v, {}) /\ v.parent = w2.parent
       /\ {"stored", "destroyed"} \subseteq w2.flags[e] => e \in v.missed \cup Range(v.gone)
  BY <1>6, <1>10, <1>12, <1>18, SignalKeeps
<1>20. Near(w0, v, Children(w0, e))
  <2>1. Near(w0, w2, Children(w0, e) \cup {})
    BY <1>16, <1>18, NearTrans DEF MovedAll
  <2>2. Near(w0, v, (Children(w0, e) \cup {}) \cup {})
    BY <1>19, <2>1, NearTrans
  <2>3. (Children(w0, e) \cup {}) \cup {} = Children(w0, e)
    OBVIOUS
  <2> QED BY <2>2, <2>3
<1>21. \A x \in Entities : \A f \in {"stored", "destroyed"} :
            /\ f \in v.flags[x] <=> f \in w0.flags[x]
            /\ f \in v.flags[x] <=> f \in w2.flags[x]
  <2>1. {"stored", "destroyed"} \cap Light = {}
    BY DEF Light
  <2>2. Grows(w0, v) /\ Grows(w2, v)
    BY <1>19, <1>20 DEF Near
  <2> QED BY <2>1, <2>2, GrowsFlags
<1>22. PICK i : i = [live |-> entities', new |-> Range(unstored'), coming |-> Setting.coming,
                     busy |-> Setting.busy, dying |-> {}, p |-> prop', F |-> Final]
  OBVIOUS
<1>23. /\ i.live = j.live /\ i.new = j.new /\ i.coming = j.coming /\ i.busy = j.busy
       /\ i.dying = {} /\ i.p = j.p /\ i.F = j.F
  BY <1>1, <1>8, <1>12, <1>22
<1>24. Kept(v, i, {})
  <2>1. v \in Worlds /\ Marked(v, j)
    BY <1>19 DEF Kept
  <2>2. Marked(v, i)
    BY <1>23, <2>1 DEF Marked
  <2>3. \A x \in Entities \ {e} : Same(v, j, v, i, x)
    BY <1>12, <1>23 DEF Same
  <2>4. Sound(v, i, {}, e)
    <3>1. Sound(v, j, {e}, e) /\ "destroyed" \in v.flags[e]
      BY <1>14, <1>19, <1>21 DEF Kept
    <3>2. "stored" \notin v.flags[e] => i.F.rows[e] = Absent
      BY <1>10, <1>23, <3>1 DEF Sound, Dropped
    <3>3. e \notin v.missed => i.F.rows[e] = Absent \/ e \in Range(v.gone)
      BY <1>19, <1>21, <3>1, <3>2
    <3> QED BY <1>12, <1>23, <3>2, <3>3 DEF Sound, Dropped
  <2>5. i.live \cup i.new \subseteq Entities /\ i.coming \subseteq i.new /\ {e} \subseteq {} \cup {e}
    BY <1>12, <1>13, <1>23
  <2> QED BY <1>19, <2>1, <2>2, <2>3, <2>4, <2>5, KeptSame
<1>25. World' = v
  BY <1>7, <1>24, BecomeIs DEF Kept
<1>26. Lasting(flags, v.flags)
  BY <1>8, <1>14, <1>21 DEF Lasting
<1>27. dirty # <<>> => v.dirty # <<>> /\ Head(v.dirty) = Head(dirty)
  BY <1>8, <1>14, <1>20 DEF Near, Grows
<1>28. Fresh' = Fresh
  BY <1>1 DEF Fresh
<1>29. \A x \in Entities \ {e} : v.parent[x] = IF x \in Children(w0, e) THEN to ELSE parent[x]
  <2>1. w1.parent \in [Entities -> Places]
    BY <1>16, WorldFields DEF Kept
  <2> QED BY <1>8, <1>14, <1>16, <1>18, <1>19, <2>1 DEF MovedAll
<1>30. ASSUME NEW x \in Fresh'
       PROVE  /\ x \in Fresh /\ x \notin entities'
              /\ v.flags[x] = {} /\ v.parent[x] = Nowhere
  <2>1. x # e /\ x \in Entities /\ flags[x] = {} /\ parent[x] = Nowhere /\ x \notin entities
    BY <1>1, <1>28, RunFacts DEF RunInv
  <2>2. x \notin Children(w0, e)
    BY <1>8, <1>14, <2>1, NoEntities DEF Children
  <2>3. v.flags[x] = {}
    BY <1>8, <1>14, <1>20, <2>1, <2>2 DEF Near
  <2> QED BY <1>1, <1>28, <1>29, <2>1, <2>2, <2>3
<1>31. PICK live, rest, at : /\ live = entities /\ live \in SUBSET Entities
                             /\ rest = live \ {e} /\ at = v.parent
  BY DEF RunInv
<1>32. Tree(at, rest)
  <2>1. ASSUME NEW x \in live \ {e}
        PROVE  at[x] = IF parent[x] = e THEN parent[e] ELSE parent[x]
    <3>1. x \in Entities /\ (x = Root \/ x \in Ids)
      BY <1>31 DEF Entities
    <3>2. parent[Root] # e
      BY NoEntities DEF RunInv, Tree
    <3>3. x \in Children(w0, e) <=> parent[x] = e
      BY <1>8, <1>14, <3>1, <3>2, RunFacts DEF Children
    <3> QED BY <1>9, <1>29, <1>31, <3>1, <3>3
  <2>2. parent \in [Entities -> Places] /\ Tree(parent, live) /\ e \in live \ {Root}
    BY <1>1, <1>31, RunFacts DEF RunInv
  <2> QED BY <1>31, <2>1, <2>2, TreeShrinks
<1>33. Tree(v.parent, entities')
  BY <1>1, <1>31, <1>32
<1>34. /\ entities' \in SUBSET Entities /\ prop' \in [Entities -> Settings \cup {Absent}]
       /\ unstored' \in Seq(Ids) /\ IsInjective(unstored')
       /\ idGenerator' \in 0 .. MaxId
       /\ unstored # <<>> => unstored' # <<>> /\ Head(unstored') = Head(unstored)
  BY <1>1 DEF RunInv
<1>35. ASSUME NEW x \in Range(unstored') PROVE x \in entities' \/ "destroyed" \in v.flags[x]
  <2>1. x \in Range(unstored) /\ x \in Entities
    BY <1>1, RunFacts
  <2>2. x = e \/ x \in entities' \/ "destroyed" \in flags[x]
    BY <1>1, <2>1 DEF RunInv
  <2>3. "destroyed" \in v.flags[e]
    BY <1>14, <1>21
  <2> QED BY <1>26, <2>1, <2>2, <2>3 DEF Lasting
<1>36. /\ i.live = entities' /\ i.new = Range(unstored')
       /\ i = [live |-> i.live, new |-> i.new, coming |-> Setting.coming,
               busy |-> Setting.busy, dying |-> {}, p |-> prop', F |-> Final]
  BY <1>22
<1> QED BY <1>1, <1>24, <1>25, <1>26, <1>27, <1>30, <1>33, <1>34, <1>35, <1>36, MainStep

-----------------------------------------------------------------------------
\* The steps of tick() and of the database.

\* Nothing of the world changes.
LEMMA IdleStep ==
    ASSUME RunInv, UNCHANGED <<worldVars, queueVars, idGenerator>>,
           pending' \in Seq(Spared(flags)), db' \in Tables, db'.rows[Root] = Nowhere,
           Final' = Final,
           UNCHANGED tick \/ {tick, tick'} \cap {"inserted", "updated"} = {}
    PROVE  RunInv'
<1>1. /\ UNCHANGED <<entities, parent, prop, flags, unstored, dirty, gone, missed>>
      /\ Fresh' = Fresh
  BY DEF worldVars, queueVars, Fresh
<1>2. World' = World
  BY <1>1 DEF World
<1>3. Setting' = Setting
  <2>1. (IF tick' = "inserted" THEN {Head(unstored)} ELSE {})
            = IF tick = "inserted" THEN {Head(unstored)} ELSE {}
    OBVIOUS
  <2>2. (IF tick' = "updated" THEN {Head(dirty)} ELSE {})
            = IF tick = "updated" THEN {Head(dirty)} ELSE {}
    OBVIOUS
  <2> QED BY <1>1, <2>1, <2>2 DEF Setting
<1>4. Kept(World, Setting, {})'
  BY <1>2, <1>3 DEF RunInv
<1>5. /\ tick' = "inserted" => unstored' # <<>>
      /\ tick' = "updated" => dirty' # <<>>
  BY <1>1 DEF RunInv
<1>6. pending' \in Seq(Spared(flags'))
  BY <1>1
<1>7. Tree(parent, entities)'
  BY <1>1 DEF RunInv
<1>8. \A e \in Fresh' : /\ e \notin entities'
                        /\ flags'[e] = {} /\ parent'[e] = Nowhere
                        /\ Final'.rows[e] = Absent
  BY <1>1 DEF RunInv
<1> QED BY <1>1, <1>4, <1>5, <1>6, <1>7, <1>8 DEF RunInv

\* A step that deals with e.
LEMMA OneStep ==
    ASSUME RunInv, UNCHANGED <<entities, parent, prop, missed, idGenerator, db>>,
           NEW e \in Entities \ Fresh, flags' \in [Entities -> SUBSET Flags],
           \A x \in Entities \ {e} : flags'[x] = flags[x],
           "destroyed" \in flags'[e] <=> "destroyed" \in flags[e],
           unstored' \in Seq(Ids), IsInjective(unstored'),
           Range(unstored') \subseteq Range(unstored),
           dirty' \in Seq(Entities), gone' \in Seq(Ids), pending' \in Seq(Spared(flags)),
           NEW r, NEW q, Wrote(Final, Final', e, r, q),
           tick' = "inserted" => unstored' # <<>>, tick' = "updated" => dirty' # <<>>,
           NEW v, v = World', NEW k, k = Setting, NEW j, j = Setting', Marked(v, j),
           \A x \in Entities \ {e} :
                /\ x \in Range(gone') <=> x \in Range(gone)
                /\ x \in Range(dirty') \ j.busy <=> x \in Range(dirty) \ k.busy
                /\ x \in Range(unstored') \ j.coming <=> x \in Range(unstored) \ k.coming,
           Sound(v, j, {}, e)
    PROVE  RunInv'
<1>1. /\ v.parent = parent /\ v.flags = flags' /\ v.dirty = dirty' /\ v.gone = gone'
      /\ v.missed = missed /\ v \in Worlds
  BY RunFacts DEF World, Worlds
<1>2. /\ j.live = entities /\ j.new = Range(unstored') /\ j.dying = {}
      /\ j.coming = (IF tick' = "inserted" THEN {Head(unstored')} ELSE {})
      /\ j.p = prop /\ j.F = Final'
  BY DEF Setting
<1>3. /\ k.live = entities /\ k.new = Range(unstored) /\ k.dying = {}
      /\ k.p = prop /\ k.F = Final
  BY SettingFacts
<1>4. PICK w : w = World
  OBVIOUS
<1>5. /\ w.parent = parent /\ w.flags = flags /\ w.dirty = dirty /\ w.gone = gone
      /\ w.missed = missed /\ Kept(w, k, {})
  BY <1>4, RunFacts DEF RunInv
<1>6. \A x \in Entities \ {e} : Same(w, k, v, j, x)
  <2>1. \A x \in Entities \ {e} : Final'.rows[x] = Final.rows[x] /\ Final'.props[x] = Final.props[x]
    BY DEF Wrote
  <2> QED BY <1>1, <1>2, <1>3, <1>5, <2>1 DEF Same
<1>7. j.live \cup j.new \subseteq Entities /\ j.coming \subseteq j.new
  <2>1. unstored' # <<>> => Head(unstored') \in Range(unstored')
    BY TailRange
  <2>2. entities \subseteq Entities /\ Range(unstored') \subseteq Entities
    BY RunFacts DEF RunInv
  <2> QED BY <1>2, <2>1, <2>2
<1>8. Kept(v, j, {})
  <2>1. PICK M : M = {}
    OBVIOUS
  <2>2. Kept(w, k, M) /\ M \subseteq M \cup {e} /\ Sound(v, j, M, e)
    BY <1>5, <2>1
  <2>3. Kept(v, j, M)
    BY <1>1, <1>6, <1>7, <2>2, KeptSame
  <2> QED BY <2>1, <2>3
<1>9. Fresh' = Fresh /\ Fresh \subseteq Ids
  BY RunFacts DEF Fresh
<1>10. \A x \in Fresh : /\ x \notin entities
                        /\ flags'[x] = {} /\ parent[x] = Nowhere
                        /\ Final'.rows[x] = Absent
  <2>1. \A x \in Fresh : x \in Entities \ {e}
    BY <1>9 DEF Entities
  <2> QED BY <2>1 DEF RunInv, Wrote
<1>11. \A x \in Range(unstored') : x \in entities \/ "destroyed" \in flags'[x]
  <2>1. \A x \in Range(unstored') : x \in Entities /\ (x \in entities \/ "destroyed" \in flags[x])
    BY RunFacts DEF RunInv
  <2> QED BY <2>1
<1>12. pending' \in Seq(Spared(flags'))
  <2>1. Lasting(flags, flags')
    BY DEF Lasting
  <2> QED BY <2>1, SparedStay
<1>13. Tree(parent, entities)'
  BY DEF RunInv
<1>14. Kept(World, Setting, {})'
  BY <1>8
<1>15. /\ entities' \in SUBSET Entities /\ idGenerator' \in 0 .. MaxId
       /\ prop' \in [Entities -> Settings \cup {Absent}]
       /\ db' \in Tables /\ db'.rows[Root] = Nowhere
  BY DEF RunInv
<1>16. \A x \in Fresh' : /\ x \notin entities'
                         /\ flags'[x] = {} /\ parent'[x] = Nowhere
                         /\ Final'.rows[x] = Absent
  BY <1>9, <1>10
<1>17. \A x \in Range(unstored') : x \in entities' \/ "destroyed" \in flags'[x]
  BY <1>11
<1> QED BY <1>12, <1>13, <1>14, <1>15, <1>16, <1>17 DEF RunInv

LEMMA TickDestroyedStep ==
    ASSUME RunInv, TickDestroyed
    PROVE  RunInv'
<1>1. /\ UNCHANGED <<entities, parent, prop, flags, unstored, dirty, missed, idGenerator, db>>
      /\ tick = "destroyed"
  BY DEF TickDestroyed, worldVars, serverVars
<1>2. CASE gone = <<>>
  <2>1. UNCHANGED <<gone, pending>> /\ tick' = "unstored"
    BY <1>2 DEF TickDestroyed
  <2>2. UNCHANGED <<worldVars, queueVars, idGenerator>> /\ Final' = Final
    BY <1>1, <2>1 DEF worldVars, queueVars, Final
  <2>3. pending' \in Seq(Spared(flags)) /\ db' \in Tables /\ db'.rows[Root] = Nowhere
    BY <1>1, <2>1 DEF RunInv
  <2>4. {tick, tick'} \cap {"inserted", "updated"} = {}
    BY <1>1, <2>1
  <2> QED BY <2>2, <2>3, <2>4, IdleStep
<1>3. CASE gone # <<>>
  <2>1. PICK s, e : s = gone /\ e = Head(gone)
    OBVIOUS
  <2>2. gone' = Tail(s) /\ pending' = pending \o DropEntity(e) /\ tick' = tick
    BY <1>3, <2>1 DEF TickDestroyed
  <2>3. /\ s \in Seq(Ids) /\ e \in Ids /\ e \in Entities /\ Tail(s) \in Seq(Ids)
        /\ Range(s) = Range(Tail(s)) \cup {e}
    <3>1. s \in Seq(Ids) /\ s # <<>>
      BY <1>3, <2>1, RunFacts
    <3>2. Range(s) = Range(Tail(s)) \cup {Head(s)} /\ Tail(s) \in Seq(Ids) /\ Head(s) \in Ids
      BY <3>1, TailRange
    <3> QED BY <2>1, <3>1, <3>2, RunFacts
  <2>4. PICK w, k, v, j : w = World /\ k = Setting /\ v = World' /\ j = Setting'
    OBVIOUS
  <2>5. /\ w.parent = parent /\ w.flags = flags /\ w.dirty = dirty /\ w.gone = s
        /\ w.missed = missed /\ Kept(w, k, {})
    BY <2>1, <2>4, RunFacts DEF RunInv
  <2>6. /\ v.parent = parent /\ v.flags = flags /\ v.dirty = dirty /\ v.gone = Tail(s)
        /\ v.missed = missed
    BY <1>1, <2>2, <2>4 DEF World
  <2>7. /\ j.live = k.live /\ j.new = k.new /\ j.coming = k.coming /\ j.busy = k.busy
        /\ j.dying = k.dying /\ j.p = k.p /\ j.F = Final'
    BY <1>1, <2>2, <2>4, SettingFacts DEF Setting
  <2>8. "destroyed" \in flags[e] /\ e \notin j.live
    BY <2>3, <2>5, <2>7 DEF Kept, Marked
  <2>9. pending' \in Seq(Spared(flags))
    <3>1. DropEntity(e) \in Seq(Spared(flags))
      BY <2>3, <2>8, SparedCommands DEF DropEntity
    <3> QED BY <2>2, <3>1 DEF RunInv
  <2>10. Wrote(Final, Final', e, Absent, Absent)
    <3>1. Final' = After(db, pending \o DropEntity(e)) /\ Final = After(db, pending)
      BY <1>1, <2>2 DEF Final, After
    <3>2. db \in Tables /\ pending \in Seq(Commands)
      BY RunFacts DEF RunInv
    <3> QED BY <2>3, <3>1, <3>2, DropIs
  <2>11. Marked(v, j)
    BY <2>3, <2>5, <2>6, <2>7 DEF Kept, Marked
  <2>12. Sound(v, j, {}, e)
    <3>1. j.F.rows[e] = Absent
      BY <2>7, <2>10 DEF Wrote
    <3> QED BY <2>8, <3>1 DEF Sound, Dropped
  <2>13. \A x \in Entities \ {e} :
            /\ x \in Range(gone') <=> x \in Range(gone)
            /\ x \in Range(dirty') \ j.busy <=> x \in Range(dirty) \ k.busy
            /\ x \in Range(unstored') \ j.coming <=> x \in Range(unstored) \ k.coming
    BY <1>1, <2>1, <2>2, <2>3, <2>7
  <2>14. e \notin Fresh
    BY <2>8 DEF RunInv
  <2>15. /\ flags' \in [Entities -> SUBSET Flags] /\ unstored' \in Seq(Ids)
         /\ IsInjective(unstored') /\ Range(unstored') \subseteq Range(unstored)
         /\ dirty' \in Seq(Entities) /\ gone' \in Seq(Ids)
         /\ tick' = "inserted" => unstored' # <<>>
         /\ tick' = "updated" => dirty' # <<>>
    BY <1>1, <2>2, <2>3, RunFacts DEF RunInv
  <2>16. /\ \A x \in Entities \ {e} : flags'[x] = flags[x]
         /\ "destroyed" \in flags'[e] <=> "destroyed" \in flags[e]
    BY <1>1
  <2>17. e \in Entities \ Fresh /\ UNCHANGED <<entities, parent, prop, missed, idGenerator, db>>
    BY <1>1, <2>3, <2>14
  <2> QED BY <2>4, <2>9, <2>10, <2>11, <2>12, <2>13, <2>15, <2>16, <2>17, OneStep
<1> QED BY <1>2, <1>3

\* The first of the unstored.
LEMMA FirstUnstored ==
    ASSUME RunInv, unstored # <<>>, NEW s, s = unstored, NEW e, e = Head(s)
    PROVE  /\ s \in Seq(Ids) /\ e \in Ids /\ e \in Entities \ Fresh
           /\ Tail(s) \in Seq(Ids) /\ IsInjective(Tail(s))
           /\ Range(s) = Range(Tail(s)) \cup {e} /\ e \notin Range(Tail(s))
           /\ e \in entities \/ "destroyed" \in flags[e]
           /\ flags[e] \cap {"connected", "ephem"} = {}
           /\ e \notin Range(dirty)
           /\ e \in Setting.new /\ Setting.busy \subseteq Range(dirty)
<1>1. s \in Seq(Ids) /\ s # <<>> /\ IsInjective(s)
  BY DEF RunInv
<1>2. /\ Range(s) = Range(Tail(s)) \cup {e} /\ Tail(s) \in Seq(Ids) /\ e \in Ids
      /\ IsInjective(Tail(s)) /\ e \notin Range(Tail(s))
  BY <1>1, TailRange
<1>3. e \in Range(unstored) /\ e \in Entities
  BY <1>2, RunFacts
<1>4. e \in entities \/ "destroyed" \in flags[e]
  BY <1>3 DEF RunInv
<1>5. e \notin Fresh
  BY <1>4 DEF RunInv
<1>6. PICK w, k : w = World /\ k = Setting
  OBVIOUS
<1>7. Marked(w, k) /\ w.flags = flags /\ w.dirty = dirty /\ e \in k.new
  BY <1>3, <1>6, RunFacts, SettingFacts DEF RunInv, Kept
<1>8. /\ flags[e] \cap {"connected", "ephem"} = {} /\ e \notin Range(dirty)
      /\ k.busy \subseteq Range(dirty)
  BY <1>3, <1>7 DEF Marked
<1> QED BY <1>1, <1>2, <1>3, <1>4, <1>5, <1>6, <1>7, <1>8

LEMMA TickSkipStep ==
    ASSUME RunInv, TickUnstored, unstored # <<>>, "destroyed" \in flags[Head(unstored)]
    PROVE  RunInv'
<1>1. /\ UNCHANGED <<entities, parent, prop, flags, dirty, gone, missed, idGenerator, db, tick,
                     pending>>
      /\ tick = "unstored" /\ unstored' = Tail(unstored)
  BY DEF TickUnstored, serverVars
<1>2. PICK s, e : s = unstored /\ e = Head(s)
  OBVIOUS
<1>3. /\ s \in Seq(Ids) /\ e \in Ids /\ e \in Entities \ Fresh
      /\ Tail(s) \in Seq(Ids) /\ IsInjective(Tail(s))
      /\ Range(s) = Range(Tail(s)) \cup {e} /\ e \notin Range(Tail(s))
  BY <1>2, FirstUnstored
<1>4. PICK w, k, v, j : w = World /\ k = Setting /\ v = World' /\ j = Setting'
  OBVIOUS
<1>5. /\ w.parent = parent /\ w.flags = flags /\ w.dirty = dirty /\ w.gone = gone
      /\ w.missed = missed /\ Kept(w, k, {})
  BY <1>4, RunFacts DEF RunInv
<1>6. v = w
  BY <1>1, <1>4 DEF World
<1>7. Final' = Final
  BY <1>1 DEF Final
<1>8. /\ k.new = Range(s) /\ k.coming = {} /\ k.busy = {} /\ k.live = entities /\ k.F = Final
      /\ j.live = k.live /\ j.new = Range(Tail(s)) /\ j.coming = {} /\ j.busy = {}
      /\ j.dying = k.dying /\ j.p = k.p /\ j.F = k.F
  BY <1>1, <1>2, <1>4, <1>7 DEF Setting
<1>9. "destroyed" \in flags[e] /\ e \notin j.live
  BY <1>2, <1>3, <1>5, <1>8 DEF Kept, Marked
<1>10. Marked(v, j)
  BY <1>3, <1>5, <1>6, <1>8, <1>9 DEF Kept, Marked
<1>11. Sound(v, j, {}, e)
  <2>1. Sound(w, k, {}, e)
    BY <1>3, <1>5 DEF Kept
  <2> QED BY <1>6, <1>8, <1>9, <2>1 DEF Sound, Dropped
<1>12. \A x \in Entities \ {e} :
          /\ x \in Range(gone') <=> x \in Range(gone)
          /\ x \in Range(dirty') \ j.busy <=> x \in Range(dirty) \ k.busy
          /\ x \in Range(unstored') \ j.coming <=> x \in Range(unstored) \ k.coming
  BY <1>1, <1>2, <1>3, <1>8
<1>13. PICK r, q : r = Final.rows[e] /\ q = Final.props[e]
  OBVIOUS
<1>14. Wrote(Final, Final', e, r, q)
  BY <1>7, <1>13, RunFacts DEF Wrote
<1>15. /\ flags' \in [Entities -> SUBSET Flags] /\ unstored' \in Seq(Ids)
       /\ IsInjective(unstored') /\ Range(unstored') \subseteq Range(unstored)
       /\ dirty' \in Seq(Entities) /\ gone' \in Seq(Ids)
       /\ tick' = "inserted" => unstored' # <<>>
       /\ tick' = "updated" => dirty' # <<>>
       /\ pending' \in Seq(Spared(flags))
  BY <1>1, <1>2, <1>3, RunFacts DEF RunInv
<1>16. /\ \A x \in Entities \ {e} : flags'[x] = flags[x]
       /\ "destroyed" \in flags'[e] <=> "destroyed" \in flags[e]
  BY <1>1
<1> QED BY <1>1, <1>3, <1>4, <1>10, <1>11, <1>12, <1>14, <1>15, <1>16, OneStep

\* What insertEntity writes.
LEMMA InsertSpared ==
    ASSUME RunInv, NEW e \in Ids
    PROVE  pending \o InsertCommands(e) \in Seq(Spared(flags))
<1>1. parent[e] \in Places /\ prop[e] \in Settings \cup {Absent} /\ e \in Entities
  BY RunFacts DEF RunInv
<1>2. PICK a, b, S : a = parent[e] /\ b = prop[e] /\ S = Spared(flags)
  OBVIOUS
<1>3. Command("insertEntity", e, a) \in S
  BY <1>1, <1>2, SparedCommands
<1>4. b # Absent => Command("upsertProperties", e, b) \in S
  BY <1>1, <1>2, SparedCommands
<1>5. CASE b = Absent
  BY <1>2, <1>3, <1>5 DEF InsertCommands, RunInv
<1>6. CASE b # Absent
  BY <1>2, <1>3, <1>4, <1>6 DEF InsertCommands, RunInv
<1> QED BY <1>5, <1>6

LEMMA TickInsertStep ==
    ASSUME RunInv, TickUnstored, unstored # <<>>, "destroyed" \notin flags[Head(unstored)]
    PROVE  RunInv'
<1>1. PICK s, e, f : s = unstored /\ e = Head(s) /\ f = flags[e] \cup {"stored"} \cup PropClean(e)
  OBVIOUS
<1>2. /\ UNCHANGED <<entities, parent, prop, dirty, gone, missed, idGenerator, db, unstored>>
      /\ tick = "unstored" /\ tick' = "inserted"
      /\ pending' = pending \o InsertCommands(e)
      /\ flags' = [flags EXCEPT ![e] = f]
  BY <1>1 DEF TickUnstored, serverVars
<1>3. /\ s \in Seq(Ids) /\ e \in Ids /\ e \in Entities \ Fresh
      /\ Range(s) = Range(Tail(s)) \cup {e}
      /\ e \in entities /\ "destroyed" \notin flags[e]
      /\ flags[e] \cap {"connected", "ephem"} = {} /\ e \notin Range(dirty)
  BY <1>1, FirstUnstored
<1>4. PICK w, k, v, j : w = World /\ k = Setting /\ v = World' /\ j = Setting'
  OBVIOUS
<1>5. /\ w.parent = parent /\ w.flags = flags /\ w.dirty = dirty /\ w.gone = gone
      /\ w.missed = missed /\ Kept(w, k, {})
  BY <1>4, RunFacts DEF RunInv
<1>6. /\ f \in SUBSET Flags /\ flags' \in [Entities -> SUBSET Flags]
      /\ flags'[e] = f /\ \A x \in Entities \ {e} : flags'[x] = flags[x]
  <2>1. f \in SUBSET Flags
    BY <1>1, <1>3, RunFacts DEF PropClean, Flags
  <2> QED BY <1>2, <1>3, <2>1, RunFacts
<1>7. \A x \in Entities : \A g : g \notin {"stored", "propClean"}
                                  => (g \in flags'[x] <=> g \in flags[x])
  BY <1>1, <1>3, <1>6 DEF PropClean
<1>8. /\ v.parent = parent /\ v.flags = flags' /\ v.dirty = dirty /\ v.gone = gone
      /\ v.missed = missed
  BY <1>2, <1>4 DEF World
<1>9. /\ k.live = entities /\ k.new = Range(s) /\ k.coming = {} /\ k.busy = {}
      /\ k.p = prop /\ k.F = Final
      /\ j.live = entities /\ j.new = Range(s) /\ j.coming = {e} /\ j.busy = {}
      /\ j.dying = k.dying /\ j.p = prop /\ j.F = Final'
  BY <1>1, <1>2, <1>4 DEF Setting
<1>10. /\ parent[e] \in Places /\ prop[e] \in Settings \cup {Absent} /\ parent[e] # Absent
       /\ db \in Tables /\ pending \in Seq(Commands) /\ Final = After(db, pending)
  <2>1. parent[e] \in Places /\ Absent \notin Places
    BY <1>3, RunFacts, NoEntities, StorageManagerAssumption DEF Places
  <2> QED BY <1>3, <2>1, RunFacts DEF RunInv
<1>11. PICK r, q : /\ r = IF Final.rows[e] = Absent THEN parent[e] ELSE Final.rows[e]
                   /\ q = IF prop[e] = Absent THEN Final.props[e] ELSE prop[e]
  OBVIOUS
<1>12. Wrote(Final, Final', e, r, q)
  <2>1. Final' = After(db, pending \o InsertCommands(e))
    BY <1>2 DEF Final, After
  <2> QED BY <1>3, <1>10, <1>11, <2>1, InsertIs
<1>13. j.F.rows[e] = r /\ j.F.props[e] = q /\ r # Absent
  BY <1>9, <1>10, <1>11, <1>12 DEF Wrote
<1>14. Marked(v, j)
  <2>1. Marked(w, k)
    BY <1>5 DEF Kept
  <2>2. "stored" \in v.flags[e] /\ "ephem" \notin v.flags[e]
    BY <1>1, <1>3, <1>6, <1>7, <1>8
  <2>3. \A x \in Entities \ {e} : v.flags[x] = w.flags[x]
    BY <1>5, <1>6, <1>8
  <2>4. \A x \in Entities : \A g \in {"connected", "queued", "ephem", "destroyed"} :
            g \in v.flags[x] <=> g \in w.flags[x]
    BY <1>5, <1>7, <1>8
  <2>5. \A x \in Entities :
            /\ x \in Range(v.dirty) <=> {"connected", "queued"} \subseteq v.flags[x]
            /\ "connected" \in v.flags[x] => "stored" \in v.flags[x]
            /\ "stored" \in v.flags[x] => "ephem" \notin v.flags[x]
    BY <1>5, <1>8, <2>1, <2>2, <2>3, <2>4 DEF Marked
  <2>6. /\ \A x \in j.new : v.flags[x] \cap {"connected", "ephem"} = {}
        /\ \A x \in j.live : /\ "destroyed" \notin v.flags[x]
                             /\ x \in j.new \/ v.flags[x] \cap {"connected", "ephem"} # {}
    <3>1. j.new = k.new /\ j.live = k.live /\ k.live \cup k.new \subseteq Entities
      BY <1>5, <1>9 DEF Kept
    <3> QED BY <2>1, <2>4, <3>1 DEF Marked
  <2>7. /\ \A x \in Range(v.gone) : "destroyed" \in v.flags[x]
        /\ "connected" \in v.flags[Root] /\ "destroyed" \notin v.flags[Root]
    <3>1. Range(v.gone) \subseteq Entities /\ Root \in Entities
      BY <1>8, RunFacts
    <3> QED BY <1>5, <1>8, <2>1, <2>4, <3>1 DEF Marked
  <2>8. \A x \in j.coming : "stored" \in v.flags[x]
    BY <1>9, <2>2
  <2>9. j.busy \subseteq Range(v.dirty) /\ IsInjective(v.dirty)
    BY <1>5, <1>8, <1>9, <2>1 DEF Marked
  <2> QED BY <2>5, <2>6, <2>7, <2>8, <2>9 DEF Marked
<1>15. Sound(v, j, {}, e)
  <2>1. Stored(w, k, e) /\ ("stored" \in flags[e] /\ e \notin missed => RowKept(w, k, e))
    BY <1>3, <1>5, <1>9 DEF Kept, Sound
  <2>2. "propClean" \in flags[e] \/ prop[e] # Absent => Matches(j, e)
    <3>1. CASE prop[e] # Absent
      BY <1>9, <1>11, <1>13, <3>1 DEF Matches
    <3>2. CASE prop[e] = Absent /\ "propClean" \in flags[e]
      BY <1>5, <1>9, <1>11, <1>13, <2>1, <3>2 DEF Matches, Stored
    <3> QED BY <3>1, <3>2
  <2>3. prop[e] = Absent /\ e \notin missed => Matches(j, e) /\ j.F.props[e] = Absent
    BY <1>3, <1>5, <1>9, <1>11, <1>13, <2>1 DEF Matches, Stored
  <2>4. "propClean" \in v.flags[e] => Matches(j, e)
    BY <1>1, <1>6, <1>8, <2>2 DEF PropClean
  <2>5. "stored" \in v.flags[e] /\ "destroyed" \notin v.flags[e]
    BY <1>1, <1>3, <1>6, <1>7, <1>8
  <2>6. Stored(v, j, e)
    BY <1>8, <1>9, <1>13, <2>2, <2>3, <2>4, <2>5 DEF Stored, PropKept
  <2>7. e \notin missed => RowKept(v, j, e)
    <3>1. CASE Final.rows[e] = Absent
      BY <1>8, <1>11, <1>13, <3>1 DEF RowKept
    <3>2. CASE Final.rows[e] # Absent
      <4>1. e \notin missed => RowKept(w, k, e) /\ ~Due(w, k, e)
        BY <1>3, <1>5, <1>9, <2>1, <3>2 DEF Stored, Due
      <4> QED BY <1>5, <1>8, <1>9, <1>11, <1>13, <3>2, <4>1 DEF RowKept
    <3> QED BY <3>1, <3>2
  <2> QED BY <1>8, <2>5, <2>6, <2>7 DEF Sound
<1>16. \A x \in Entities \ {e} :
          /\ x \in Range(gone') <=> x \in Range(gone)
          /\ x \in Range(dirty') \ j.busy <=> x \in Range(dirty) \ k.busy
          /\ x \in Range(unstored') \ j.coming <=> x \in Range(unstored) \ k.coming
  BY <1>2, <1>9
<1>17. /\ unstored' \in Seq(Ids)
       /\ IsInjective(unstored') /\ Range(unstored') \subseteq Range(unstored)
       /\ dirty' \in Seq(Entities) /\ gone' \in Seq(Ids)
       /\ tick' = "inserted" => unstored' # <<>>
       /\ tick' = "updated" => dirty' # <<>>
  BY <1>2, RunFacts DEF RunInv
<1>18. pending' \in Seq(Spared(flags))
  BY <1>2, <1>3, InsertSpared
<1>19. "destroyed" \in flags'[e] <=> "destroyed" \in flags[e]
  BY <1>3, <1>7
<1> QED BY <1>2, <1>3, <1>4, <1>6, <1>12, <1>14, <1>15, <1>16, <1>17, <1>18, <1>19, OneStep

LEMMA TickUnstoredStep ==
    ASSUME RunInv, TickUnstored
    PROVE  RunInv'
<1>1. CASE unstored = <<>>
  <2>1. /\ UNCHANGED <<worldVars, queueVars, idGenerator, pending, db>>
        /\ tick = "unstored" /\ tick' = "dirty"
    BY <1>1 DEF TickUnstored, serverVars, worldVars, queueVars
  <2>2. Final' = Final
    BY <2>1 DEF Final
  <2>3. pending' \in Seq(Spared(flags)) /\ db' \in Tables /\ db'.rows[Root] = Nowhere
    BY <2>1 DEF RunInv
  <2>4. {tick, tick'} \cap {"inserted", "updated"} = {}
    BY <2>1
  <2> QED BY <2>1, <2>2, <2>3, <2>4, IdleStep
<1> QED BY <1>1, TickSkipStep, TickInsertStep

\* The end of insertEntity.
LEMMA TickInsertedStep ==
    ASSUME RunInv, TickInserted
    PROVE  RunInv'
<1>1. PICK s, e, f : /\ s = unstored /\ e = Head(s)
                     /\ f = (flags[e] \ {"queued"}) \cup {"clean", "connected"}
  OBVIOUS
<1>2. /\ UNCHANGED <<entities, parent, prop, dirty, gone, missed, idGenerator, db, pending>>
      /\ tick = "inserted" /\ tick' = "unstored" /\ unstored' = Tail(s)
      /\ flags' = [flags EXCEPT ![e] = f]
  BY <1>1 DEF TickInserted, serverVars, dbVars
<1>3. /\ s \in Seq(Ids) /\ e \in Ids /\ e \in Entities \ Fresh
      /\ Tail(s) \in Seq(Ids) /\ IsInjective(Tail(s))
      /\ Range(s) = Range(Tail(s)) \cup {e} /\ e \notin Range(Tail(s))
      /\ flags[e] \cap {"connected", "ephem"} = {} /\ e \notin Range(dirty)
  <2>1. unstored # <<>>
    BY <1>2 DEF RunInv
  <2> QED BY <1>1, <2>1, FirstUnstored
<1>4. PICK w, k, v, j : w = World /\ k = Setting /\ v = World' /\ j = Setting'
  OBVIOUS
<1>5. /\ w.parent = parent /\ w.flags = flags /\ w.dirty = dirty /\ w.gone = gone
      /\ w.missed = missed /\ Kept(w, k, {})
  BY <1>4, RunFacts DEF RunInv
<1>6. /\ f \in SUBSET Flags /\ flags' \in [Entities -> SUBSET Flags]
      /\ flags'[e] = f /\ \A x \in Entities \ {e} : flags'[x] = flags[x]
  <2>1. f \in SUBSET Flags
    BY <1>1, <1>3, RunFacts DEF Flags
  <2> QED BY <1>2, <1>3, <2>1, RunFacts
<1>7. \A x \in Entities : \A g : g \notin {"queued", "clean", "connected"}
                                  => (g \in flags'[x] <=> g \in flags[x])
  BY <1>1, <1>3, <1>6
<1>8. /\ v.parent = parent /\ v.flags = flags' /\ v.dirty = dirty /\ v.gone = gone
      /\ v.missed = missed
  BY <1>2, <1>4 DEF World
<1>9. Final' = Final
  BY <1>2 DEF Final
<1>10. /\ k.live = entities /\ k.new = Range(s) /\ k.coming = {e} /\ k.busy = {}
       /\ k.p = prop /\ k.F = Final
       /\ j.live = entities /\ j.new = Range(Tail(s)) /\ j.coming = {} /\ j.busy = {}
       /\ j.dying = k.dying /\ j.p = prop /\ j.F = k.F
  BY <1>1, <1>2, <1>4, <1>9 DEF Setting
<1>11. "stored" \in flags[e]
  BY <1>5, <1>10 DEF Kept, Marked
<1>12. Marked(v, j)
  <2>1. Marked(w, k)
    BY <1>5 DEF Kept
  <2>2. /\ {"stored", "connected"} \subseteq v.flags[e] /\ "queued" \notin v.flags[e]
        /\ "ephem" \notin v.flags[e]
    BY <1>1, <1>3, <1>6, <1>8, <1>11
  <2>3. \A x \in Entities \ {e} : v.flags[x] = w.flags[x]
    BY <1>5, <1>6, <1>8
  <2>4. \A x \in Entities : /\ "destroyed" \in v.flags[x] <=> "destroyed" \in w.flags[x]
                            /\ "connected" \in w.flags[x] => "connected" \in v.flags[x]
    BY <1>5, <1>7, <1>8, <2>2, <2>3
  <2>5. \A x \in Entities :
            /\ x \in Range(v.dirty) <=> {"connected", "queued"} \subseteq v.flags[x]
            /\ "connected" \in v.flags[x] => "stored" \in v.flags[x]
            /\ "stored" \in v.flags[x] => "ephem" \notin v.flags[x]
    <3>1. e \notin Range(v.dirty) /\ v.dirty = w.dirty
      BY <1>3, <1>5, <1>8
    <3> QED BY <2>1, <2>2, <2>3, <3>1 DEF Marked
  <2>6. k.live \cup k.new \subseteq Entities
    BY <1>5 DEF Kept
  <2>7. \A x \in j.new : v.flags[x] \cap {"connected", "ephem"} = {}
    <3>1. \A x \in j.new : x \in k.new /\ x \in Entities \ {e}
      BY <1>3, <1>10, <2>6
    <3> QED BY <2>1, <2>3, <3>1 DEF Marked
  <2>8. \A x \in j.live : /\ "destroyed" \notin v.flags[x]
                          /\ x \in j.new \/ v.flags[x] \cap {"connected", "ephem"} # {}
    <3>1. \A x \in j.live \ {e} : x \in Entities \ {e} /\ (x \in k.new => x \in j.new)
      BY <1>3, <1>10, <2>6
    <3>2. \A x \in j.live : /\ "destroyed" \notin w.flags[x]
                            /\ x \in k.new \/ w.flags[x] \cap {"connected", "ephem"} # {}
      BY <1>10, <2>1 DEF Marked
    <3> QED BY <1>3, <2>2, <2>3, <2>4, <3>1, <3>2
  <2>9. /\ \A x \in Range(v.gone) : "destroyed" \in v.flags[x]
        /\ "connected" \in v.flags[Root] /\ "destroyed" \notin v.flags[Root]
    <3>1. Range(v.gone) \subseteq Entities /\ Root \in Entities
      BY <1>8, RunFacts
    <3> QED BY <1>5, <1>8, <2>1, <2>4, <3>1 DEF Marked
  <2>10. j.busy \subseteq Range(v.dirty) /\ IsInjective(v.dirty)
    BY <1>5, <1>8, <1>10, <2>1 DEF Marked
  <2>11. \A x \in j.coming : "stored" \in v.flags[x]
    BY <1>10
  <2> QED BY <2>5, <2>7, <2>8, <2>9, <2>10, <2>11 DEF Marked
<1>13. Sound(v, j, {}, e)
  <2>1. Sound(w, k, {}, e)
    BY <1>3, <1>5 DEF Kept
  <2>2. \A g \in {"stored", "propClean", "unsent", "updateQueued", "ephem", "destroyed"} :
            g \in v.flags[e] <=> g \in w.flags[e]
    BY <1>3, <1>5, <1>7, <1>8
  <2>3. ~Due(w, k, e)
    BY <1>3, <1>5 DEF Due
  <2>4. Matches(j, e) <=> Matches(k, e)
    BY <1>10 DEF Matches
  <2>5. PropKept(w, k, e) => PropKept(v, j, e)
    BY <2>2, <2>3, <2>4 DEF PropKept
  <2>6. RowKept(w, k, e) => RowKept(v, j, e)
    BY <1>5, <1>8, <1>10, <2>3 DEF RowKept
  <2>7. e \notin k.new \ k.coming
    BY <1>10
  <2>8. Stored(w, k, e) => Stored(v, j, e)
    BY <1>5, <1>8, <1>10, <2>2, <2>4, <2>5, <2>7 DEF Stored
  <2>9. Dropped(w, k, e) => Dropped(v, j, e)
    BY <1>5, <1>8, <1>10, <2>2 DEF Dropped
  <2> QED BY <1>5, <1>8, <1>10, <2>1, <2>2, <2>6, <2>8, <2>9 DEF Sound
<1>14. \A x \in Entities \ {e} :
          /\ x \in Range(gone') <=> x \in Range(gone)
          /\ x \in Range(dirty') \ j.busy <=> x \in Range(dirty) \ k.busy
          /\ x \in Range(unstored') \ j.coming <=> x \in Range(unstored) \ k.coming
  BY <1>1, <1>2, <1>3, <1>10
<1>15. PICK r, q : r = Final.rows[e] /\ q = Final.props[e]
  OBVIOUS
<1>16. Wrote(Final, Final', e, r, q)
  BY <1>9, <1>15, RunFacts DEF Wrote
<1>17. /\ unstored' \in Seq(Ids)
       /\ IsInjective(unstored') /\ Range(unstored') \subseteq Range(unstored)
       /\ dirty' \in Seq(Entities) /\ gone' \in Seq(Ids)
       /\ tick' = "inserted" => unstored' # <<>>
       /\ tick' = "updated" => dirty' # <<>>
       /\ pending' \in Seq(Spared(flags))
  BY <1>1, <1>2, <1>3, RunFacts DEF RunInv
<1>18. "destroyed" \in flags'[e] <=> "destroyed" \in flags[e]
  BY <1>3, <1>7
<1> QED BY <1>2, <1>3, <1>4, <1>6, <1>12, <1>13, <1>14, <1>16, <1>17, <1>18, OneStep

\* The first of the dirty ones.
LEMMA FirstDirty ==
    ASSUME RunInv, dirty # <<>>, NEW s, s = dirty, NEW e, e = Head(s)
    PROVE  /\ s \in Seq(Entities) /\ e \in Entities \ Fresh
           /\ Tail(s) \in Seq(Entities) /\ IsInjective(Tail(s))
           /\ Range(s) = Range(Tail(s)) \cup {e} /\ e \notin Range(Tail(s))
           /\ {"connected", "queued", "stored"} \subseteq flags[e]
           /\ "ephem" \notin flags[e]
<1>1. PICK w, k : w = World /\ k = Setting
  OBVIOUS
<1>2. Marked(w, k) /\ w.flags = flags /\ w.dirty = s
  BY <1>1, RunFacts DEF RunInv, Kept
<1>3. s \in Seq(Entities) /\ s # <<>> /\ IsInjective(s)
  BY <1>2, RunFacts DEF Marked
<1>4. /\ Range(s) = Range(Tail(s)) \cup {e} /\ Tail(s) \in Seq(Entities) /\ e \in Entities
      /\ IsInjective(Tail(s)) /\ e \notin Range(Tail(s))
  BY <1>3, TailRange
<1>5. {"connected", "queued", "stored"} \subseteq flags[e] /\ "ephem" \notin flags[e]
  BY <1>2, <1>4 DEF Marked
<1>6. e \notin Fresh
  BY <1>5 DEF RunInv
<1> QED BY <1>3, <1>4, <1>5, <1>6

LEMMA TickPopStep ==
    ASSUME RunInv, TickPop
    PROVE  RunInv'
<1>1. PICK s, e, f : s = dirty /\ e = Head(s) /\ f = flags[e] \ {"queued"}
  OBVIOUS
<1>2. /\ UNCHANGED <<entities, parent, prop, unstored, gone, missed, idGenerator, db, pending>>
      /\ tick = "updated" /\ tick' = "dirty" /\ dirty' = Tail(s)
      /\ flags' = [flags EXCEPT ![e] = f]
  BY <1>1 DEF TickPop, serverVars, dbVars
<1>3. /\ s \in Seq(Entities) /\ e \in Entities \ Fresh
      /\ Tail(s) \in Seq(Entities) /\ IsInjective(Tail(s))
      /\ Range(s) = Range(Tail(s)) \cup {e} /\ e \notin Range(Tail(s))
  <2>1. dirty # <<>>
    BY <1>2 DEF RunInv
  <2> QED BY <1>1, <2>1, FirstDirty
<1>4. PICK w, k, v, j : w = World /\ k = Setting /\ v = World' /\ j = Setting'
  OBVIOUS
<1>5. /\ w.parent = parent /\ w.flags = flags /\ w.dirty = s /\ w.gone = gone
      /\ w.missed = missed /\ Kept(w, k, {})
  BY <1>1, <1>4, RunFacts DEF RunInv
<1>6. /\ f \in SUBSET Flags /\ flags' \in [Entities -> SUBSET Flags]
      /\ flags'[e] = f /\ \A x \in Entities \ {e} : flags'[x] = flags[x]
  <2>1. f \in SUBSET Flags
    BY <1>1, <1>3, RunFacts
  <2> QED BY <1>2, <1>3, <2>1, RunFacts
<1>7. \A x \in Entities : \A g : g # "queued" => (g \in flags'[x] <=> g \in flags[x])
  BY <1>1, <1>3, <1>6
<1>8. /\ v.parent = parent /\ v.flags = flags' /\ v.dirty = Tail(s) /\ v.gone = gone
      /\ v.missed = missed
  BY <1>2, <1>4 DEF World
<1>9. Final' = Final
  BY <1>2 DEF Final
<1>10. /\ k.busy = {e} /\ j.busy = {} /\ k.coming = {} /\ k.new = Range(unstored)
       /\ j.live = k.live /\ j.new = k.new /\ j.coming = k.coming
       /\ j.dying = k.dying /\ j.p = k.p /\ j.F = k.F
  BY <1>1, <1>2, <1>4, <1>9 DEF Setting
<1>11. Marked(v, j)
  <2>1. Marked(w, k)
    BY <1>5 DEF Kept
  <2>2. \A x \in Entities : \A g \in {"connected", "stored", "ephem", "destroyed"} :
            g \in v.flags[x] <=> g \in w.flags[x]
    BY <1>5, <1>7, <1>8
  <2>3. \A x \in Entities : x \in Range(v.dirty) <=> {"connected", "queued"} \subseteq v.flags[x]
    <3>1. "queued" \notin v.flags[e] /\ \A x \in Entities \ {e} : v.flags[x] = w.flags[x]
      BY <1>1, <1>5, <1>6, <1>8
    <3> QED BY <1>3, <1>5, <1>8, <2>1, <3>1 DEF Marked
  <2>4. \A x \in Entities : /\ "connected" \in v.flags[x] => "stored" \in v.flags[x]
                            /\ "stored" \in v.flags[x] => "ephem" \notin v.flags[x]
    BY <2>1, <2>2 DEF Marked
  <2>5. j.live \cup j.new \subseteq Entities /\ j.coming \subseteq j.new
    BY <1>5, <1>10 DEF Kept
  <2>6. /\ \A x \in j.new : v.flags[x] \cap {"connected", "ephem"} = {}
        /\ \A x \in j.coming : "stored" \in v.flags[x]
        /\ \A x \in j.live : /\ "destroyed" \notin v.flags[x]
                             /\ x \in j.new \/ v.flags[x] \cap {"connected", "ephem"} # {}
    BY <1>10, <2>1, <2>2, <2>5 DEF Marked
  <2>7. /\ \A x \in Range(v.gone) : "destroyed" \in v.flags[x]
        /\ "connected" \in v.flags[Root] /\ "destroyed" \notin v.flags[Root]
    <3>1. Range(v.gone) \subseteq Entities /\ Root \in Entities
      BY <1>8, RunFacts
    <3> QED BY <1>5, <1>8, <2>1, <2>2, <3>1 DEF Marked
  <2>8. j.busy \subseteq Range(v.dirty) /\ IsInjective(v.dirty)
    BY <1>3, <1>8, <1>10
  <2> QED BY <2>3, <2>4, <2>6, <2>7, <2>8 DEF Marked
<1>12. Sound(v, j, {}, e)
  <2>1. Sound(w, k, {}, e)
    BY <1>3, <1>5 DEF Kept
  <2>2. \A g \in {"stored", "propClean", "unsent", "updateQueued", "ephem", "destroyed"} :
            g \in v.flags[e] <=> g \in w.flags[e]
    BY <1>3, <1>5, <1>7, <1>8
  <2>3. ~Due(w, k, e)
    BY <1>10 DEF Due
  <2>4. Matches(j, e) <=> Matches(k, e)
    BY <1>10 DEF Matches
  <2>5. PropKept(w, k, e) => PropKept(v, j, e)
    BY <2>2, <2>3, <2>4 DEF PropKept
  <2>6. RowKept(w, k, e) => RowKept(v, j, e)
    BY <1>5, <1>8, <1>10, <2>3 DEF RowKept
  <2>7. Stored(w, k, e) => Stored(v, j, e)
    BY <1>5, <1>8, <1>10, <2>2, <2>4, <2>5 DEF Stored
  <2>8. Dropped(w, k, e) => Dropped(v, j, e)
    BY <1>5, <1>8, <1>10, <2>2 DEF Dropped
  <2> QED BY <1>5, <1>8, <1>10, <2>1, <2>2, <2>6, <2>7, <2>8 DEF Sound
<1>13. \A x \in Entities \ {e} :
          /\ x \in Range(gone') <=> x \in Range(gone)
          /\ x \in Range(dirty') \ j.busy <=> x \in Range(dirty) \ k.busy
          /\ x \in Range(unstored') \ j.coming <=> x \in Range(unstored) \ k.coming
  BY <1>1, <1>2, <1>3, <1>10
<1>14. PICK r, q : r = Final.rows[e] /\ q = Final.props[e]
  OBVIOUS
<1>15. Wrote(Final, Final', e, r, q)
  BY <1>9, <1>14, RunFacts DEF Wrote
<1>16. /\ unstored' \in Seq(Ids)
       /\ IsInjective(unstored') /\ Range(unstored') \subseteq Range(unstored)
       /\ dirty' \in Seq(Entities) /\ gone' \in Seq(Ids)
       /\ tick' = "inserted" => unstored' # <<>>
       /\ tick' = "updated" => dirty' # <<>>
       /\ pending' \in Seq(Spared(flags))
  BY <1>1, <1>2, <1>3, RunFacts DEF RunInv
<1>17. "destroyed" \in flags'[e] <=> "destroyed" \in flags[e]
  BY <1>3, <1>7
<1> QED BY <1>2, <1>3, <1>4, <1>6, <1>11, <1>12, <1>13, <1>15, <1>16, <1>17, OneStep

\* An entity that is clean is passed over.
LEMMA TickCleanStep ==
    ASSUME RunInv, TickDirty, tick' = "updated", UNCHANGED <<flags, pending>>,
           "clean" \in flags[Head(dirty)]
    PROVE  RunInv'
<1>1. PICK s, e : s = dirty /\ e = Head(s)
  OBVIOUS
<1>2. /\ UNCHANGED <<entities, parent, prop, unstored, dirty, gone, missed, idGenerator, db>>
      /\ tick = "dirty" /\ s # <<>>
  BY <1>1 DEF TickDirty, queueVars, serverVars
<1>3. e \in Entities \ Fresh /\ Range(s) = Range(Tail(s)) \cup {e}
  BY <1>1, <1>2, FirstDirty
<1>4. PICK w, k, v, j : w = World /\ k = Setting /\ v = World' /\ j = Setting'
  OBVIOUS
<1>5. w.flags = flags /\ w.dirty = s /\ v = w /\ Kept(w, k, {})
  BY <1>1, <1>2, <1>4, RunFacts DEF RunInv, World
<1>6. Final' = Final
  BY <1>2 DEF Final
<1>7. /\ k.busy = {} /\ j.busy = {e} /\ k.coming = {}
      /\ j.live = k.live /\ j.new = k.new /\ j.coming = k.coming
      /\ j.dying = k.dying /\ j.p = k.p /\ j.F = k.F
  BY <1>1, <1>2, <1>4, <1>6 DEF Setting
<1>8. Marked(v, j)
  BY <1>3, <1>5, <1>7 DEF Kept, Marked
<1>9. Sound(v, j, {}, e)
  <2>1. Sound(w, k, {}, e)
    BY <1>3, <1>5 DEF Kept
  <2>2. ~Due(w, k, e)
    BY <1>1, <1>5 DEF Due
  <2>3. Matches(j, e) <=> Matches(k, e)
    BY <1>7 DEF Matches
  <2>4. PropKept(w, k, e) => PropKept(v, j, e)
    BY <1>5, <2>2, <2>3 DEF PropKept
  <2>5. RowKept(w, k, e) => RowKept(v, j, e)
    BY <1>5, <1>7, <2>2 DEF RowKept
  <2>6. Stored(w, k, e) => Stored(v, j, e)
    BY <1>5, <1>7, <2>3, <2>4 DEF Stored
  <2>7. Dropped(w, k, e) => Dropped(v, j, e)
    BY <1>5, <1>7 DEF Dropped
  <2> QED BY <1>5, <1>7, <2>1, <2>5, <2>6, <2>7 DEF Sound
<1>10. \A x \in Entities \ {e} :
          /\ x \in Range(gone') <=> x \in Range(gone)
          /\ x \in Range(dirty') \ j.busy <=> x \in Range(dirty) \ k.busy
          /\ x \in Range(unstored') \ j.coming <=> x \in Range(unstored) \ k.coming
  BY <1>2, <1>7
<1>11. PICK r, q : r = Final.rows[e] /\ q = Final.props[e]
  OBVIOUS
<1>12. Wrote(Final, Final', e, r, q)
  BY <1>6, <1>11, RunFacts DEF Wrote
<1>13. /\ flags' \in [Entities -> SUBSET Flags] /\ unstored' \in Seq(Ids)
       /\ IsInjective(unstored') /\ Range(unstored') \subseteq Range(unstored)
       /\ dirty' \in Seq(Entities) /\ gone' \in Seq(Ids)
       /\ tick' = "inserted" => unstored' # <<>>
       /\ tick' = "updated" => dirty' # <<>>
       /\ pending' \in Seq(Spared(flags))
  BY <1>1, <1>2, RunFacts DEF RunInv
<1>14. /\ \A x \in Entities \ {e} : flags'[x] = flags[x]
       /\ "destroyed" \in flags'[e] <=> "destroyed" \in flags[e]
  OBVIOUS
<1> QED BY <1>2, <1>3, <1>4, <1>8, <1>9, <1>10, <1>12, <1>13, <1>14, OneStep

\* What updateEntity writes.
LEMMA UpdateSpared ==
    ASSUME RunInv, NEW e \in Entities
    PROVE  pending \o UpdateCommands(e) \in Seq(Spared(flags))
<1>1. parent[e] \in Places /\ prop[e] \in Settings \cup {Absent}
  BY RunFacts DEF RunInv
<1>2. PICK a, b, S : a = parent[e] /\ b = prop[e] /\ S = Spared(flags)
  OBVIOUS
<1>3. a # Nowhere => e \in Ids
  BY <1>2 DEF RunInv, Tree, Entities
<1>4. PICK row : row = IF a = Nowhere THEN Command("updateEntityWithoutLoc", e, Absent)
                                      ELSE Command("updateEntity", e, a)
  OBVIOUS
<1>5. row \in S
  <2>1. CASE a = Nowhere
    BY <1>2, <1>4, <2>1, SparedCommands
  <2>2. CASE a # Nowhere
    BY <1>1, <1>2, <1>3, <1>4, <2>2, SparedCommands
  <2> QED BY <2>1, <2>2
<1>6. b # Absent => Command("upsertProperties", e, b) \in S
  BY <1>1, <1>2, SparedCommands
<1>7. Command("deleteProperty", e, Absent) \in S
  BY <1>2, SparedCommands
<1>8. \/ UpdateCommands(e) = <<row>> \o <<>>
      \/ UpdateCommands(e) = <<row>> \o <<Command("deleteProperty", e, Absent)>>
      \/ b # Absent /\ UpdateCommands(e) = <<row>> \o <<Command("upsertProperties", e, b)>>
  BY <1>2, <1>4 DEF UpdateCommands
<1>9. <<row>> \o <<>> \in Seq(S)
  BY <1>5
<1>10. ASSUME NEW c \in S PROVE <<row>> \o <<c>> \in Seq(S)
  <2>1. <<row>> \in Seq(S) /\ <<c>> \in Seq(S)
    BY <1>5
  <2> QED BY <2>1
<1>11. UpdateCommands(e) \in Seq(S)
  BY <1>6, <1>7, <1>8, <1>9, <1>10
<1> QED BY <1>2, <1>11 DEF RunInv

LEMMA TickWriteStep ==
    ASSUME RunInv, TickDirty, tick' = "updated",
           ~(entity_clean_mask \subseteq flags[Head(dirty)])
    PROVE  RunInv'
<1>1. PICK s, e, f : /\ s = dirty /\ e = Head(s)
                     /\ f = flags[e] \cup entity_clean_mask \cup PropClean(e)
  OBVIOUS
<1>2. /\ UNCHANGED <<entities, parent, prop, unstored, dirty, gone, missed, idGenerator, db>>
      /\ tick = "dirty" /\ s # <<>> /\ pending' = pending \o UpdateCommands(e)
      /\ flags' = [flags EXCEPT ![e] = f]
  BY <1>1 DEF TickDirty, queueVars, serverVars
<1>3. /\ e \in Entities \ Fresh /\ Range(s) = Range(Tail(s)) \cup {e}
      /\ {"connected", "queued", "stored"} \subseteq flags[e]
      /\ "ephem" \notin flags[e]
  BY <1>1, <1>2, FirstDirty
<1>4. PICK w, k, v, j : w = World /\ k = Setting /\ v = World' /\ j = Setting'
  OBVIOUS
<1>5. /\ w.parent = parent /\ w.flags = flags /\ w.dirty = s /\ w.gone = gone
      /\ w.missed = missed /\ Kept(w, k, {})
  BY <1>1, <1>4, RunFacts DEF RunInv
<1>6. /\ f \in SUBSET Flags /\ flags' \in [Entities -> SUBSET Flags]
      /\ flags'[e] = f /\ \A x \in Entities \ {e} : flags'[x] = flags[x]
  <2>1. f \in SUBSET Flags
    BY <1>1, <1>3, RunFacts DEF PropClean, entity_clean_mask, Flags
  <2> QED BY <1>2, <1>3, <2>1, RunFacts
<1>7. \A x \in Entities : \A g : g \notin {"clean", "posClean", "propClean"}
                                  => (g \in flags'[x] <=> g \in flags[x])
  BY <1>1, <1>3, <1>6 DEF PropClean, entity_clean_mask
<1>8. /\ v.parent = parent /\ v.flags = flags' /\ v.dirty = s /\ v.gone = gone
      /\ v.missed = missed
  BY <1>1, <1>2, <1>4 DEF World
<1>9. /\ k.live = entities /\ k.coming = {} /\ k.busy = {} /\ k.p = prop /\ k.F = Final
      /\ j.live = k.live /\ j.new = k.new /\ j.coming = {} /\ j.busy = {e}
      /\ j.dying = k.dying /\ j.p = prop /\ j.F = Final'
  BY <1>1, <1>2, <1>4 DEF Setting
<1>10. /\ parent[e] \in Places /\ prop[e] \in Settings \cup {Absent} /\ parent[e] # Absent
       /\ db \in Tables /\ pending \in Seq(Commands) /\ Final = After(db, pending)
  <2>1. parent[e] \in Places /\ Absent \notin Places
    BY <1>3, RunFacts, NoEntities, StorageManagerAssumption DEF Places
  <2> QED BY <1>3, <2>1, RunFacts DEF RunInv
<1>11. PICK r, q :
        /\ r = IF parent[e] = Nowhere \/ Final.rows[e] = Absent THEN Final.rows[e] ELSE parent[e]
        /\ q = IF prop[e] = Absent \/ "propClean" \in flags[e] THEN Final.props[e]
               ELSE IF prop[e] = Unset THEN Absent ELSE prop[e]
  OBVIOUS
<1>12. Wrote(Final, Final', e, r, q)
  <2>1. Final' = After(db, pending \o UpdateCommands(e))
    BY <1>2 DEF Final, After
  <2> QED BY <1>3, <1>10, <1>11, <2>1, UpdateIs
<1>13. j.F.rows[e] = r /\ j.F.props[e] = q /\ (r = Absent <=> Final.rows[e] = Absent)
  BY <1>9, <1>10, <1>11, <1>12 DEF Wrote
<1>14. Marked(v, j)
  <2>1. Marked(v, k)
    <3>1. \A x \in Entities : \A g \in {"connected", "queued", "stored", "ephem", "destroyed"} :
            g \in v.flags[x] <=> g \in w.flags[x]
      BY <1>5, <1>7, <1>8
    <3> QED BY <1>5, <1>8, <3>1, MarksStay
  <2> QED BY <1>3, <1>8, <1>9, <2>1 DEF Marked
<1>15. Sound(v, j, {}, e)
  <2>1. Sound(w, k, {}, e)
    BY <1>3, <1>5 DEF Kept
  <2>2. /\ "stored" \in v.flags[e] /\ "ephem" \notin v.flags[e]
        /\ "destroyed" \in v.flags[e] <=> "destroyed" \in w.flags[e]
    BY <1>3, <1>5, <1>7, <1>8
  <2>3. CASE e \in entities
    <3>1. Stored(w, k, e) /\ "destroyed" \notin v.flags[e]
      BY <1>5, <1>9, <2>1, <2>2, <2>3 DEF Sound, Kept, Marked
    <3>2. "propClean" \in flags[e] \/ prop[e] # Absent => Matches(j, e)
      <4>1. CASE "propClean" \in flags[e]
        BY <1>5, <1>9, <1>11, <1>13, <3>1, <4>1 DEF Matches, Stored
      <4>2. CASE "propClean" \notin flags[e] /\ prop[e] # Absent
        BY <1>9, <1>11, <1>13, <4>2 DEF Matches
      <4> QED BY <4>1, <4>2
    <3>3. prop[e] = Absent /\ e \notin missed => Matches(j, e) /\ j.F.props[e] = Absent
      BY <1>3, <1>5, <1>9, <1>11, <1>13, <3>1 DEF Matches, Stored
    <3>4. "propClean" \in v.flags[e] => Matches(j, e)
      BY <1>1, <1>6, <1>8, <3>2 DEF PropClean, entity_clean_mask
    <3>5. Final.rows[e] # Absent
      BY <1>3, <1>5, <1>9, <3>1 DEF Stored
    <3>6. Stored(v, j, e)
      BY <1>8, <1>9, <1>13, <2>2, <3>2, <3>3, <3>4, <3>5 DEF Stored, PropKept
    <3>7. RowKept(v, j, e)
      <4>1. CASE e = Root
        <5>1. Final.rows[e] = Nowhere /\ parent[e] = Nowhere
          BY <1>10, <4>1, RootRow DEF RunInv, Tree
        <5> QED BY <1>8, <1>11, <1>13, <5>1 DEF RowKept
      <4>2. CASE e # Root
        <5>1. parent[e] \in entities /\ entities \subseteq Entities
          BY <2>3, <4>2 DEF RunInv, Tree, ClosedUnder
        <5>2. parent[e] # Nowhere
          BY <5>1, NoEntities
        <5> QED BY <1>8, <1>11, <1>13, <3>5, <5>2 DEF RowKept
      <4> QED BY <4>1, <4>2
    <3> QED BY <3>1, <3>6, <3>7 DEF Sound
  <2>4. CASE e \notin entities
    <3>1. Dropped(w, k, e) => Dropped(v, j, e)
      BY <1>5, <1>8, <1>9, <1>13, <2>2 DEF Dropped
    <3> QED BY <1>5, <1>8, <1>9, <2>1, <2>2, <2>4, <3>1 DEF Sound
  <2> QED BY <2>3, <2>4
<1>16. \A x \in Entities \ {e} :
          /\ x \in Range(gone') <=> x \in Range(gone)
          /\ x \in Range(dirty') \ j.busy <=> x \in Range(dirty) \ k.busy
          /\ x \in Range(unstored') \ j.coming <=> x \in Range(unstored) \ k.coming
  BY <1>2, <1>9
<1>17. /\ unstored' \in Seq(Ids)
       /\ IsInjective(unstored') /\ Range(unstored') \subseteq Range(unstored)
       /\ dirty' \in Seq(Entities) /\ gone' \in Seq(Ids)
       /\ tick' = "inserted" => unstored' # <<>>
       /\ tick' = "updated" => dirty' # <<>>
  BY <1>1, <1>2, RunFacts DEF RunInv
<1>18. pending' \in Seq(Spared(flags))
  BY <1>2, <1>3, UpdateSpared
<1>19. "destroyed" \in flags'[e] <=> "destroyed" \in flags[e]
  BY <1>3, <1>7
<1> QED BY <1>2, <1>3, <1>4, <1>6, <1>12, <1>14, <1>15, <1>16, <1>17, <1>18, <1>19, OneStep

LEMMA TickDirtyStep ==
    ASSUME RunInv, TickDirty
    PROVE  RunInv'
<1>1. CASE dirty = <<>> \/ Len(pending) > QueryLimit
  <2>1. /\ UNCHANGED <<worldVars, queueVars, idGenerator, pending, db>>
        /\ tick = "dirty" /\ tick' = "idle"
    BY <1>1 DEF TickDirty, serverVars, worldVars, queueVars
  <2>2. Final' = Final
    BY <2>1 DEF Final
  <2>3. pending' \in Seq(Spared(flags)) /\ db' \in Tables /\ db'.rows[Root] = Nowhere
    BY <2>1 DEF RunInv
  <2>4. {tick, tick'} \cap {"inserted", "updated"} = {}
    BY <2>1
  <2> QED BY <2>1, <2>2, <2>3, <2>4, IdleStep
<1>2. CASE ~(dirty = <<>> \/ Len(pending) > QueryLimit)
  <2>1. tick' = "updated"
    BY <1>2 DEF TickDirty
  <2>2. CASE entity_clean_mask \subseteq flags[Head(dirty)]
    <3>1. UNCHANGED <<flags, pending>>
      BY <1>2, <2>2 DEF TickDirty
    <3>2. "clean" \in flags[Head(dirty)]
      BY <2>2 DEF entity_clean_mask
    <3> QED BY <2>1, <3>1, <3>2, TickCleanStep
  <2> QED BY <2>1, <2>2, TickWriteStep
<1> QED BY <1>1, <1>2

\* The worker applies one command.
LEMMA ApplyStep ==
    ASSUME RunInv, ApplyCommand
    PROVE  RunInv'
<1>1. /\ UNCHANGED <<worldVars, queueVars, idGenerator, tick>>
      /\ pending # <<>> /\ db' = Apply(db, Head(pending)) /\ pending' = Tail(pending)
  BY DEF ApplyCommand, serverVars
<1>2. PICK s, d, c, S : s = pending /\ d = db /\ c = Head(s) /\ S = Spared(flags)
  OBVIOUS
<1>3. s \in Seq(S) /\ s # <<>> /\ d \in Tables /\ d.rows[Root] = Nowhere
  BY <1>1, <1>2 DEF RunInv
<1>4. c \in S /\ Tail(s) \in Seq(S)
  BY <1>2, <1>3
<1>5. c \in Commands
  BY <1>2, <1>4 DEF Spared
<1>6. Apply(d, c) \in Tables
  BY <1>3, <1>5, ApplyType
<1>7. Apply(d, c).rows[Root] = Nowhere
  <2>1. ~Touches(c, Root, d.rows[Root] # Absent)
    BY <1>2, <1>4 DEF Touches, Spared
  <2>2. Root \in Entities
    BY DEF Entities
  <2> QED BY <1>3, <1>5, <2>1, <2>2, UntouchedByOne
<1>8. Final' = Final
  <2>1. s \in Seq(Commands)
    BY <1>2, <1>3, SparedStay
  <2>2. After(Apply(d, Head(s)), Tail(s)) = After(d, s)
    BY <1>3, <2>1, AfterOne
  <2> QED BY <1>1, <1>2, <2>2 DEF Final, After
<1> QED BY <1>1, <1>2, <1>4, <1>6, <1>7, <1>8, IdleStep

\* A tick begins, and a shutdown begins and ends.
LEMMA PhaseStep ==
    ASSUME RunInv, StartTick \/ Shutdown \/ ShutdownComplete
    PROVE  RunInv'
<1>1. /\ UNCHANGED <<worldVars, queueVars, dbVars, idGenerator>>
      /\ tick = "idle" /\ tick' \in {"idle", "destroyed"}
  BY DEF StartTick, Shutdown, ShutdownComplete, serverVars
<1>2. Final' = Final /\ UNCHANGED <<pending, db>>
  BY <1>1 DEF Final, dbVars
<1>3. pending' \in Seq(Spared(flags)) /\ db' \in Tables /\ db'.rows[Root] = Nowhere
  BY <1>2 DEF RunInv
<1>4. {tick, tick'} \cap {"inserted", "updated"} = {}
  BY <1>1
<1> QED BY <1>1, <1>2, <1>3, <1>4, IdleStep

-----------------------------------------------------------------------------
\* The beginning, and the beginning of another run.

\* A set in some order.
LEMMA OrderOf ==
    ASSUME NEW S, IsFiniteSet(S), NEW order \in SetToSeqs(S)
    PROVE  order \in Seq(S) /\ IsInjective(order) /\ Range(order) = S
<1>1. PICK n : n = Cardinality(S)
  OBVIOUS
<1>2. n \in Nat /\ IsFiniteSet(1 .. n) /\ Cardinality(1 .. n) = n
  BY <1>1, FS_CardinalityType, FS_Interval
<1>3. order \in [1 .. n -> S] /\ IsInjective(order)
  BY <1>1 DEF SetToSeqs, IsInjective
<1>4. order \in Injection(1 .. n, S)
  BY <1>3 DEF Injection
<1>5. order \in Surjection(1 .. n, S)
  BY <1>1, <1>2, <1>4, FS_Injection
<1>6. \A y \in S : \E i \in 1 .. n : order[i] = y
  BY <1>5 DEF Surjection
<1>7. Range(order) = S
  BY <1>3, <1>6 DEF Range
<1> QED BY <1>2, <1>3, <1>7

LEMMA EmptyRange == Range(<<>>) = {} /\ IsInjective(<<>>)
BY DEF Range, IsInjective

\* A world that is as the tables say, all of it but the root still unstored.
LEMMA FreshWorld ==
    ASSUME NEW d \in Tables, d.rows[Root] = Nowhere,
           NEW live \in SUBSET Entities, Root \in live, NEW w \in Worlds,
           w.dirty = <<>>, w.gone = <<>>, w.missed = {},
           \A x \in live : /\ w.parent[x] = d.rows[x] /\ d.rows[x] # Absent
                           /\ w.flags[x] \ {"propClean"}
                                = IF x = Root THEN RootFlags ELSE {"queued", "locUnsent", "stored"},
           \A x \in Entities \ live : w.flags[x] = {},
           NEW k, k.live = live, k.new = live \ {Root}, k.coming = {}, k.busy = {}, k.F = d,
           \A x \in live : k.p[x] = d.props[x]
    PROVE  Kept(w, k, {})
<1>1. Root \in Entities /\ Range(w.dirty) = {} /\ Range(w.gone) = {} /\ IsInjective(w.dirty)
  BY EmptyRange DEF Entities
<1>2. /\ \A x \in live \ {Root} : w.flags[x] \ {"propClean"} = {"queued", "locUnsent", "stored"}
      /\ w.flags[Root] \ {"propClean"} = RootFlags
  OBVIOUS
<1>3. /\ \A x \in live \ {Root} : /\ w.flags[x] \cap {"connected", "ephem", "destroyed"} = {}
                                  /\ "stored" \in w.flags[x]
      /\ {"connected", "stored"} \subseteq w.flags[Root]
      /\ w.flags[Root] \cap {"queued", "ephem", "destroyed"} = {}
  BY <1>2 DEF RootFlags
<1>4. Marked(w, k)
  <2>1. \A x \in Entities :
        /\ x \in Range(w.dirty) <=> {"connected", "queued"} \subseteq w.flags[x]
        /\ "connected" \in w.flags[x] => "stored" \in w.flags[x]
        /\ "stored" \in w.flags[x] => "ephem" \notin w.flags[x]
    <3> SUFFICES ASSUME NEW x \in Entities
                 PROVE  /\ ~({"connected", "queued"} \subseteq w.flags[x])
                        /\ "connected" \in w.flags[x] => "stored" \in w.flags[x]
                        /\ "stored" \in w.flags[x] => "ephem" \notin w.flags[x]
      BY <1>1
    <3>1. CASE x = Root
      BY <1>3, <3>1
    <3>2. CASE x \in live \ {Root}
      BY <1>3, <3>2
    <3>3. CASE x \notin live
      BY <3>3
    <3> QED BY <3>1, <3>2, <3>3
  <2>2. /\ \A x \in k.new : w.flags[x] \cap {"connected", "ephem"} = {}
        /\ \A x \in k.coming : "stored" \in w.flags[x]
        /\ \A x \in k.live : /\ "destroyed" \notin w.flags[x]
                             /\ x \in k.new \/ w.flags[x] \cap {"connected", "ephem"} # {}
    BY <1>3
  <2> QED BY <1>1, <1>3, <2>1, <2>2 DEF Marked
<1>5. ASSUME NEW x \in Entities PROVE Sound(w, k, {}, x)
  <2>1. CASE x \in live
    <3>1. "destroyed" \notin w.flags[x] /\ "stored" \in w.flags[x]
      BY <1>3, <2>1
    <3>2. Matches(k, x) /\ RowKept(w, k, x)
      BY <2>1 DEF Matches, RowKept
    <3> QED BY <2>1, <3>1, <3>2 DEF Sound, Stored, PropKept
  <2>2. CASE x \notin live
    BY <2>2 DEF Sound
  <2> QED BY <2>1, <2>2
<1> QED BY <1>4, <1>5 DEF Kept

LEMMA InitInv == Init => Inv
<1> SUFFICES ASSUME Init PROVE Inv
  OBVIOUS
<1>1. /\ MaxId \in Nat /\ Root \in Entities /\ Ids \subseteq Entities /\ Root \notin Ids
      /\ \A x \in Entities : x # Root => x \in Ids
      /\ \A x \in Ids : x > 0
  BY StorageManagerAssumption DEF Entities, Ids, Root
<1>2. /\ parent = [e \in Entities |-> Nowhere] /\ prop = [e \in Entities |-> Absent]
      /\ flags = [e \in Entities |-> IF e = Root THEN RootFlags ELSE {}]
      /\ db = [rows |-> [e \in Entities |-> IF e = Root THEN Nowhere ELSE Absent],
               props |-> [e \in Entities |-> Absent]]
      /\ entities = {Root} /\ unstored = <<>> /\ dirty = <<>> /\ gone = <<>> /\ missed = {}
      /\ tick = "idle" /\ pending = <<>> /\ idGenerator = 0 /\ server = "running"
  BY DEF Init
<1>3. db \in Tables /\ db.rows[Root] = Nowhere
  BY <1>1, <1>2 DEF Tables, Places, Settings
<1>4. Final = db
  <2>1. Final = After(db, <<>>) /\ <<>> \in Seq(Commands)
    BY <1>2 DEF Final, After
  <2> QED BY <1>3, <2>1, AfterOne
<1>5. World \in Worlds
  <2>1. /\ parent \in [Entities -> Places] /\ flags \in [Entities -> SUBSET Flags]
        /\ dirty \in Seq(Entities) /\ gone \in Seq(Ids) /\ missed \in SUBSET Entities
    BY <1>2 DEF Places, RootFlags, Flags
  <2> QED BY <2>1 DEF World, Worlds
<1>6. PICK w, k, live, d : w = World /\ k = Setting /\ live = entities /\ d = db
  OBVIOUS
<1>7. Kept(w, k, {})
  <2>1. /\ w \in Worlds /\ d \in Tables /\ d.rows[Root] = Nowhere
        /\ live \in SUBSET Entities /\ Root \in live
        /\ w.dirty = <<>> /\ w.gone = <<>> /\ w.missed = {}
    BY <1>1, <1>2, <1>3, <1>5, <1>6 DEF World
  <2>2. \A x \in live : /\ w.parent[x] = d.rows[x] /\ d.rows[x] # Absent
                        /\ w.flags[x] \ {"propClean"}
                                = IF x = Root THEN RootFlags ELSE {"queued", "locUnsent", "stored"}
    BY <1>1, <1>2, <1>6, StorageManagerAssumption DEF World, RootFlags
  <2>3. \A x \in Entities \ live : w.flags[x] = {}
    BY <1>2, <1>6 DEF World
  <2>4. /\ k.live = live /\ k.new = live \ {Root} /\ k.coming = {} /\ k.busy = {} /\ k.F = d
        /\ \A x \in live : k.p[x] = d.props[x]
    BY <1>1, <1>2, <1>4, <1>6, EmptyRange DEF Setting
  <2> QED BY <2>1, <2>2, <2>3, <2>4, FreshWorld
<1>8. Tree(parent, entities)
  BY <1>1, <1>2 DEF Tree, ClosedUnder
<1>9. \A x \in Fresh : /\ x \notin entities
                       /\ flags[x] = {} /\ parent[x] = Nowhere
                       /\ Final.rows[x] = Absent
  BY <1>1, <1>2, <1>4 DEF Fresh
<1>10. /\ unstored \in Seq(Ids) /\ IsInjective(unstored) /\ Range(unstored) = {}
       /\ pending \in Seq(Spared(flags)) /\ idGenerator \in 0 .. MaxId
       /\ entities \in SUBSET Entities /\ prop \in [Entities -> Settings \cup {Absent}]
  BY <1>1, <1>2, EmptyRange DEF Settings
<1>11. RunInv
  BY <1>2, <1>3, <1>6, <1>7, <1>8, <1>9, <1>10 DEF RunInv
<1> QED BY <1>2, <1>3, <1>11 DEF Inv

\* restoreWorld and initWorld
LEMMA RestoreStep ==
    ASSUME Inv, Restore
    PROVE  Inv'
<1>1. PICK live, rows, props : live = Reachable /\ rows = db.rows /\ props = db.props
  OBVIOUS
<1>2. /\ live \in SUBSET Entities /\ Tree(rows, live)
      /\ rows \in [Entities -> Places \cup {Absent}]
      /\ props \in [Entities -> Settings \cup {Absent}]
      /\ rows[Root] = Nowhere /\ db \in Tables
  BY <1>1, RestoredTree DEF Inv, Tables
<1>3. MaxId \in Nat /\ Ids \subseteq Nat /\ Entities \in SUBSET (0 .. MaxId) /\ Root \in Entities
  BY StorageManagerAssumption DEF Entities, Ids, Root
<1>4. /\ entities' = live
      /\ parent' = [e \in Entities |-> IF e \in live THEN rows[e] ELSE Nowhere]
      /\ prop' = [e \in Entities |-> IF e \in live THEN props[e] ELSE Absent]
      /\ dirty' = <<>> /\ gone' = <<>> /\ missed' = {} /\ UNCHANGED <<tick, pending, db>>
      /\ tick = "idle" /\ pending = <<>> /\ server' = "running"
      /\ idGenerator' = Max({e \in Entities : rows[e] # Absent})
  BY <1>1 DEF Restore, dbVars, Inv
<1>5. flags' = [e \in Entities |->
                  IF e \notin live THEN {}
                  ELSE (IF props[e] = Absent THEN {} ELSE {"propClean"})
                       \cup (IF e = Root THEN RootFlags ELSE {"queued", "locUnsent", "stored"})]
  BY <1>1 DEF Restore
<1>6. Root \in live /\ \A e \in live \ {Root} : rows[e] \in live
  BY <1>2 DEF Tree, ClosedUnder
<1>7. parent' \in [Entities -> Places] /\ \A e \in live : parent'[e] = rows[e]
  <2>1. \A e \in live : rows[e] \in Places
    BY <1>2, <1>6 DEF Places
  <2> QED BY <1>2, <1>4, <2>1 DEF Places
<1>8. Tree(parent', live)
  <2>1. \A S \in SUBSET live : ClosedUnder(parent', S) <=> ClosedUnder(rows, S)
    BY <1>7 DEF ClosedUnder
  <2>2. live \in SUBSET live
    OBVIOUS
  <2> QED BY <1>2, <1>6, <1>7, <2>1, <2>2 DEF Tree
<1>9. flags' \in [Entities -> SUBSET Flags]
  <2>1. \A e \in Entities : flags'[e] \in SUBSET Flags
    BY <1>5 DEF Flags, RootFlags
  <2>2. flags' = [e \in Entities |-> flags'[e]]
    BY <1>5
  <2> QED BY <2>1, <2>2
<1>10. prop' \in [Entities -> Settings \cup {Absent}]
  BY <1>2, <1>4
<1>11. PICK stored : stored = {e \in Entities : rows[e] # Absent}
  OBVIOUS
<1>12. idGenerator' \in 0 .. MaxId /\ \A e \in stored : e <= idGenerator'
  <2>1. stored \in SUBSET (0 .. MaxId)
    BY <1>3, <1>11
  <2>2. stored # {}
    BY <1>2, <1>3, <1>11, StorageManagerAssumption
  <2>3. Max(stored) \in stored /\ \A y \in stored : Max(stored) >= y
    BY <1>3, <2>1, <2>2, MaxUpTo
  <2> QED BY <1>3, <1>4, <1>11, <2>1, <2>3
<1>13. live \subseteq stored
  <2>1. Absent \notin Nat /\ Absent # Nowhere /\ Entities \subseteq Nat
    BY <1>3, StorageManagerAssumption
  <2> QED BY <1>2, <1>6, <1>11, <2>1
<1>14. \A e \in Fresh' : e \in Entities /\ e \notin live /\ rows[e] = Absent
  <2>1. Fresh' = {e \in Ids : e > idGenerator'}
    BY DEF Fresh
  <2> QED BY <1>3, <1>11, <1>12, <1>13, <2>1 DEF Entities
<1>15. Final' = db
  <2>1. Final' = After(db, <<>>) /\ <<>> \in Seq(Commands)
    BY <1>4 DEF Final, After
  <2> QED BY <1>2, <2>1, AfterOne
<1>16. \A e \in Fresh' : /\ e \notin entities' /\ flags'[e] = {} /\ parent'[e] = Nowhere
                         /\ Final'.rows[e] = Absent
  BY <1>1, <1>4, <1>5, <1>14, <1>15
<1>17. unstored' \in Seq(Ids) /\ Range(unstored') = live \ {Root} /\ IsInjective(unstored')
  <2>1. PICK S, order : S = live \ {Root} /\ order \in SetToSeqs(S) /\ unstored' = order
    BY <1>1 DEF Restore
  <2>2. S \in SUBSET Nat /\ \A y \in S : y <= MaxId
    BY <1>2, <1>3, <2>1
  <2>3. IsFiniteSet(S)
    BY <1>3, <2>2, FS_BoundedSetOfNaturals
  <2>4. order \in Seq(S) /\ Range(order) = S /\ IsInjective(order)
    BY <2>1, <2>3, OrderOf
  <2>5. S \subseteq Ids
    BY <1>2, <2>1 DEF Entities
  <2> QED BY <2>1, <2>4, <2>5
<1>18. PICK w, k, d : w = World' /\ k = Setting' /\ d = db
  OBVIOUS
<1>19. Kept(w, k, {})
  <2>1. /\ w.parent = parent' /\ w.flags = flags' /\ w.dirty = <<>> /\ w.gone = <<>>
        /\ w.missed = {} /\ w \in Worlds
    BY <1>4, <1>7, <1>9, <1>18 DEF World, Worlds
  <2>2. \A x \in live : /\ w.parent[x] = d.rows[x] /\ d.rows[x] # Absent
                        /\ w.flags[x] \ {"propClean"}
                                = IF x = Root THEN RootFlags ELSE {"queued", "locUnsent", "stored"}
    BY <1>1, <1>2, <1>5, <1>7, <1>11, <1>13, <1>18, <2>1 DEF RootFlags
  <2>3. \A x \in Entities \ live : w.flags[x] = {}
    BY <1>5, <2>1
  <2>4. /\ k.live = live /\ k.new = live \ {Root} /\ k.coming = {} /\ k.busy = {} /\ k.F = d
        /\ k.p = prop'
    BY <1>4, <1>15, <1>17, <1>18 DEF Setting
  <2>5. \A x \in live : k.p[x] = d.props[x]
    BY <1>1, <1>2, <1>4, <1>18, <2>4
  <2>6. d \in Tables /\ d.rows[Root] = Nowhere
    BY <1>1, <1>2, <1>18
  <2> QED BY <1>2, <1>6, <2>1, <2>2, <2>3, <2>4, <2>5, <2>6, FreshWorld
<1>20. Tree(parent, entities)'
  BY <1>4, <1>8
<1>21. \A e \in Range(unstored') : e \in entities'
  BY <1>4, <1>17
<1>22. Kept(World, Setting, {})'
  BY <1>18, <1>19
<1>23. db' \in Tables /\ db'.rows[Root] = Nowhere /\ pending' \in Seq(Spared(flags'))
  BY <1>1, <1>2, <1>4
<1>24. /\ entities' \in SUBSET Entities
       /\ tick' = "inserted" => unstored' # <<>>
       /\ tick' = "updated" => dirty' # <<>>
  BY <1>2, <1>4
<1>25. RunInv'
  BY <1>10, <1>12, <1>16, <1>17, <1>20, <1>21, <1>22, <1>23, <1>24 DEF RunInv
<1> QED BY <1>4, <1>23, <1>25 DEF Inv

-----------------------------------------------------------------------------
\* The invariant holds.

\* The operations run while the server runs.
LEMMA WorldStepRuns ==
    ASSUME WorldStep
    PROVE  server = "running" /\ server' = server
BY DEF WorldStep, AddNewEntity, SetOperation, UpdateOperation, DelEntity, MoveOperation,
       Changing, serverVars

LEMMA TickStepRuns ==
    ASSUME TickStep
    PROVE  server' = server /\ (tick = "idle" => server = "running")
BY DEF TickStep, StartTick, TickDestroyed, TickUnstored, TickInserted, TickDirty, TickPop,
       serverVars

LEMMA RunStep ==
    ASSUME RunInv, WorldStep \/ TickStep
    PROVE  RunInv'
<1>1. CASE WorldStep
  <2>1. Values \cup {Absent} \subseteq Settings \cup {Absent} /\ Values \cup {Unset} = Settings
    BY DEF Settings
  <2>2. ASSUME NEW to \in Entities, NEW c \in Values \cup {Absent}, NEW ephem \in BOOLEAN,
               AddNewEntity(to, c, ephem)
        PROVE  RunInv'
    BY <2>1, <2>2, AddStep
  <2>3. ASSUME NEW e \in Entities, NEW c \in Values \cup {Unset}, SetOperation(e, c)
        PROVE  RunInv'
    BY <2>1, <2>3, SetStep
  <2>4. ASSUME NEW e \in Entities, UpdateOperation(e)
        PROVE  RunInv'
    BY <2>4, UpdateStep
  <2>5. ASSUME NEW e \in Entities, DelEntity(e)
        PROVE  RunInv'
    BY <2>5, DelStep
  <2>6. ASSUME NEW e \in Entities, NEW to \in Entities, MoveOperation(e, to)
        PROVE  RunInv'
    BY <2>6, MoveStep
  <2> QED BY <1>1, <2>2, <2>3, <2>4, <2>5, <2>6 DEF WorldStep
<1>2. CASE TickStep
  BY <1>2, PhaseStep, TickDestroyedStep, TickUnstoredStep, TickInsertedStep, TickDirtyStep,
     TickPopStep DEF TickStep
<1> QED BY <1>1, <1>2

LEMMA InvStep ==
    ASSUME Inv, [Next]_vars
    PROVE  Inv'
<1>1. CASE WorldStep \/ TickStep
  <2>1. server \notin {"stopped", "crashed"} /\ server' = server
    BY <1>1, WorldStepRuns, TickStepRuns DEF Inv
  <2>2. RunInv'
    BY <1>1, <2>1, RunStep DEF Inv
  <2> QED BY <2>1, <2>2 DEF Inv, RunInv
<1>2. CASE ApplyCommand
  <2>1. server \notin {"stopped", "crashed"} /\ server' = server
    BY <1>2 DEF ApplyCommand, serverVars, Inv
  <2>2. RunInv'
    BY <1>2, <2>1, ApplyStep DEF Inv
  <2> QED BY <2>1, <2>2 DEF Inv, RunInv
<1>3. CASE Shutdown \/ ShutdownComplete
  <2>1. /\ server \in {"running", "stopping"}
        /\ server' = "stopping" \/ /\ server' = "stopped" /\ tick' = "idle" /\ pending' = <<>>
    BY <1>3 DEF Shutdown, ShutdownComplete, QueriesComplete, dbVars
  <2>2. RunInv'
    BY <1>3, <2>1, PhaseStep DEF Inv
  <2> QED BY <2>1, <2>2 DEF Inv, RunInv
<1>4. CASE Crash
  BY <1>4 DEF Crash, Inv
<1>5. CASE Restore
  BY <1>5, RestoreStep
<1>6. CASE UNCHANGED vars
  <2>1. /\ UNCHANGED <<worldVars, queueVars, tick, pending, db, idGenerator, server>>
        /\ Final' = Final
    BY <1>6 DEF vars, dbVars, serverVars, Final
  <2>2. CASE server = "crashed"
    BY <2>1, <2>2 DEF Inv
  <2>3. CASE server # "crashed"
    <3>1. pending' \in Seq(Spared(flags)) /\ db' \in Tables /\ db'.rows[Root] = Nowhere
      BY <2>1, <2>3 DEF Inv, RunInv
    <3>2. RunInv'
      BY <2>1, <2>3, <3>1, IdleStep DEF Inv
    <3> QED BY <2>1, <3>1, <3>2 DEF Inv
  <2> QED BY <2>2, <2>3
<1> QED BY <1>1, <1>2, <1>3, <1>4, <1>5, <1>6 DEF Next

LEMMA InvHolds == Spec => []Inv
<1>1. Inv /\ [Next]_vars => Inv'
  BY InvStep
<1> QED BY <1>1, InitInv, PTL DEF Spec

\* What it says of an entity of the world, and of one that is gone.
LEMMA LiveMarks ==
    ASSUME RunInv, NEW e \in entities
    PROVE  /\ e \in Entities /\ "destroyed" \notin flags[e]
           /\ "connected" \in flags[e] => "stored" \in flags[e] /\ e \notin Range(unstored)
           /\ e \in Range(unstored) \/ flags[e] \cap {"connected", "ephem"} # {}
           /\ "stored" \in flags[e] <=> Final.rows[e] # Absent
<1>1. PICK w, k : w = World /\ k = Setting
  OBVIOUS
<1>2. /\ w.flags = flags /\ k.live = entities /\ k.new = Range(unstored) /\ k.F = Final
      /\ Kept(w, k, {}) /\ e \in Entities
  BY <1>1, RunFacts, SettingFacts DEF RunInv
<1>3. Sound(w, k, {}, e) /\ Marked(w, k)
  BY <1>2 DEF Kept
<1>4. /\ "destroyed" \notin flags[e]
      /\ e \in Range(unstored) \/ flags[e] \cap {"connected", "ephem"} # {}
  BY <1>2, <1>3 DEF Marked
<1>5. "connected" \in flags[e] => "stored" \in flags[e] /\ e \notin Range(unstored)
  BY <1>2, <1>3 DEF Marked
<1>6. "stored" \in flags[e] <=> Final.rows[e] # Absent
  BY <1>2, <1>3 DEF Sound, Stored
<1> QED BY <1>2, <1>4, <1>5, <1>6

LEMMA LiveFacts ==
    ASSUME RunInv, NEW e \in entities, e \notin missed
    PROVE  /\ "stored" \in flags[e] => Final.rows[e] = parent[e] \/ e \in Range(dirty)
           /\ "connected" \in flags[e]
                => \/ Final.props[e] = prop[e]
                   \/ prop[e] = Unset /\ Final.props[e] = Absent
                   \/ "updateQueued" \in flags[e] \/ e \in Range(dirty)
<1>1. PICK w, k : w = World /\ k = Setting
  OBVIOUS
<1>2. /\ w.parent = parent /\ w.flags = flags /\ w.dirty = dirty /\ w.missed = missed
      /\ k.live = entities /\ k.new = Range(unstored) /\ k.p = prop /\ k.F = Final
      /\ Kept(w, k, {}) /\ e \in Entities
  BY <1>1, RunFacts, SettingFacts DEF RunInv
<1>3. Stored(w, k, e) /\ ("stored" \in flags[e] => RowKept(w, k, e))
  BY <1>2 DEF Kept, Sound
<1>4. "stored" \in flags[e] => Final.rows[e] = parent[e] \/ e \in Range(dirty)
  BY <1>2, <1>3 DEF RowKept, Due
<1>5. "connected" \in flags[e] => PropKept(w, k, e)
  BY <1>2, <1>3, LiveMarks DEF Stored
<1>6. "connected" \in flags[e]
        => \/ Final.props[e] = prop[e]
           \/ prop[e] = Unset /\ Final.props[e] = Absent
           \/ "updateQueued" \in flags[e] \/ e \in Range(dirty)
  BY <1>2, <1>5 DEF PropKept, Matches, Due
<1> QED BY <1>4, <1>6

LEMMA DeadFacts ==
    ASSUME RunInv, NEW e \in Ids, "destroyed" \in flags[e], e \notin missed
    PROVE  Final.rows[e] = Absent \/ e \in Range(gone)
<1>1. PICK w, k : w = World /\ k = Setting
  OBVIOUS
<1>2. /\ w.flags = flags /\ w.gone = gone /\ w.missed = missed /\ k.dying = {} /\ k.F = Final
      /\ Kept(w, k, {}) /\ e \in Entities
  BY <1>1, RunFacts, SettingFacts DEF RunInv
<1>3. Dropped(w, k, e)
  BY <1>2 DEF Kept, Sound
<1> QED BY <1>2, <1>3 DEF Dropped

(***************************************************************************)
(* No change of an entity is lost on the way to the database but in the    *)
(* two windows that Unheard names: in every run of the server, for any     *)
(* number of entities and changes, and with a tick that runs on a pool     *)
(* thread between the operations of the main thread.                       *)
(***************************************************************************)
THEOREM NoChangeIsLost == Spec => []StoredMatchesMemory
<1>1. Inv => StoredMatchesMemory
  <2> SUFFICES ASSUME Inv, server = "running", NEW e \in entities \ missed, Settled(e)
               PROVE  Holds(Final, e)
    BY DEF StoredMatchesMemory
  <2>1. RunInv
    BY DEF Inv
  <2>2. "connected" \in flags[e] /\ "updateQueued" \notin flags[e] /\ e \notin Range(dirty)
    BY DEF Settled
  <2>3. Final.rows[e] = parent[e]
    BY <2>1, <2>2, LiveMarks, LiveFacts
  <2>4. Final.props[e] = prop[e] \/ (prop[e] = Unset /\ Final.props[e] = Absent)
    BY <2>1, <2>2, LiveFacts
  <2> QED BY <2>3, <2>4 DEF Holds
<1> QED BY <1>1, InvHolds, PTL

(***************************************************************************)
(* No ghosts: what destroy() has ended does not stay in the table of the   *)
(* entities, unless insertEntity had just scheduled its row and not yet    *)
(* connected its signals.                                                  *)
(***************************************************************************)
THEOREM NoGhosts == Spec => []DestroyedIsDropped
<1>1. Inv => DestroyedIsDropped
  BY DeadFacts DEF Inv, DestroyedIsDropped
<1> QED BY <1>1, InvHolds, PTL

(***************************************************************************)
(* The containment tree stays a tree, in every run of the server and with  *)
(* ticks at any time: moveOurselves never moves an entity into itself,     *)
(* destroy leaves nothing in an entity that is gone, and restoreChildren   *)
(* rebuilds a tree whatever rows a crash left behind.                      *)
(***************************************************************************)
THEOREM WorldStaysTree == Spec => []WorldIsTree
<1>1. Inv => WorldIsTree
  <2> SUFFICES ASSUME Inv, server = "running", NEW e \in entities
               PROVE  Root \in Within(e) /\ Within(e) \subseteq entities
    BY DEF WorldIsTree
  <2>1. PICK live : live = entities
    OBVIOUS
  <2>2. /\ parent \in [Entities -> Places] /\ live \in SUBSET Entities
        /\ Tree(parent, live) /\ e \in live /\ e \in Entities
    BY <2>1, RunFacts DEF Inv, RunInv
  <2>3. PICK f : Ups(f, e) /\ Within(e) = f[MaxId]
    BY <2>2, WithinIs
  <2>4. Root \in f[MaxId] /\ f[MaxId] \subseteq live
    BY <2>2, <2>3, WithinTree
  <2> QED BY <2>1, <2>3, <2>4
<1> QED BY <1>1, InvHolds, PTL

-----------------------------------------------------------------------------
\* Rows whose container has no row.

LEMMA DanglingFromInv ==
    ASSUME RunInv, NEW e \in entities \ {Root}, e \notin missed,
           NEW c, c = db.rows[e], c # Absent, db.rows[c] = Absent,
           "ephem" \notin flags[c], e \notin Range(dirty), c \notin Range(unstored),
           \A x \in Range(pending) : /\ ~(x.id = e /\ x.op = "updateEntity")
                                     /\ ~(x.id = c /\ x.op = "insertEntity")
    PROVE  FALSE
<1>1. /\ db \in Tables /\ pending \in Seq(Commands) /\ pending \in Seq(Spared(flags))
      /\ Final = After(db, pending) /\ e \in Entities /\ "destroyed" \notin flags[e]
  BY RunFacts, LiveMarks DEF RunInv
<1>2. \A x \in Range(pending) : ~(x.id = e /\ x.op = "deleteEntity")
  <2>1. \A x \in Range(pending) : x \in Spared(flags)
    BY <1>1 DEF Range
  <2> QED BY <1>1, <2>1 DEF Spared
<1>3. Final.rows[e] = c
  <2>1. \A x \in Range(pending) : ~Touches(x, e, db.rows[e] # Absent)
    BY <1>2 DEF Touches
  <2> QED BY <1>1, <2>1, Untouched
<1>4. parent[e] = c
  BY <1>3, LiveMarks, LiveFacts
<1>5. c \in entities /\ c \in Entities
  BY <1>4 DEF RunInv, Tree, ClosedUnder
<1>6. Final.rows[c] = Absent
  <2>1. \A x \in Range(pending) : ~Touches(x, c, db.rows[c] # Absent)
    BY DEF Touches
  <2> QED BY <1>1, <1>5, <2>1, Untouched
<1> QED BY <1>5, <1>6, LiveMarks

(***************************************************************************)
(* A row whose container has no row is there only for a while, or for as   *)
(* long as the entity stays in a transient container: the row is about to  *)
(* be written again, or the container's to be inserted.                    *)
(***************************************************************************)
THEOREM DanglingIsTransient == Spec => []DanglingLocIsTransient
<1>1. Inv => DanglingLocIsTransient
  <2> SUFFICES ASSUME Inv, server # "crashed", NEW e \in (entities \ missed) \ {Root},
                      db.rows[e] # Absent, db.rows[db.rows[e]] = Absent,
                      "ephem" \notin flags[db.rows[e]], e \notin Range(dirty),
                      db.rows[e] \notin Range(unstored),
                      \A x \in Range(pending) :
                          /\ ~(x.id = e /\ x.op = "updateEntity")
                          /\ ~(x.id = db.rows[e] /\ x.op = "insertEntity")
               PROVE  FALSE
    BY DEF DanglingLocIsTransient
  <2>1. PICK c : c = db.rows[e]
    OBVIOUS
  <2> QED BY <2>1, DanglingFromInv DEF Inv
<1> QED BY <1>1, InvHolds, PTL

-----------------------------------------------------------------------------
\* Shutdown and restart.

\* The containers around e are among them with their own containers: the walk
\* of Within goes up far enough.
LEMMA WithinAll ==
    ASSUME parent \in [Entities -> Places], NEW e \in Entities,
           NEW x \in Within(e), parent[x] # Nowhere
    PROVE  parent[x] \in Within(e)
<1>1. PICK g : Ups(g, e) /\ Within(e) = g[MaxId]
  BY WithinIs
<1>2. /\ MaxId \in Nat /\ IsFiniteSet(Entities) /\ Cardinality(Entities) = MaxId + 1
      /\ \A T \in SUBSET Entities : IsFiniteSet(T) /\ Cardinality(T) \in Nat
  <2>1. MaxId \in Nat
    BY StorageManagerAssumption
  <2>2. IsFiniteSet(Ids) /\ Cardinality(Ids) = MaxId /\ Root \notin Ids
    BY <2>1, FS_Interval DEF Ids, Root
  <2>3. IsFiniteSet(Ids \cup {Root}) /\ Cardinality(Ids \cup {Root}) = MaxId + 1
    BY <2>2, FS_AddElement
  <2>4. Entities = Ids \cup {Root}
    BY DEF Entities
  <2>5. \A T \in SUBSET Entities : IsFiniteSet(T) /\ Cardinality(T) \in Nat
    BY <2>3, <2>4, FS_Subset, FS_CardinalityType
  <2> QED BY <2>1, <2>3, <2>4, <2>5
<1> DEFINE Whole(T) == \A y \in T : parent[y] # Nowhere => parent[y] \in T
           Fine(n) == g[n] \in SUBSET Entities /\ (Whole(g[n]) \/ Cardinality(g[n]) >= n + 1)
           Good == {n \in Nat : n \in 0 .. MaxId => Fine(n)}
<1>3. 0 \in Good
  <2>1. g[0] = {e} /\ Cardinality({e}) = 1
    BY <1>1, FS_Singleton DEF Ups
  <2> QED BY <2>1
<1>4. ASSUME NEW n \in Nat, n \in Good PROVE n + 1 \in Good
  <2> SUFFICES ASSUME n + 1 \in 0 .. MaxId PROVE Fine(n + 1)
    OBVIOUS
  <2>1. n \in 0 .. MaxId /\ n + 1 \in 1 .. MaxId /\ (n + 1) - 1 = n
    BY <1>2
  <2>2. PICK T, U : T = g[n] /\ U = g[n + 1]
    OBVIOUS
  <2>3. T \in SUBSET Entities /\ (Whole(T) \/ Cardinality(T) >= n + 1)
    <3> HIDE DEF Whole
    <3> QED BY <1>4, <2>1, <2>2
  <2>4. U = T \cup {parent[y] : y \in {z \in T : parent[z] # Nowhere}} /\ U \in SUBSET Entities
    BY <1>1, <2>1, <2>2 DEF Ups
  <2>5. CASE Whole(T)
    <3>1. U = T
      BY <2>4, <2>5
    <3> QED BY <2>2, <2>4, <2>5, <3>1
  <2>6. CASE ~Whole(T)
    <3>1. PICK z \in T : parent[z] # Nowhere /\ parent[z] \notin T
      BY <2>6
    <3>2. PICK y : y = parent[z]
      OBVIOUS
    <3>3. T \cup {y} \in SUBSET U /\ y \notin T
      BY <2>4, <3>1, <3>2
    <3>4. IsFiniteSet(T) /\ IsFiniteSet(U) /\ Cardinality(T) \in Nat /\ Cardinality(U) \in Nat
      BY <1>2, <2>3, <2>4
    <3>5. Cardinality(T \cup {y}) = Cardinality(T) + 1
      BY <3>3, <3>4, FS_AddElement
    <3>6. Cardinality(T \cup {y}) <= Cardinality(U)
      BY <3>3, <3>4, FS_Subset
    <3>7. Cardinality(U) >= n + 1 + 1
      <4> HIDE DEF Whole
      <4> QED BY <2>3, <2>6, <3>4, <3>5, <3>6
    <3> QED BY <2>2, <2>4, <3>7
  <2> QED BY <2>5, <2>6
<1>5. \A n \in Nat : n \in Good
  <2> HIDE DEF Good
  <2> QED BY <1>3, <1>4, NumberInduction
<1>6. Fine(MaxId)
  <2>1. MaxId \in 0 .. MaxId
    BY <1>2
  <2> QED BY <1>2, <1>5, <2>1
<1>7. CASE Whole(g[MaxId])
  BY <1>1, <1>7
<1>8. CASE Cardinality(g[MaxId]) >= MaxId + 1
  <2>1. PICK T : T = g[MaxId] /\ T \in SUBSET Entities
    BY <1>6
  <2>2. Cardinality(T) <= Cardinality(Entities) /\ Cardinality(T) \in Nat
    BY <1>2, <2>1, FS_Subset
  <2>3. Cardinality(T) = Cardinality(Entities)
    BY <1>2, <1>8, <2>1, <2>2
  <2>4. T = Entities
    BY <1>2, <2>1, <2>3, FS_Subset
  <2>5. parent[x] \in Entities
    BY <1>1, <2>1 DEF Places
  <2> QED BY <1>1, <2>1, <2>4, <2>5
<1> QED BY <1>6, <1>7, <1>8

\* What the last tick has dealt with stays dealt with: nothing dispatches
\* operations any more.
LastTick ==
    /\ server \in {"stopping", "stopped"} =>
        /\ tick \in {"unstored", "inserted", "dirty", "updated", "idle"} => gone = <<>>
        /\ tick \in {"dirty", "updated", "idle"} => unstored = <<>>
    /\ server = "stopped" => pending = <<>> /\ tick = "idle"

LEMMA LastTickStep ==
    ASSUME LastTick, [Next]_vars
    PROVE  LastTick'
<1>1. CASE WorldStep
  BY <1>1, WorldStepRuns DEF LastTick
<1>2. CASE StartTick
  BY <1>2 DEF StartTick, serverVars, LastTick
<1>3. CASE TickDestroyed
  BY <1>3 DEF TickDestroyed, serverVars, LastTick
<1>4. CASE TickUnstored
  BY <1>4 DEF TickUnstored, serverVars, LastTick
<1>5. CASE TickInserted
  BY <1>5 DEF TickInserted, serverVars, dbVars, LastTick
<1>6. CASE TickDirty
  BY <1>6 DEF TickDirty, queueVars, serverVars, LastTick
<1>7. CASE TickPop
  BY <1>7 DEF TickPop, dbVars, serverVars, LastTick
<1>8. CASE ApplyCommand
  BY <1>8 DEF ApplyCommand, queueVars, serverVars, LastTick
<1>9. CASE Shutdown
  BY <1>9 DEF Shutdown, LastTick
<1>10. CASE ShutdownComplete
  BY <1>10 DEF ShutdownComplete, QueriesComplete, queueVars, dbVars, LastTick
<1>11. CASE Crash \/ Restore
  BY <1>11 DEF Crash, Restore, LastTick
<1>12. CASE UNCHANGED vars
  BY <1>12 DEF vars, queueVars, dbVars, serverVars, LastTick
<1> QED BY <1>1, <1>2, <1>3, <1>4, <1>5, <1>6, <1>7, <1>8, <1>9, <1>10, <1>11, <1>12
        DEF Next, TickStep

\* The tables once shutdown() is through: right for everything that is Safe,
\* and without what was destroyed.
LEMMA StoppedTables ==
    ASSUME Inv, LastTick, server = "stopped"
    PROVE  /\ RunInv /\ Final = db
           /\ \A e \in entities : Safe(e) =>
                /\ db.rows[e] = parent[e]
                /\ \/ "updateQueued" \in flags[e]
                   \/ db.props[e] = prop[e]
                   \/ prop[e] = Unset /\ db.props[e] = Absent
           /\ \A e \in Ids \ missed : "destroyed" \in flags[e] => db.rows[e] = Absent
<1>1. pending = <<>> /\ gone = <<>> /\ Range(gone) = {} /\ RunInv
  BY EmptyRange DEF LastTick, Inv
<1>2. Final = db
  <2>1. db \in Tables /\ <<>> \in Seq(Commands) /\ Final = After(db, <<>>)
    BY <1>1 DEF Inv, Final, After
  <2> QED BY <2>1, AfterOne
<1>3. ASSUME NEW e \in entities, Safe(e)
      PROVE  /\ db.rows[e] = parent[e]
             /\ \/ "updateQueued" \in flags[e]
                \/ db.props[e] = prop[e]
                \/ prop[e] = Unset /\ db.props[e] = Absent
  BY <1>1, <1>2, <1>3, LiveMarks, LiveFacts DEF Safe
<1>4. \A e \in Ids \ missed : "destroyed" \in flags[e] => db.rows[e] = Absent
  BY <1>1, <1>2, DeadFacts
<1> QED BY <1>1, <1>2, <1>3, <1>4

\* Then restoreWorld() finds what is Safe with its containers.
LEMMA SafeIsReachable ==
    ASSUME Inv, LastTick, server = "stopped", NEW e \in entities,
           \A c \in Within(e) : Safe(c)
    PROVE  e \in Reachable /\ Safe(e)
<1>1. /\ RunInv /\ parent \in [Entities -> Places] /\ entities \in SUBSET Entities
      /\ Tree(parent, entities)
  BY StoppedTables, RunFacts DEF RunInv
<1>2. PICK live, f : live = entities /\ Ups(f, e) /\ Within(e) = f[MaxId]
  BY <1>1, WithinIs
<1>3. Within(e) \subseteq entities
  BY <1>1, <1>2, WithinTree
<1>4. e \in Within(e)
  <2> DEFINE Good == {n \in Nat : n \in 0 .. MaxId => e \in f[n]}
  <2>1. 0 \in Good
    BY <1>2 DEF Ups
  <2>2. ASSUME NEW n \in Nat, n \in Good PROVE n + 1 \in Good
    <3> SUFFICES ASSUME n + 1 \in 0 .. MaxId PROVE e \in f[n + 1]
      OBVIOUS
    <3>1. n \in 0 .. MaxId /\ n + 1 \in 1 .. MaxId /\ (n + 1) - 1 = n
      BY StorageManagerAssumption
    <3>2. f[n] \subseteq f[n + 1]
      BY <1>2, <3>1 DEF Ups
    <3> QED BY <2>2, <3>1, <3>2
  <2>3. \A n \in Nat : n \in Good
    <3> HIDE DEF Good
    <3> QED BY <2>1, <2>2, NumberInduction
  <2>4. MaxId \in Nat /\ MaxId \in 0 .. MaxId
    BY StorageManagerAssumption
  <2> QED BY <1>2, <2>3, <2>4
<1>5. PICK S : S = Within(e) \ Reachable
  OBVIOUS
<1>6. Root \in Reachable /\ S \in SUBSET entities
  BY <1>3, <1>5, RestoredTree DEF Inv, Tree
<1>7. ClosedUnder(parent, S)
  <2> SUFFICES ASSUME NEW x \in S \ {Root} PROVE parent[x] \in S
    BY DEF ClosedUnder
  <2>1. x \in Within(e) /\ x \in entities /\ x \in Ids /\ x \notin Reachable /\ Safe(x)
    BY <1>1, <1>5, <1>6 DEF Entities
  <2>2. parent[x] \in entities /\ parent[x] # Nowhere
    BY <1>1, <2>1, NoEntities DEF Tree, ClosedUnder
  <2>3. parent[x] \in Within(e)
    BY <1>1, <2>1, <2>2, WithinAll
  <2>4. db.rows[x] = parent[x]
    BY <2>1, StoppedTables
  <2>5. parent[x] \notin Reachable
    BY <2>1, <2>4, ReachableAll
  <2> QED BY <1>5, <2>3, <2>5
<1>8. S = {}
  BY <1>1, <1>5, <1>6, <1>7 DEF Tree
<1> QED BY <1>4, <1>5, <1>8

LEMMA RestartStep ==
    ASSUME Inv, LastTick, [Next]_vars, server = "stopped", server' = "running"
    PROVE  SafeIsBack
<1>1. Restore
  <2>1. ~WorldStep /\ ~TickStep
    BY WorldStepRuns, TickStepRuns
  <2>2. ~ApplyCommand /\ ~Shutdown /\ ~ShutdownComplete /\ ~Crash /\ ~UNCHANGED vars
    BY DEF ApplyCommand, Shutdown, ShutdownComplete, Crash, vars, serverVars
  <2> QED BY <2>1, <2>2 DEF Next
<1>2. /\ entities' = Reachable
      /\ parent' = [e \in Entities |-> IF e \in Reachable THEN db.rows[e] ELSE Nowhere]
      /\ prop' = [e \in Entities |-> IF e \in Reachable THEN db.props[e] ELSE Absent]
  BY <1>1 DEF Restore
<1>3. Reachable \in SUBSET Entities /\ Tree(db.rows, Reachable)
  BY RestoredTree DEF Inv
<1>4. ASSUME NEW e \in entities, \A c \in Within(e) : Safe(c)
      PROVE  /\ e \in entities' /\ parent'[e] = parent[e]
             /\ \/ "updateQueued" \in flags[e]
                \/ prop'[e] = prop[e]
                \/ prop[e] = Unset /\ prop'[e] = Absent
  <2>1. e \in Reachable /\ Safe(e) /\ e \in Entities
    BY <1>3, <1>4, SafeIsReachable
  <2>2. parent'[e] = db.rows[e] /\ prop'[e] = db.props[e]
    BY <1>2, <2>1
  <2> QED BY <1>2, <2>1, <2>2, StoppedTables
<1>5. ASSUME NEW e \in entities', e \notin missed PROVE "destroyed" \notin flags[e]
  <2>1. CASE e = Root
    BY <2>1, StoppedTables, LiveMarks, RunFacts
  <2>2. CASE e # Root
    <3>1. e \in Ids /\ db.rows[e] \in Reachable
      BY <1>2, <1>3, <2>2 DEF Entities, Tree, ClosedUnder
    <3>2. db.rows[e] # Absent
      BY <1>3, <3>1, NoEntities
    <3> QED BY <1>5, <3>1, <3>2, StoppedTables
  <2> QED BY <2>1, <2>2
<1> QED BY <1>4, <1>5 DEF SafeIsBack

(***************************************************************************)
(* A shutdown and restart bring back the world.  An entity that shutdown() *)
(* could deal with, and its containers, are rebuilt by restoreWorld() each *)
(* in its place and with its property, but for properties whose Update op  *)
(* was still queued, and nothing comes back that was destroyed: in every   *)
(* run of the server, for any limit of pending queries.                    *)
(***************************************************************************)
THEOREM RestartKeeps == Spec => RestartKeepsWorld
<1>1. Init => LastTick
  BY DEF Init, LastTick
<1>2. LastTick /\ [Next]_vars => LastTick'
  BY LastTickStep
<1>3. Inv /\ LastTick /\ [Next]_vars
        => [(server = "stopped" /\ server' = "running") => SafeIsBack]_vars
  BY RestartStep
<1> QED BY <1>1, <1>2, <1>3, InvHolds, PTL DEF Spec, RestartKeepsWorld

=============================================================================
