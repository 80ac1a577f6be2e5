---------------------------- MODULE HotPoolProofs ----------------------------
(***************************************************************************)
(* Safety of a project's pool, for any number of standbys, starts and      *)
(* restarts, and any finite set of targets: no executor is forgotten, and  *)
(* no standby is made beyond the largest target.                           *)
(*                                                                         *)
(* Both rest on one inductive invariant, PoolInv: what each agent has and  *)
(* does with it, which rows name their executor, when a row goes, and that *)
(* the pass counted every standby it has not yet to judge, make or drain.  *)
(***************************************************************************)
EXTENDS HotPool, FiniteSetTheorems, WellFoundedInduction, TLAPS

-----------------------------------------------------------------------------
(* Largest and smallest members, and counts of standbys.                   *)

(* A finite set of numbers has a largest and a smallest.                   *)
LEMMA MaxIs ==
  ASSUME NEW S \in SUBSET Int, IsFiniteSet(S), S # {}
  PROVE  Max(S) \in S /\ \A d \in S : d <= Max(S)
<1> DEFINE Above(m) == {d \in S : d > m}
           Counts == {Cardinality(Above(m)) : m \in S}
<1>1. \A m \in S : IsFiniteSet(Above(m)) /\ Cardinality(Above(m)) \in Nat
  BY FS_Subset, FS_CardinalityType
<1>2. Counts \subseteq Nat /\ Counts # {}
  BY <1>1
<1>3. PICK n \in Counts : \A k \in Counts : ~(<<k, n>> \in OpToRel(<, Nat))
  <2> HIDE DEF Counts
  <2>1. QED
    BY <1>2, NatLessThanWellFounded, WFMin
<1>4. PICK m \in S : n = Cardinality(Above(m))
  BY <1>3
<1>5. ASSUME NEW d \in S, d > m PROVE FALSE
  <2>1. Above(d) \in SUBSET Above(m) /\ Above(d) # Above(m)
    <3>1. \A y \in S : y > d => y > m
      BY <1>5
    <3>2. d \in Above(m) /\ d \notin Above(d)
      BY <1>5
    <3>3. QED
      BY <3>1, <3>2
  <2>2. Cardinality(Above(d)) < Cardinality(Above(m))
    <3> HIDE DEF Above
    <3>1. QED
      BY <2>1, <1>1, FS_Subset
  <2>3. <<Cardinality(Above(d)), n>> \in OpToRel(<, Nat)
    <3> HIDE DEF Above
    <3>1. QED
      BY <2>2, <1>1, <1>4 DEF OpToRel
  <2>4. QED
    BY <1>3, <2>3
<1>6. \A y \in S : m >= y
  BY <1>5
<1>7. Max(S) \in S /\ \A y \in S : Max(S) >= y
  BY <1>6 DEF Max
<1>8. QED
  BY <1>7

(* ... and a smallest.                                                     *)
LEMMA MinIs ==
  ASSUME NEW S \in SUBSET Int, IsFiniteSet(S), S # {}
  PROVE  Min(S) \in S /\ \A d \in S : Min(S) <= d
<1> DEFINE T == {-d : d \in S}
<1>1. IsFiniteSet(T)
  <2> DEFINE f == [d \in S |-> -d]
  <2>1. T = {f[d] : d \in S}
    OBVIOUS
  <2>2. f \in Surjection(S, T)
    BY <2>1 DEF Surjection
  <2>3. QED
    BY <2>2, FS_Surjection
<1>2. T \in SUBSET Int /\ T # {}
  <2>1. \A d \in S : -d \in Int
    OBVIOUS
  <2>2. QED
    BY <2>1
<1>3. Max(T) \in T /\ \A d \in T : d <= Max(T)
  BY <1>1, <1>2, MaxIs
<1>4. PICK m \in S : Max(T) = -m
  BY <1>3
<1>5. \A y \in S : m =< y
  <2>1. ASSUME NEW y \in S PROVE m =< y
    <3>1. -y \in T
      OBVIOUS
    <3>2. -y <= -m
      BY <3>1, <1>3, <1>4
    <3>3. QED
      BY <3>2
  <2>2. QED
    BY <2>1
<1>6. QED
  BY <1>5 DEF Min

(* What is smaller is fewer.                                               *)
LEMMA Fewer ==
  ASSUME PoolAssumption, NEW S, NEW T \in SUBSET Standby, S \subseteq T
  PROVE  /\ IsFiniteSet(S) /\ Cardinality(S) \in Nat
         /\ Cardinality(S) <= Cardinality(T)
<1>1. IsFiniteSet(1..Standbys)
  BY FS_Interval DEF PoolAssumption
<1>2. IsFiniteSet(T)
  BY <1>1, FS_Subset DEF Standby
<1>3. QED
  BY <1>2, FS_Subset, FS_CardinalityType

(* The first n of some standbys are n at most.                             *)
LEMMA FirstAre ==
  ASSUME PoolAssumption, NEW S \in SUBSET Standby, NEW n \in Nat
  PROVE  First(S, n) \subseteq S /\ Cardinality(First(S, n)) <= n
<1> DEFINE Below(e) == {d \in S : d < e}
           F == First(S, n)
<1>1. F = {e \in S : Cardinality(Below(e)) < n}
  BY DEF First
<1>2. CASE F = {}
  BY <1>2, FS_EmptySet
<1>3. CASE F # {}
  <2>1. F \in SUBSET Int /\ IsFiniteSet(F)
    <3>1. F \subseteq S /\ S \subseteq Int
      BY <1>1 DEF Standby
    <3>2. QED
      BY <3>1, Fewer
  <2>2. Max(F) \in F /\ \A d \in F : d <= Max(F)
    BY <1>3, <2>1, MaxIs
  <2>3. F \subseteq Below(Max(F)) \cup {Max(F)}
    <3>1. \A d \in F : d \in S /\ d \in Int
      <4> HIDE DEF F, Below
      <4>1. QED
        BY <1>1 DEF Standby
    <3>2. \A d \in F : d < Max(F) \/ d = Max(F)
      <4> HIDE DEF F
      <4>1. QED
        BY <2>2, <3>1
    <3>3. QED
      BY <3>1, <3>2
  <2>4. Cardinality(Below(Max(F))) < n
    BY <1>1, <2>2
  <2>5. IsFiniteSet(Below(Max(F))) /\ Cardinality(Below(Max(F))) \in Nat
    BY Fewer
  <2>6. Cardinality(Below(Max(F)) \cup {Max(F)}) <= n
    <3> HIDE DEF Below, F
    <3>1. QED
      BY <2>4, <2>5, FS_AddElement
  <2>7. Below(Max(F)) \cup {Max(F)} \in SUBSET Standby
    BY <1>1, <2>2
  <2>8. Cardinality(F) <= Cardinality(Below(Max(F)) \cup {Max(F)})
    <3> HIDE DEF Below, F
    <3>1. QED
      BY <2>3, <2>7, Fewer
  <2>9. Cardinality(F) \in Nat /\ Cardinality(Below(Max(F)) \cup {Max(F)}) \in Nat
    <3> HIDE DEF Below, F
    <3>1. QED
      BY <2>3, <2>7, Fewer
  <2>10. QED
    BY <1>1, <2>6, <2>8, <2>9
<1>4. QED
  BY <1>1, <1>2, <1>3

-----------------------------------------------------------------------------
(* The invariant.                                                          *)

(* What an agent does with a standby, and what it drains one in.           *)
Draining == {"stop", "confirm", "forget"}
Launching == {"lease", "session", "launch", "adopt", "accept", "consume"}
Busy == Draining \cup Launching \cup {"create", "stamp"}

(* How far each agent can be; it has a standby when it is busy with one.   *)
Places(x) ==
  Draining \cup (CASE x = "pass" -> {"idle", "list", "turn", "create", "stamp"}
                   [] x = "sweep" -> {"idle", "turn"}
                   [] OTHER -> Launching \cup {"idle", "over"})

StageInv ==
  \A x \in Agent :
    /\ poolStage[x] \in Places(x)
    /\ at[x] # Nobody <=> poolStage[x] \in Busy

(* The rows that name their executor: what is ready, claimed, swept, owned *)
(* or asked to stop is never the one the pass makes.                       *)
NamedInv ==
  /\ \A e \in Standby : row[e] \in {"ready", "claimed"} => e \in named
  /\ todo["sweep"] \cup owned \subseteq named
  /\ \A x \in Agent \ {"pass"} : at[x] # Nobody => at[x] \in named
  /\ \A e \in Standby : exec[e] = "stopping" => e \in named
  /\ poolStage["pass"] \in {"create", "stamp"} => row[at["pass"]] = "warming"

(* A row goes when its executor ended, or its session's row has it.        *)
GoesInv ==
  \A x \in Agent :
    /\ poolStage[x] = "forget" => exec[at[x]] \notin {"runs", "stopping"}
    /\ poolStage[x] = "consume" => at[x] \in owned

(* The standbys there are, and those the pass has yet to judge or drain.   *)
There == {e \in Standby : row[e] \in {"ready", "warming"}}
Unjudged == todo["pass"] \cup kept \cup {at["pass"]}

Underway == poolStage["pass"] \notin {"idle", "list"}

(* The pass counts all others, and does not count beyond what it read.     *)
CountInv ==
  /\ Cardinality(There) <= Max(Targets)
  /\ ~Underway => kept = {} /\ goal = 0 /\ count = 0
  /\ Underway => Cardinality(There \ Unjudged) <= count /\ count + Cardinality(kept) <= goal
  /\ poolStage["pass"] \in {"create", "stamp"} =>
       todo["pass"] = {} /\ kept = {} /\ count < goal

PoolInv == TypeOK /\ StageInv /\ NamedInv /\ GoesInv /\ Remembered /\ CountInv

-----------------------------------------------------------------------------
(* What keeps it.                                                          *)

(* The largest target is one, and bounds them all.                         *)
LEMMA Largest ==
  ASSUME PoolAssumption
  PROVE  /\ Max(Targets) \in Nat /\ \A n \in Targets : n <= Max(Targets)
         /\ Max(Targets \cup {0}) = Max(Targets)
<1> DEFINE Goals == Targets \cup {0}
<1>1. Targets \subseteq Nat /\ IsFiniteSet(Targets) /\ Targets # {}
  BY DEF PoolAssumption
<1>2. Goals \subseteq Nat /\ IsFiniteSet(Goals) /\ Goals # {}
  BY <1>1, FS_AddElement
<1>3. Max(Targets) \in Targets /\ \A n \in Targets : n <= Max(Targets)
  BY <1>1, MaxIs
<1>4. Targets \subseteq Goals /\ \A n \in Goals : n = 0 \/ n \in Targets
  OBVIOUS
<1> HIDE DEF Goals
<1>5. Max(Goals) \in Goals /\ \A n \in Goals : n <= Max(Goals)
  BY <1>2, MaxIs
<1>6. Max(Targets) \in Nat /\ Max(Goals) \in Nat
  BY <1>1, <1>2, <1>3, <1>5
<1>7. Max(Goals) <= Max(Targets) /\ Max(Targets) <= Max(Goals)
  BY <1>3, <1>4, <1>5, <1>6
<1>8. QED
  BY <1>3, <1>6, <1>7 DEF Goals

(* The first of some standbys is one of them.                              *)
LEMMA MinStandby ==
  ASSUME PoolAssumption, NEW S \in SUBSET Standby, S # {}
  PROVE  Min(S) \in S
<1>1. S \in SUBSET Int
  BY DEF Standby
<1>2. QED
  BY <1>1, Fewer, MinIs

(* While no standby is made and none is done with, the counts stand.       *)
LEMMA NoneMade ==
  ASSUME PoolAssumption, TypeOK, CountInv, There' \subseteq There,
         UNCHANGED <<count, kept, goal>>,
         Underway' <=> Underway,
         Underway => (There \ Unjudged)' \subseteq There \ Unjudged,
         poolStage["pass"]' \in {"create", "stamp"} =>
           poolStage["pass"] \in {"create", "stamp"} /\ UNCHANGED todo["pass"]
  PROVE  CountInv'
<1>1. Cardinality(There') \in Nat /\ Cardinality(There') <= Cardinality(There)
  BY Fewer DEF There
<1>2. Cardinality(There) \in Nat
  BY Fewer DEF There
<1>3. Cardinality(There') <= Max(Targets)
  BY <1>1, <1>2, Largest DEF CountInv
<1>4. Underway => Cardinality((There \ Unjudged)') <= Cardinality(There \ Unjudged)
  <2>1. There \ Unjudged \in SUBSET Standby
    BY DEF There
  <2>2. QED
    BY <2>1, Fewer
<1>5. There \ Unjudged \in SUBSET Standby /\ (Underway => (There \ Unjudged)' \in SUBSET Standby)
  BY DEF There
<1>6. /\ Cardinality(There \ Unjudged) \in Nat
      /\ Underway => Cardinality((There \ Unjudged)') \in Nat
  BY <1>5, Fewer
<1>7. Underway => Cardinality((There \ Unjudged)') <= count
  BY <1>4, <1>6 DEF CountInv, TypeOK
<1>8. QED
  BY <1>3, <1>7 DEF CountInv

(* The pass and the sweep are agents, and no starts.                       *)
LEMMA Agents ==
  ASSUME PoolAssumption
  PROVE  /\ "pass" \in Agent /\ "sweep" \in Agent /\ Starter \subseteq Agent
         /\ "pass" \notin Starter /\ "sweep" \notin Starter
  BY DEF PoolAssumption, Agent

(* An agent x goes on at s; only the pass may be asked for besides.        *)
Turns(x, s) ==
  /\ poolStage' \in [Agent -> Busy \cup {"idle", "list", "turn", "over"}]
  /\ poolStage'[x] = s
  /\ \A y \in Agent \ {x} :
       \/ poolStage'[y] = poolStage[y]
       \/ y = "pass" /\ poolStage[y] = "idle" /\ poolStage'[y] = "list"

(* Who goes on takes a turn.                                               *)
LEMMA GoesTurns ==
  ASSUME TypeOK, NEW x \in Agent, NEW s \in Busy \cup {"idle", "list", "turn", "over"}, Goes(x, s)
  PROVE  Turns(x, s)
  BY DEF TypeOK, Goes, Turns, Busy, Draining, Launching

(* Asking for a pass on the way is a turn too.                             *)
LEMMA RequestTurns ==
  ASSUME PoolAssumption, TypeOK, NEW x \in Agent \ {"pass"},
         NEW s \in Busy \cup {"idle", "turn", "over"}, RequestAndGo(x, s)
  PROVE  Turns(x, s) /\ again' \in BOOLEAN
<1>1. CASE poolStage["pass"] = "idle"
  <2>1. poolStage' = [poolStage EXCEPT ![x] = s, !["pass"] = "list"] /\ UNCHANGED again
    BY <1>1 DEF RequestAndGo
  <2>2. QED
    BY <1>1, <2>1, Agents DEF TypeOK, Turns, Busy, Draining, Launching
<1>2. CASE poolStage["pass"] # "idle"
  BY <1>2, GoesTurns DEF RequestAndGo
<1>3. QED
  BY <1>1, <1>2

(* An agent that turns and keeps or drops its standby leaves all where they can be.*)
LEMMA Moved ==
  ASSUME TypeOK, StageInv, NEW x \in Agent, NEW s \in Places(x), Turns(x, s),
         \A y \in Agent \ {x} : at'[y] = at[y],
         at'[x] # Nobody <=> s \in Busy
  PROVE  StageInv'
<1>1. ASSUME NEW y \in Agent \ {x} PROVE /\ poolStage'[y] \in Places(y)
                                         /\ at'[y] # Nobody <=> poolStage'[y] \in Busy
  <2>1. CASE poolStage'[y] = poolStage[y]
    BY <2>1 DEF StageInv
  <2>2. CASE y = "pass" /\ poolStage[y] = "idle" /\ poolStage'[y] = "list"
    BY <2>2 DEF StageInv, Places, Busy, Draining, Launching
  <2>3. QED
    BY <2>1, <2>2 DEF Turns
<1>2. QED
  BY <1>1 DEF StageInv, Turns

(* A drain that ends leaves its agent without a standby, to go on.         *)
LEMMA DrainedTurns ==
  ASSUME PoolAssumption, TypeOK, NEW x \in Agent, Drained(x)
  PROVE  /\ at' = [at EXCEPT ![x] = Nobody] /\ again' \in BOOLEAN
         /\ \E s \in {"turn", "over"} : Turns(x, s) /\ s \in Places(x)
<1>1. CASE x \notin Starter
  <2>1. Goes(x, "turn") /\ UNCHANGED again /\ x \in {"pass", "sweep"}
    BY <1>1 DEF Drained, Agent
  <2>2. Turns(x, "turn") /\ "turn" \in Places(x)
    BY <2>1, GoesTurns DEF Places
  <2>3. QED
    BY <2>1, <2>2 DEF Drained, TypeOK
<1>2. CASE x \in Starter
  <2>1. "over" \in Places(x) /\ x # "pass"
    BY <1>2, Agents DEF Places
  <2>2. RequestAndGo(x, "over") \/ (Goes(x, "over") /\ UNCHANGED again)
    BY <1>2 DEF Drained
  <2>3. Turns(x, "over") /\ again' \in BOOLEAN
    BY <2>1, <2>2, GoesTurns, RequestTurns DEF TypeOK
  <2>4. QED
    BY <2>1, <2>3 DEF Drained
<1>3. QED
  BY <1>1, <1>2

(* Who drains a standby has it; all but the pass have one that is named.   *)
LEMMA Has ==
  ASSUME TypeOK, StageInv, NamedInv, NEW x \in Agent, poolStage[x] \in Busy
  PROVE  at[x] \in Standby /\ (x # "pass" => at[x] \in named)
  BY DEF TypeOK, StageInv, NamedInv

(* A standby's row is left, marked failed or taken away, and no other is   *)
(* touched: what its executor's name is on stays as it was.                *)
Lessens(e) ==
  /\ \E status \in {row[e], "failed", "gone"} : row' = [row EXCEPT ![e] = status]
  /\ print' \in [Standby -> Prints \cup {Nobody}]
  /\ UNCHANGED named

(* Marking a row failed lessens it ...                                     *)
LEMMA MarkLessens ==
  ASSUME TypeOK, NEW e \in Standby, Mark(e, "failed"), UNCHANGED <<print, named>>
  PROVE  Lessens(e)
  BY DEF TypeOK, Mark, Lessens

(* ... and so does deleting it.                                            *)
LEMMA DeleteLessens ==
  ASSUME TypeOK, NEW e \in Standby, Delete(e), UNCHANGED named
  PROVE  Lessens(e)
  BY DEF TypeOK, Delete, Lessens

(* What a row that was lessened, and every other, reads.                   *)
LEMMA Lessened ==
  ASSUME TypeOK, NEW e \in Standby, Lessens(e)
  PROVE  /\ row' \in [Standby -> {"none", "warming", "ready", "claimed", "failed", "gone"}]
         /\ print' \in [Standby -> Prints \cup {Nobody}]
         /\ named' \subseteq {d \in Standby : row'[d] \notin {"none", "warming"}}
         /\ \A d \in Standby : row'[d] \in {"ready", "claimed", "warming"} => row[d] = row'[d]
         /\ \A d \in Standby \ {e} : row'[d] = row[d]
         /\ row'[e] \in {row[e], "failed", "gone"}
         /\ named' = named
         /\ There' \subseteq There
  BY DEF TypeOK, Lessens, There

(* A step of an agent busy with a standby, but the pass that makes it: it  *)
(* goes on with the standby or lets it go.  A row or a token goes when the *)
(* executor ended; a row, too, when the session's own has the executor.    *)
Running(e) == exec[e] \in {"runs", "stopping"}
RunsNoMore(e) == exec'[e] \notin {"runs", "stopping"}

StepOf(x, s) ==
  /\ poolStage[x] \in Draining \cup Launching
  /\ s \in Places(x) \cap (Draining \cup Launching \cup {"turn", "over"})
  /\ Turns(x, s)
  /\ at' = [at EXCEPT ![x] = IF s \in Busy THEN @ ELSE Nobody]
  /\ Lessens(at[x])
  /\ token' \in {token, token \ {at[x]}}
  /\ exec' \in [Standby -> {"none", "runs", "stopping", "astray", "ended"}]
  /\ \A e \in Standby : Running(e)' => Running(e)
  /\ \A e \in Standby : exec'[e] = "stopping" => e \in named
  /\ session' \in [Standby -> {"none", "live", "settled"}]
  /\ \/ owned' = owned
     \/ owned' = owned \cup {at[x]} /\ x \in Starter
  /\ again' \in BOOLEAN
  /\ UNCHANGED <<kept, goal, wanted, count, todo, restarts>>
  /\ at[x] \in token => at[x] \in token' \/ RunsNoMore(at[x])
  /\ row'[at[x]] = "gone" => row[at[x]] = "gone" \/ at[x] \in owned' \/ RunsNoMore(at[x])
  /\ s \notin Busy /\ x = "pass" => row'[at[x]] \notin {"ready", "warming"}
  /\ s = "forget" => RunsNoMore(at[x])
  /\ s = "consume" => at[x] \in owned'

(* Such a step keeps the invariant, whichever agent takes it.              *)
LEMMA StepKeeps ==
  ASSUME PoolAssumption, PoolInv, NEW x \in Agent, NEW s, StepOf(x, s)
  PROVE  PoolInv'
<1> USE PoolAssumption DEF PoolInv
<1>1. /\ at[x] \in Standby /\ (x # "pass" => at[x] \in named)
      /\ poolStage[x] \in Busy /\ poolStage[x] \notin {"idle", "list", "create", "stamp"}
      /\ "pass" \in Agent /\ "pass" \notin Starter
  BY Has, Agents DEF StepOf, Busy, Draining, Launching
<1>2. /\ row' \in [Standby -> {"none", "warming", "ready", "claimed", "failed", "gone"}]
      /\ print' \in [Standby -> Prints \cup {Nobody}]
      /\ named' \subseteq {d \in Standby : row'[d] \notin {"none", "warming"}}
      /\ \A d \in Standby : row'[d] \in {"ready", "claimed", "warming"} => row[d] = row'[d]
      /\ \A d \in Standby \ {at[x]} : row'[d] = row[d]
      /\ row'[at[x]] \in {row[at[x]], "failed", "gone"}
      /\ named' = named
      /\ There' \subseteq There
  BY <1>1, Lessened DEF StepOf
<1>3. /\ poolStage'[x] = s /\ s \notin {"idle", "list", "create", "stamp"}
      /\ \A y \in Agent \ {x} :
           at'[y] = at[y] /\ (poolStage'[y] \in Busy => poolStage'[y] = poolStage[y])
      /\ at'[x] = IF s \in Busy THEN at[x] ELSE Nobody
      /\ at' \in [Agent -> Standby \cup {Nobody}]
  BY <1>1 DEF StepOf, Turns, TypeOK, Busy, Draining, Launching
<1>4. TypeOK'
  BY <1>1, <1>2, <1>3 DEF TypeOK, StepOf, Turns, Busy, Draining, Launching
<1>5. StageInv'
  <2>1. at'[x] # Nobody <=> s \in Busy
    BY <1>1, <1>3 DEF PoolAssumption
  <2>2. QED
    BY <1>3, <2>1, Moved DEF StepOf
<1>6. NamedInv'
  <2>1. \A e \in Standby : row'[e] \in {"ready", "claimed"} => e \in named'
    BY <1>2 DEF NamedInv
  <2>2. (todo["sweep"] \cup owned \subseteq named)'
    BY <1>1, <1>2 DEF StepOf, NamedInv
  <2>3. (\A y \in Agent \ {"pass"} : at[y] # Nobody => at[y] \in named)'
    BY <1>1, <1>2, <1>3 DEF NamedInv
  <2>4. (\A e \in Standby : exec[e] = "stopping" => e \in named)'
    BY <1>2 DEF StepOf
  <2>5. (poolStage["pass"] \in {"create", "stamp"} => row[at["pass"]] = "warming")'
    <3>1. HAVE poolStage["pass"]' \in {"create", "stamp"}
    <3>2. x # "pass" /\ poolStage["pass"] \in {"create", "stamp"} /\ at'["pass"] = at["pass"]
      BY <1>1, <1>3, <3>1 DEF Busy
    <3>3. at["pass"] \in Standby /\ row[at["pass"]] = "warming"
      BY <1>1, <3>2, Has DEF NamedInv, Busy
    <3>4. at["pass"] # at[x]
      BY <1>1, <3>2, <3>3 DEF TypeOK
    <3>5. QED
      BY <1>2, <3>2, <3>3, <3>4
  <2>6. QED
    BY <2>1, <2>2, <2>3, <2>4, <2>5 DEF NamedInv
<1>7. GoesInv'
  <2>1. ASSUME NEW y \in Agent \ {x}
        PROVE  /\ poolStage'[y] = "forget" => ~Running(at[y])'
               /\ poolStage'[y] = "consume" => at'[y] \in owned'
    <3>1. at'[y] = at[y] /\ (poolStage'[y] \in {"forget", "consume"} => poolStage'[y] = poolStage[y])
      BY <1>3 DEF Busy, Draining, Launching
    <3>2. poolStage[y] = "forget" => at[y] \in Standby /\ ~Running(at[y])
      BY Has DEF GoesInv, Running, Busy, Draining
    <3>3. poolStage[y] = "consume" => at[y] \in owned
      BY DEF GoesInv
    <3>4. QED
      BY <3>1, <3>2, <3>3 DEF StepOf, Running
  <2>2. poolStage'[x] \in {"forget", "consume"} => at'[x] = at[x]
    BY <1>3 DEF Busy, Draining, Launching
  <2>3. QED
    BY <1>3, <2>1, <2>2 DEF StepOf, GoesInv, Running, RunsNoMore
<1>8. Remembered'
  <2>1. SUFFICES ASSUME NEW e \in Standby, Running(e)'
                 PROVE  /\ e \in token'
                        /\ \/ e \in owned'
                           \/ e \in named' /\ row'[e] \in {"ready", "claimed", "failed"}
                           \/ poolStage'["pass"] = "stamp" /\ at'["pass"] = e
    BY DEF Remembered, Running
  <2>2. Running(e)
    BY <2>1 DEF StepOf
  <2>3. e \in token'
    <3>1. e \in token
      BY <2>2 DEF Remembered, Running
    <3>2. CASE e = at[x]
      BY <2>1, <3>1, <3>2 DEF StepOf, Running, RunsNoMore
    <3>3. CASE e # at[x]
      BY <3>1, <3>3 DEF StepOf
    <3>4. QED
      BY <3>2, <3>3
  <2>4. CASE e \in owned
    BY <2>3, <2>4 DEF StepOf
  <2>5. CASE e \in named /\ row[e] \in {"ready", "claimed", "failed"}
    <3>1. CASE e # at[x]
      BY <1>2, <2>3, <2>5, <3>1
    <3>2. CASE e = at[x]
      <4>1. row'[e] \in {"ready", "claimed", "failed", "gone"}
        BY <1>2, <2>5, <3>2
      <4>2. row'[e] = "gone" => e \in owned'
        BY <2>1, <2>5, <3>2 DEF StepOf, Running, RunsNoMore
      <4>3. QED
        BY <1>2, <2>3, <2>5, <4>1, <4>2
    <3>3. QED
      BY <3>1, <3>2
  <2>6. CASE poolStage["pass"] = "stamp" /\ at["pass"] = e
    <3>1. x # "pass"
      BY <1>1, <2>6
    <3>2. poolStage'["pass"] = "stamp" /\ at'["pass"] = e
      BY <1>1, <1>3, <2>6, <3>1 DEF StepOf, Turns
    <3>3. QED
      BY <2>3, <3>2
  <2>7. QED
    BY <2>2, <2>4, <2>5, <2>6 DEF Remembered, Running
<1>9. CountInv'
  <2>1. Underway' <=> Underway
    BY <1>1, <1>3 DEF StepOf, Turns, Underway
  <2>2. Underway => (There \ Unjudged)' \subseteq There \ Unjudged
    <3>1. CASE x = "pass"
      <4>1. CASE s \in Busy
        BY <1>2, <1>3, <3>1, <4>1 DEF StepOf, Unjudged
      <4>2. CASE s \notin Busy
        <5>1. at[x] \notin There'
          BY <3>1, <4>2 DEF StepOf, There
        <5>2. Unjudged \subseteq Unjudged' \cup {at[x]}
          BY <3>1 DEF StepOf, Unjudged
        <5>3. QED
          BY <1>2, <5>1, <5>2
      <4>3. QED
        BY <1>2, <4>1, <4>2
    <3>2. CASE x # "pass"
      BY <1>1, <1>2, <1>3, <3>2 DEF StepOf, Unjudged
    <3>3. QED
      BY <3>1, <3>2
  <2>3. poolStage["pass"]' \in {"create", "stamp"} =>
           poolStage["pass"] \in {"create", "stamp"} /\ UNCHANGED todo["pass"]
    BY <1>1, <1>3 DEF StepOf, Busy
  <2>4. UNCHANGED <<count, kept, goal>>
    BY DEF StepOf
  <2>5. QED
    BY <1>2, <2>1, <2>2, <2>3, <2>4, NoneMade
<1>10. QED
  BY <1>4, <1>5, <1>6, <1>7, <1>8, <1>9

(* A row left as it is counts as lessened.                                 *)
LEMMA KeepLessens ==
  ASSUME TypeOK, NEW e \in Standby, UNCHANGED <<row, print, named>>
  PROVE  Lessens(e)
  BY DEF TypeOK, Lessens

(* A step of a drain, by whoever drains.                                   *)
LEMMA DrainSteps ==
  ASSUME PoolAssumption, PoolInv, NEW x \in Agent, Drain(x)
  PROVE  \E s : StepOf(x, s)
<1> USE PoolAssumption DEF PoolInv, rows, world, passing
<1>1. CASE poolStage[x] \in Draining
  <2>1. /\ at[x] \in Standby /\ (x # "pass" => at[x] \in named)
        /\ Draining \subseteq Places(x) /\ Draining \subseteq Busy
        /\ "turn" \notin Busy /\ "over" \notin Busy
    BY <1>1, Has DEF Places, Busy, Draining, Launching
  <2>2. CASE AskStop(x)
    <3>1. PICK s \in {"confirm", "forget"} : Goes(x, s) /\ (s = "forget" => at[x] \notin named)
      BY <2>2 DEF AskStop
    <3>2. Turns(x, s) /\ s \in Draining
      BY <2>1, <3>1, GoesTurns DEF Draining
    <3>3. at[x] \notin named => exec[at[x]] \notin {"runs", "stopping"}
      <4>1. CASE poolStage["pass"] = "stamp" /\ at["pass"] = at[x]
        <5>1. x # "pass"
          BY <1>1, <4>1 DEF Draining
        <5>2. QED
          BY <2>1, <5>1
      <4>2. QED
        BY <2>1, <4>1 DEF NamedInv, Remembered
    <3>4. at' = [at EXCEPT ![x] = IF s \in Busy THEN @ ELSE Nobody]
      BY <2>1, <2>2, <3>2 DEF AskStop, TypeOK
    <3>5. Lessens(at[x])
      BY <2>1, <2>2, KeepLessens DEF AskStop
    <3>6. /\ exec' \in [Standby -> {"none", "runs", "stopping", "astray", "ended"}]
          /\ \A e \in Standby : Running(e)' => Running(e)
          /\ \A e \in Standby : exec'[e] = "stopping" => e \in named
          /\ exec[at[x]] \notin {"runs", "stopping"} => exec' = exec
      BY <2>1, <2>2 DEF AskStop, TypeOK, NamedInv, Running
    <3>7. /\ row'[at[x]] = row[at[x]] /\ token' = token /\ session' = session
          /\ again' = again /\ owned' = owned
          /\ UNCHANGED <<kept, goal, wanted, count, todo, restarts>>
      BY <2>2 DEF AskStop
    <3>8. StepOf(x, s)
      BY <1>1, <2>1, <3>1, <3>2, <3>3, <3>4, <3>5, <3>6, <3>7
         DEF StepOf, RunsNoMore, TypeOK, Draining
    <3>9. QED
      BY <3>8
  <2>3. CASE Confirm(x) /\ Goes(x, "forget") /\ Ended(at[x]) /\ UNCHANGED <<row, at, again>>
    <3>1. Turns(x, "forget") /\ "forget" \in Draining
      BY <2>1, <2>3, GoesTurns DEF Draining
    <3>2. at' = [at EXCEPT ![x] = IF "forget" \in Busy THEN @ ELSE Nobody]
      BY <2>1, <2>3, <3>1 DEF TypeOK
    <3>3. Lessens(at[x])
      BY <2>1, <2>3, KeepLessens DEF Confirm
    <3>4. UNCHANGED <<exec, token, session, owned, kept, goal, wanted, count, todo, restarts>>
      BY <2>3 DEF Confirm
    <3>5. StepOf(x, "forget")
      BY <1>1, <2>1, <2>3, <3>1, <3>2, <3>3, <3>4
         DEF StepOf, RunsNoMore, Running, Ended, TypeOK, NamedInv, Draining
    <3>6. QED
      BY <3>5
  <2>4. CASE Confirm(x) /\ Mark(at[x], "failed") /\ Drained(x)
    <3>1. /\ at' = [at EXCEPT ![x] = Nobody] /\ again' \in BOOLEAN
          /\ \E s \in {"turn", "over"} : Turns(x, s) /\ s \in Places(x)
      BY <2>4, DrainedTurns
    <3>2. PICK s \in {"turn", "over"} : Turns(x, s) /\ s \in Places(x)
      BY <3>1
    <3>3. Lessens(at[x])
      BY <2>1, <2>4, MarkLessens DEF Confirm
    <3>4. row'[at[x]] = IF row[at[x]] = "gone" THEN "gone" ELSE "failed"
      BY <2>1, <2>4 DEF Mark, TypeOK
    <3>5. UNCHANGED <<exec, token, session, owned, kept, goal, wanted, count, todo, restarts>>
      BY <2>4 DEF Confirm
    <3>6. StepOf(x, s)
      BY <1>1, <2>1, <3>1, <3>2, <3>3, <3>4, <3>5
         DEF StepOf, Running, TypeOK, NamedInv
    <3>7. QED
      BY <3>6
  <2>5. CASE Forget(x)
    <3>1. /\ at' = [at EXCEPT ![x] = Nobody] /\ again' \in BOOLEAN
          /\ \E s \in {"turn", "over"} : Turns(x, s) /\ s \in Places(x)
      BY <2>5, DrainedTurns DEF Forget
    <3>2. PICK s \in {"turn", "over"} : Turns(x, s) /\ s \in Places(x)
      BY <3>1
    <3>3. Lessens(at[x])
      BY <2>1, <2>5, DeleteLessens DEF Forget
    <3>4. row'[at[x]] = "gone" /\ exec[at[x]] \notin {"runs", "stopping"}
      BY <2>1, <2>5 DEF Forget, Delete, TypeOK, GoesInv
    <3>5. /\ UNCHANGED <<exec, session, owned, kept, goal, wanted, count, todo, restarts>>
          /\ token' = token \ {at[x]}
      BY <2>5 DEF Forget
    <3>6. StepOf(x, s)
      BY <1>1, <2>1, <3>1, <3>2, <3>3, <3>4, <3>5
         DEF StepOf, RunsNoMore, Running, TypeOK, NamedInv
    <3>7. QED
      BY <3>6
  <2>6. QED
    BY <2>2, <2>3, <2>4, <2>5 DEF Drain, Confirm
<1>2. QED
  BY <1>1 DEF Drain, AskStop, Confirm, Forget, Draining

(* A step of a start that claimed a standby, up to its launch's end.       *)
LEMMA StartSteps ==
  ASSUME PoolAssumption, PoolInv, NEW x \in Starter,
         Lease(x) \/ CreateSession(x) \/ Launch(x) \/ Adopt(x) \/ Accept(x) \/ Consume(x)
  PROVE  \E s : StepOf(x, s)
<1> USE PoolAssumption DEF PoolInv, rows, world, passing
<1>1. /\ poolStage[x] \in Launching /\ x \in Agent \ {"pass"}
      /\ at[x] \in Standby /\ at[x] \in named
      /\ Places(x) = Draining \cup Launching \cup {"idle", "over"}
      /\ Launching \subseteq Busy /\ Draining \subseteq Busy /\ "over" \notin Busy
  <2>1. x \in Agent \ {"pass"} /\ x # "sweep"
    BY Agents
  <2>2. poolStage[x] \in Launching
    BY DEF Lease, CreateSession, Launch, Adopt, Accept, Consume, Launching
  <2>3. QED
    BY <2>1, <2>2, Has DEF Places, Busy, Launching, Draining
<1>2. CASE UNCHANGED <<rows, exec, token, owned, passing, todo, restarts>>
           /\ session' \in [Standby -> {"none", "live", "settled"}] /\ again' \in BOOLEAN
           /\ \E s \in {"session", "stop", "launch", "adopt", "accept", "over"} :
                Turns(x, s) /\ at' = [at EXCEPT ![x] = IF s \in Busy THEN @ ELSE Nobody]
  <2>1. PICK s \in {"session", "stop", "launch", "adopt", "accept", "over"} :
          Turns(x, s) /\ at' = [at EXCEPT ![x] = IF s \in Busy THEN @ ELSE Nobody]
    BY <1>2
  <2>2. Lessens(at[x])
    BY <1>1, <1>2, KeepLessens
  <2>3. s \in Places(x) /\ s \in Draining \cup Launching \cup {"turn", "over"}
    BY <1>1 DEF Draining, Launching
  <2>4. StepOf(x, s)
    BY <1>1, <1>2, <2>1, <2>2, <2>3 DEF StepOf, Running, NamedInv, TypeOK
  <2>5. QED
    BY <2>4
<1>3. CASE Lease(x)
  <2>1. Turns(x, "session") \/ Turns(x, "stop")
    BY <1>1, <1>3, GoesTurns, RequestTurns DEF Lease, Draining, Launching
  <2>2. again' \in BOOLEAN
    BY <1>1, <1>3, RequestTurns DEF Lease, TypeOK, Launching
  <2>3. at' = [at EXCEPT ![x] = at[x]]
    BY <1>3 DEF Lease, TypeOK
  <2>4. "session" \in Busy /\ "stop" \in Busy
    BY <1>1 DEF Draining, Launching
  <2>5. QED
    BY <1>2, <1>3, <2>1, <2>2, <2>3, <2>4 DEF Lease, TypeOK
<1>4. CASE CreateSession(x)
  <2>1. Turns(x, "launch") /\ "launch" \in Busy
    BY <1>1, <1>4, GoesTurns DEF CreateSession, Launching
  <2>2. at' = [at EXCEPT ![x] = at[x]] /\ session' \in [Standby -> {"none", "live", "settled"}]
    BY <1>1, <1>4 DEF CreateSession, TypeOK
  <2>3. QED
    BY <1>2, <1>4, <2>1, <2>2 DEF CreateSession, TypeOK
<1>5. CASE Launch(x)
  <2>1. CASE Goes(x, "adopt") /\ UNCHANGED at
    <3>1. Turns(x, "adopt") /\ "adopt" \in Busy
      BY <1>1, <2>1, GoesTurns DEF Launching
    <3>2. at' = [at EXCEPT ![x] = at[x]]
      BY <2>1 DEF TypeOK
    <3>3. QED
      BY <1>2, <1>5, <3>1, <3>2 DEF Launch, TypeOK
  <2>2. CASE Over(x)
    <3>1. Turns(x, "over")
      BY <1>1, <2>2, GoesTurns DEF Over
    <3>2. QED
      BY <1>1, <1>2, <1>5, <2>2, <3>1 DEF Launch, Over, TypeOK
  <2>3. QED
    BY <1>5, <2>1, <2>2 DEF Launch
<1>6. CASE Adopt(x)
  <2>1. CASE (Goes(x, "accept") \/ Goes(x, "stop")) /\ UNCHANGED <<session, at>>
    <3>1. Turns(x, "accept") \/ Turns(x, "stop")
      BY <1>1, <2>1, GoesTurns DEF Launching, Draining
    <3>2. "accept" \in Busy /\ "stop" \in Busy
      BY <1>1 DEF Launching, Draining
    <3>3. at' = [at EXCEPT ![x] = at[x]]
      BY <2>1 DEF TypeOK
    <3>4. QED
      BY <1>2, <1>6, <2>1, <3>1, <3>2, <3>3 DEF Adopt, TypeOK
  <2>2. CASE Over(x) /\ session' = [session EXCEPT ![at[x]] = "settled"]
    <3>1. Turns(x, "over")
      BY <1>1, <2>2, GoesTurns DEF Over
    <3>2. session' \in [Standby -> {"none", "live", "settled"}]
      BY <1>1, <2>2 DEF TypeOK
    <3>3. QED
      BY <1>1, <1>2, <1>6, <2>2, <3>1, <3>2 DEF Adopt, Over, TypeOK
  <2>3. QED
    BY <1>6, <2>1, <2>2 DEF Adopt
<1>7. CASE Accept(x)
  <2>1. Turns(x, "consume") /\ "consume" \in Busy /\ "consume" \in Launching
    BY <1>1, <1>7, GoesTurns DEF Accept, Launching
  <2>2. at' = [at EXCEPT ![x] = IF "consume" \in Busy THEN @ ELSE Nobody]
    BY <1>7, <2>1 DEF Accept, TypeOK
  <2>3. Lessens(at[x])
    BY <1>1, <1>7, KeepLessens DEF Accept, Own
  <2>4. StepOf(x, "consume")
    BY <1>1, <1>7, <2>1, <2>2, <2>3 DEF StepOf, Accept, Own, Running, NamedInv, TypeOK
  <2>5. QED
    BY <2>4
<1>8. CASE Consume(x)
  <2>1. Turns(x, "over")
    BY <1>1, <1>8, GoesTurns DEF Consume, Over
  <2>2. at' = [at EXCEPT ![x] = Nobody]
    BY <1>8 DEF Consume, Over
  <2>3. Lessens(at[x]) /\ at[x] \in owned
    BY <1>1, <1>8, DeleteLessens DEF Consume, GoesInv
  <2>4. StepOf(x, "over")
    BY <1>1, <1>8, <2>1, <2>2, <2>3 DEF StepOf, Consume, Running, NamedInv, TypeOK
  <2>5. QED
    BY <2>4
<1>9. QED
  BY <1>3, <1>4, <1>5, <1>6, <1>7, <1>8

(* An agent that was busy with no standby turns to one, or goes on; no row *)
(* and no executor is touched.                                             *)
LEMMA LooksKeep ==
  ASSUME PoolAssumption, PoolInv, NEW x \in Agent, poolStage[x] \notin Busy,
         NEW s \in Places(x), s \notin {"create", "stamp", "forget", "consume"}, Turns(x, s),
         NEW d \in Standby \cup {Nobody}, at' = [at EXCEPT ![x] = d], d # Nobody <=> s \in Busy,
         d \in Standby => x = "pass" \/ d \in named,
         todo'["sweep"] \subseteq named,
         UNCHANGED <<rows, world>>
  PROVE  StageInv' /\ NamedInv' /\ GoesInv' /\ Remembered'
<1> USE PoolAssumption DEF PoolInv, rows, world
<1>1. /\ "pass" \in Agent /\ Nobody \notin Standby
      /\ {"create", "stamp", "forget", "consume"} \subseteq Busy
      /\ {"idle", "list"} \cap Busy = {}
  BY Agents DEF PoolAssumption, Busy, Draining, Launching
<1>2. /\ at'[x] = d /\ poolStage'[x] = s
      /\ \A y \in Agent \ {x} :
           at'[y] = at[y] /\ (poolStage'[y] \in Busy => poolStage'[y] = poolStage[y])
  BY <1>1 DEF TypeOK, Turns
<1>3. StageInv'
  BY <1>2, Moved
<1>4. NamedInv'
  <2>1. (\A y \in Agent \ {"pass"} : at[y] # Nobody => at[y] \in named)'
    BY <1>1, <1>2 DEF NamedInv
  <2>2. (poolStage["pass"] \in {"create", "stamp"} => row[at["pass"]] = "warming")'
    BY <1>1, <1>2 DEF NamedInv
  <2>3. QED
    BY <2>1, <2>2 DEF NamedInv
<1>5. GoesInv'
  BY <1>1, <1>2 DEF GoesInv
<1>6. Remembered'
  <2>1. poolStage["pass"] = "stamp" => poolStage'["pass"] = "stamp" /\ at'["pass"] = at["pass"]
    <3>1. HAVE poolStage["pass"] = "stamp"
    <3>2. x # "pass"
      BY <1>1, <3>1
    <3>3. QED
      BY <1>1, <1>2, <3>1, <3>2 DEF Turns
  <2>2. QED
    BY <2>1 DEF Remembered
<1>7. QED
  BY <1>3, <1>4, <1>5, <1>6

(* The pass is over, whatever it was about.                                *)
LEMMA PassEnds ==
  ASSUME PoolAssumption, TypeOK, EndPass
  PROVE  /\ \E s \in {"idle", "list"} : Turns("pass", s) /\ again' \in BOOLEAN
         /\ count' \in 0..Max(Targets \cup {0})
<1>1. Goes("pass", "idle") \/ Goes("pass", "list")
  BY DEF EndPass
<1>2. count' \in 0..Max(Targets \cup {0})
  BY Largest DEF EndPass
<1>3. QED
  BY <1>1, <1>2, Agents, GoesTurns DEF EndPass

(* A pass reads and judges the rows: what it keeps is no more than the target.*)
LEMMA ListKeeps ==
  ASSUME PoolAssumption, PoolInv, List
  PROVE  PoolInv'
<1> USE PoolAssumption DEF PoolInv, rows, world
<1>1. /\ "pass" \in Agent /\ poolStage["pass"] = "list" /\ poolStage["pass"] \notin Busy
      /\ at["pass"] = Nobody /\ at' = [at EXCEPT !["pass"] = Nobody] /\ Nobody \notin Standby
      /\ UNCHANGED <<rows, world, restarts>>
      /\ kept = {} /\ goal = 0 /\ count = 0
  BY Agents
     DEF List, StageInv, CountInv, Underway, TypeOK, Busy, Draining, Launching, PoolAssumption
<1>2. CASE EndPass /\ UNCHANGED todo
  <2>1. PICK s \in {"idle", "list"} : Turns("pass", s) /\ again' \in BOOLEAN
    BY <1>2, PassEnds
  <2>2. s \in Places("pass") /\ s \notin Busy
    BY DEF Places, Busy, Draining, Launching
  <2>3. StageInv' /\ NamedInv' /\ GoesInv' /\ Remembered'
    BY <1>1, <1>2, <2>1, <2>2, LooksKeep DEF NamedInv
  <2>4. TypeOK'
    BY <1>1, <1>2, <2>1 DEF EndPass, TypeOK, Turns, Busy, Draining, Launching
  <2>5. CountInv'
    BY <1>1, <1>2, <2>1 DEF EndPass, CountInv, Turns, Underway, There
  <2>6. QED
    BY <2>3, <2>4, <2>5
<1>3. ASSUME NEW n \in Targets, NEW f \in Prints, NEW keep,
             keep = First({e \in Standby : row[e] = "ready" /\ print[e] = f}, n),
             kept' = keep,
             todo' = [todo EXCEPT !["pass"] =
                        {e \in Standby : row[e] \in {"warming", "ready", "failed"}} \ keep],
             goal' = n, wanted' = f, Goes("pass", "turn"), UNCHANGED <<count, again>>
      PROVE  PoolInv'
  <2>1. Turns("pass", "turn") /\ "turn" \in Places("pass") /\ "turn" \notin Busy
    BY <1>1, <1>3, GoesTurns DEF Places, Busy, Draining, Launching
  <2>2. n \in Nat /\ n <= Max(Targets)
    BY Largest DEF PoolAssumption
  <2>3. keep \subseteq Standby /\ Cardinality(keep) <= n
    BY <1>3, <2>2, FirstAre
  <2>4. todo'["sweep"] = todo["sweep"] /\ todo' \in [{"pass", "sweep"} -> SUBSET Standby]
        /\ There \subseteq todo'["pass"] \cup keep
    BY <1>3 DEF TypeOK, There
  <2>5. StageInv' /\ NamedInv' /\ GoesInv' /\ Remembered'
    BY <1>1, <2>1, <2>4, LooksKeep DEF NamedInv
  <2>6. TypeOK'
    BY <1>1, <1>3, <2>1, <2>3, <2>4 DEF TypeOK, Turns, Busy, Draining, Launching
  <2>7. CountInv'
    <3>1. (There \ Unjudged)' = {} /\ There' = There
      BY <1>1, <1>3, <2>4 DEF There, Unjudged
    <3>2. Cardinality((There \ Unjudged)') = 0
      BY <3>1, FS_EmptySet
    <3>3. Cardinality(keep) \in Nat
      BY <2>3, Fewer
    <3>4. poolStage'["pass"] = "turn"
      BY <2>1 DEF Turns
    <3>5. QED
      BY <1>1, <1>3, <2>3, <3>1, <3>2, <3>3, <3>4 DEF CountInv, Underway
  <2>8. QED
    BY <2>5, <2>6, <2>7
<1>4. QED
  BY <1>2, <1>3 DEF List

(* A pass turns to a standby it would not keep: it stays unjudged till drained.*)
LEMMA DrainNextKeeps ==
  ASSUME PoolAssumption, PoolInv, DrainNext
  PROVE  PoolInv'
<1> USE PoolAssumption DEF PoolInv, rows, world, passing
<1> DEFINE m == Min(todo["pass"])
<1>1. /\ "pass" \in Agent /\ poolStage["pass"] = "turn" /\ at["pass"] = Nobody
      /\ poolStage["pass"] \notin Busy /\ "stop" \in Busy /\ "stop" \in Places("pass")
      /\ Nobody \notin Standby
  BY Agents DEF DrainNext, StageInv, Places, Busy, Draining, Launching, PoolAssumption
<1>2. m \in todo["pass"] /\ m \in Standby
  BY MinStandby DEF DrainNext, TypeOK
<1>3. /\ Turns("pass", "stop") /\ at' = [at EXCEPT !["pass"] = m]
      /\ todo' = [todo EXCEPT !["pass"] = @ \ {m}]
      /\ UNCHANGED <<rows, world, passing, again, restarts>>
  BY <1>1, GoesTurns DEF DrainNext, DrainOf
<1> HIDE DEF m
<1>4. StageInv' /\ NamedInv' /\ GoesInv' /\ Remembered'
  BY <1>1, <1>2, <1>3, LooksKeep DEF NamedInv, TypeOK
<1>5. TypeOK'
  BY <1>1, <1>2, <1>3 DEF TypeOK, Turns, Busy, Draining, Launching
<1>6. CountInv'
  <2>1. There' = There /\ Unjudged' \cup {Nobody} = Unjudged
    BY <1>1, <1>2, <1>3 DEF TypeOK, There, Unjudged
  <2>2. (There \ Unjudged)' \subseteq There \ Unjudged
    BY <1>1, <2>1 DEF There
  <2>3. poolStage'["pass"] = "stop"
    BY <1>3 DEF Turns
  <2>4. Underway' /\ Underway
    BY <1>1, <2>3 DEF Underway
  <2>5. QED
    BY <1>3, <2>1, <2>2, <2>3, <2>4, NoneMade
<1>7. QED
  BY <1>4, <1>5, <1>6

(* A kept standby is counted, or drained.                                  *)
LEMMA ProbeKeeps ==
  ASSUME PoolAssumption, PoolInv, Probe
  PROVE  PoolInv'
<1> USE PoolAssumption DEF PoolInv, rows, world
<1> DEFINE m == Min(kept)
<1>1. /\ "pass" \in Agent /\ poolStage["pass"] = "turn" /\ at["pass"] = Nobody
      /\ poolStage["pass"] \notin Busy /\ "stop" \in Busy /\ {"stop", "turn"} \subseteq Places("pass")
      /\ Nobody \notin Standby
  BY Agents DEF Probe, StageInv, Places, Busy, Draining, Launching, PoolAssumption
<1>2. m \in kept /\ m \in Standby /\ kept \subseteq Standby
  BY MinStandby DEF Probe, TypeOK
<1>3. kept' = kept \ {m} /\ UNCHANGED <<rows, world, goal, wanted, todo, again, restarts>>
  BY DEF Probe
<1>4. /\ IsFiniteSet(kept) /\ Cardinality(kept) \in Nat
      /\ Cardinality(kept') = Cardinality(kept) - 1
      /\ Cardinality(kept') \in Nat
  <2>1. IsFiniteSet(kept) /\ Cardinality(kept) \in Nat
    BY <1>2, Fewer
  <2>2. IsFiniteSet(kept') /\ Cardinality(kept') = Cardinality(kept) - 1
    BY <1>2, <1>3, <2>1, FS_RemoveElement
  <2>3. QED
    BY <2>1, <2>2, FS_CardinalityType
<1>5. count + Cardinality(kept) <= goal /\ goal \in Nat /\ count \in Nat /\ goal <= Max(Targets)
  BY <1>1, Largest DEF CountInv, Underway, TypeOK, PoolAssumption
<1>6. There' = There /\ Cardinality(There \ Unjudged) <= count
  BY <1>1, <1>3 DEF There, CountInv, Underway
<1>7. CASE count' = count + 1 /\ UNCHANGED <<poolStage, at>>
  <2>1. Turns("pass", "turn") /\ at' = [at EXCEPT !["pass"] = Nobody]
    BY <1>1, <1>7 DEF TypeOK, Turns, Busy, Draining, Launching
  <2>2. StageInv' /\ NamedInv' /\ GoesInv' /\ Remembered'
    BY <1>1, <1>3, <2>1, LooksKeep DEF NamedInv
  <2>3. TypeOK'
    <3>1. count' \in 0..Max(Targets \cup {0})
      BY <1>4, <1>5, <1>7, Largest
    <3>2. QED
      BY <1>3, <1>7, <3>1 DEF TypeOK
  <2>4. CountInv'
    <3>1. (There \ Unjudged)' \subseteq (There \ Unjudged) \cup {m}
      BY <1>3, <1>6, <1>7 DEF Unjudged
    <3>2. There \ Unjudged \in SUBSET Standby
      BY DEF There
    <3>3. IsFiniteSet(There \ Unjudged) /\ Cardinality(There \ Unjudged) \in Nat
      BY <3>2, Fewer
    <3>4. Cardinality((There \ Unjudged) \cup {m}) <= count + 1
          /\ Cardinality((There \ Unjudged) \cup {m}) \in Nat
      <4> DEFINE U == There \ Unjudged
      <4> HIDE DEF U, m
      <4>1. IsFiniteSet(U) /\ Cardinality(U) \in Nat /\ Cardinality(U) <= count
        BY <1>6, <3>3 DEF U
      <4>2. Cardinality(U \cup {m}) = IF m \in U THEN Cardinality(U) ELSE Cardinality(U) + 1
        BY <4>1, FS_AddElement
      <4>3. Cardinality(U \cup {m}) <= count + 1 /\ Cardinality(U \cup {m}) \in Nat
        BY <1>5, <4>1, <4>2
      <4>4. QED
        BY <4>3 DEF U
    <3>5. (There \ Unjudged) \cup {m} \in SUBSET Standby
      BY <1>2, <3>2
    <3>6. /\ Cardinality((There \ Unjudged)') <= Cardinality((There \ Unjudged) \cup {m})
          /\ Cardinality((There \ Unjudged)') \in Nat
      BY <3>1, <3>5, Fewer
    <3>7. Cardinality((There \ Unjudged)') <= count'
      BY <1>5, <1>7, <3>4, <3>6
    <3>8. count' + Cardinality(kept') <= goal'
      BY <1>3, <1>4, <1>5, <1>7
    <3>9. QED
      BY <1>1, <1>6, <1>7, <3>7, <3>8 DEF CountInv, Underway
  <2>5. QED
    BY <2>2, <2>3, <2>4
<1>8. CASE DrainOf("pass", m) /\ UNCHANGED count
  <2>1. Turns("pass", "stop") /\ at' = [at EXCEPT !["pass"] = m]
    BY <1>1, <1>8, GoesTurns DEF DrainOf
  <2> HIDE DEF m
  <2>2. StageInv' /\ NamedInv' /\ GoesInv' /\ Remembered'
    BY <1>1, <1>2, <1>3, <2>1, LooksKeep DEF NamedInv
  <2>3. TypeOK'
    BY <1>1, <1>2, <1>3, <1>8, <2>1 DEF TypeOK, Turns, Busy, Draining, Launching
  <2>4. CountInv'
    <3>1. Unjudged' \cup {Nobody} = Unjudged
      BY <1>1, <1>2, <1>3, <2>1 DEF TypeOK, Unjudged
    <3>2. (There \ Unjudged)' = There \ Unjudged
      BY <1>1, <1>6, <3>1 DEF There
    <3>3. poolStage'["pass"] = "stop"
      BY <2>1 DEF Turns
    <3>4. Cardinality((There \ Unjudged)') <= count'
      BY <1>6, <1>8, <3>2
    <3>5. count' + Cardinality(kept') <= goal'
      BY <1>3, <1>4, <1>5, <1>8
    <3>6. QED
      BY <1>6, <3>3, <3>4, <3>5 DEF CountInv, Underway
  <2>5. QED
    BY <2>2, <2>3, <2>4
<1>9. QED
  BY <1>7, <1>8 DEF Probe, Counted

(* A standby is made only below the target, and every other was counted.   *)
LEMMA MakeKeeps ==
  ASSUME PoolAssumption, PoolInv, Make
  PROVE  PoolInv'
<1> USE PoolAssumption DEF PoolInv, rows, world, passing
<1> DEFINE m == Min(Unmade)
<1>1. /\ "pass" \in Agent /\ poolStage["pass"] = "turn" /\ at["pass"] = Nobody
      /\ poolStage["pass"] \notin Busy /\ "create" \in Busy
      /\ {"create", "idle", "list"} \subseteq Places("pass") /\ {"idle", "list"} \cap Busy = {}
      /\ Nobody \notin Standby /\ todo["pass"] = {} /\ kept = {}
  BY Agents DEF Make, StageInv, Places, Busy, Draining, Launching, PoolAssumption
<1>2. UNCHANGED <<named, world, todo, restarts>>
  BY DEF Make
<1>3. There \subseteq Standby /\ Unjudged = {Nobody} /\ There \ Unjudged = There
  BY <1>1 DEF There, Unjudged
<1>4. /\ IsFiniteSet(There) /\ Cardinality(There) \in Nat
      /\ Cardinality(There) <= count /\ count \in Nat
  BY <1>1, <1>3, Fewer DEF CountInv, Underway, TypeOK
<1>5. CASE EndPass /\ UNCHANGED <<row, print, at>>
  <2>1. PICK s \in {"idle", "list"} : Turns("pass", s) /\ again' \in BOOLEAN
    BY <1>5, PassEnds
  <2>2. at' = [at EXCEPT !["pass"] = Nobody]
    BY <1>1, <1>5 DEF TypeOK
  <2>3. StageInv' /\ NamedInv' /\ GoesInv' /\ Remembered'
    BY <1>1, <1>2, <1>5, <2>1, <2>2, LooksKeep DEF NamedInv
  <2>4. TypeOK'
    BY <1>2, <1>5, <2>1, PassEnds DEF EndPass, TypeOK, Turns, Busy, Draining, Launching
  <2>5. CountInv'
    BY <1>5, <2>1 DEF EndPass, CountInv, Turns, Underway, There
  <2>6. QED
    BY <2>3, <2>4, <2>5
<1>6. ASSUME count < goal, Unmade # {}, row' = [row EXCEPT ![m] = "warming"],
             print' = [print EXCEPT ![m] = wanted], at' = [at EXCEPT !["pass"] = m],
             Goes("pass", "create"), UNCHANGED <<passing, again>>
      PROVE  PoolInv'
  <2>1. m \in Standby /\ row[m] = "none"
    BY <1>6, MinStandby DEF Unmade
  <2> HIDE DEF m
  <2>2. m \notin named
    BY <2>1 DEF TypeOK
  <2>3. Turns("pass", "create")
    BY <1>1, <1>6, GoesTurns
  <2>4. /\ poolStage'["pass"] = "create" /\ at'["pass"] = m
        /\ \A y \in Agent \ {"pass"} : poolStage'[y] = poolStage[y] /\ at'[y] = at[y]
        /\ row'[m] = "warming" /\ \A e \in Standby \ {m} : row'[e] = row[e]
    BY <1>1, <1>6, <2>1, <2>3 DEF Turns, TypeOK
  <2>5. StageInv'
    BY <1>1, <2>1, <2>3, <2>4, Moved
  <2>6. TypeOK'
    BY <1>2, <1>6, <2>1, <2>2, <2>3 DEF TypeOK, Turns, Busy, Draining, Launching
  <2>7. NamedInv'
    BY <1>2, <2>1, <2>4 DEF NamedInv
  <2>8. GoesInv'
    BY <1>2, <2>4 DEF GoesInv
  <2>9. Remembered'
    <3>1. poolStage["pass"] # "stamp"
      BY <1>1
    <3>2. \A e \in Standby \ {m} : row'[e] = row[e]
      BY <2>4
    <3>3. QED
      BY <1>2, <2>1, <3>1, <3>2 DEF Remembered
  <2>10. CountInv'
    <3>1. There' = There \cup {m} /\ Unjudged' = {m} /\ There \cup {m} \subseteq Standby
      BY <1>1, <1>2, <1>3, <1>6, <2>1, <2>4 DEF There, Unjudged
    <3>2. goal <= Max(Targets) /\ Max(Targets) \in Nat /\ goal \in Nat
      BY Largest DEF TypeOK, PoolAssumption
    <3>3. Cardinality(There') <= count + 1 /\ Cardinality(There') \in Nat
      <4>1. Cardinality(There') = IF m \in There THEN Cardinality(There) ELSE Cardinality(There) + 1
        BY <1>4, <3>1, FS_AddElement
      <4>2. QED
        BY <1>4, <4>1
    <3>4. Cardinality(There') <= Max(Targets)
      BY <1>4, <1>6, <3>2, <3>3
    <3>5. Cardinality((There \ Unjudged)') <= count' /\ Cardinality((There \ Unjudged)') \in Nat
      <4>1. (There \ Unjudged)' \subseteq There
        BY <3>1
      <4>2. /\ Cardinality((There \ Unjudged)') <= Cardinality(There)
            /\ Cardinality((There \ Unjudged)') \in Nat
        BY <1>3, <4>1, Fewer
      <4>3. QED
        BY <1>4, <1>6, <4>2
    <3>6. kept' = {} /\ Cardinality({}) = 0 /\ count' = count /\ goal' = goal /\ todo' = todo
      BY <1>1, <1>2, <1>6, FS_EmptySet
    <3>7. QED
      BY <1>1, <1>4, <1>6, <2>4, <3>2, <3>4, <3>5, <3>6 DEF CountInv, Underway
  <2>11. QED
    BY <2>5, <2>6, <2>7, <2>8, <2>9, <2>10
<1>7. QED
  BY <1>5, <1>6 DEF Make

(* The executor a create made is the one the pass has yet to write down.   *)
LEMMA CreateKeeps ==
  ASSUME PoolAssumption, PoolInv, Create
  PROVE  PoolInv'
<1> USE PoolAssumption DEF PoolInv, rows, world, passing
<1> DEFINE e == at["pass"]
<1>1. /\ "pass" \in Agent /\ poolStage["pass"] = "create" /\ e \in Standby /\ row[e] = "warming"
      /\ Nobody \notin Standby /\ "stamp" \in Busy /\ {"stamp", "idle", "list"} \subseteq Places("pass")
      /\ {"idle", "list"} \cap Busy = {}
  BY Agents, Has DEF Create, NamedInv, Places, Busy, Draining, Launching, PoolAssumption
<1>2. UNCHANGED <<print, named, session, owned, todo, restarts>>
  BY DEF Create
<1>3. e \notin named /\ e \notin owned /\ exec[e] \notin {"runs", "stopping"}
  <2>1. e \notin named /\ e \notin owned
    BY <1>1 DEF TypeOK, NamedInv
  <2>2. QED
    BY <1>1, <2>1 DEF Remembered
<1>4. \A y \in Agent \ {"pass"} : at[y] # e
  BY <1>1, <1>3 DEF NamedInv
<1> HIDE DEF e
<1>5. CASE /\ exec' = [exec EXCEPT ![e] = "runs"]
           /\ token' = token \cup {e}
           /\ Goes("pass", "stamp")
           /\ UNCHANGED <<row, at, passing, again>>
  <2>1. Turns("pass", "stamp")
    BY <1>1, <1>5, GoesTurns
  <2>2. /\ poolStage'["pass"] = "stamp" /\ at' = at
        /\ \A y \in Agent \ {"pass"} : poolStage'[y] = poolStage[y]
        /\ \A d \in Standby \ {e} : exec'[d] = exec[d]
        /\ exec'[e] = "runs" /\ token' = token \cup {e}
    BY <1>1, <1>5, <2>1 DEF Turns, TypeOK
  <2>3. StageInv'
    BY <1>1, <2>1, <2>2, Moved DEF e
  <2>4. TypeOK'
    BY <1>1, <1>2, <1>5, <2>1 DEF TypeOK, Turns, Busy, Draining, Launching
  <2>5. NamedInv'
    BY <1>1, <1>2, <1>5, <2>2 DEF NamedInv
  <2>6. GoesInv'
    <3>1. ASSUME NEW y \in Agent \ {"pass"}, poolStage[y] = "forget"
          PROVE  exec'[at[y]] \notin {"runs", "stopping"}
      BY <1>4, <2>2, <3>1, Has DEF GoesInv, Busy, Draining
    <3>2. QED
      BY <1>2, <2>2, <3>1 DEF GoesInv
  <2>7. Remembered'
    BY <1>1, <1>2, <1>5, <2>2 DEF Remembered, e
  <2>8. CountInv'
    BY <1>1, <1>2, <1>5, <2>2 DEF CountInv, Underway, There, Unjudged
  <2>9. QED
    BY <2>3, <2>4, <2>5, <2>6, <2>7, <2>8
<1>6. CASE /\ \/ UNCHANGED <<exec, token>>
              \/ exec' = [exec EXCEPT ![e] = "astray"] /\ token' = token \cup {e}
           /\ Mark(e, "failed")
           /\ at' = [at EXCEPT !["pass"] = Nobody]
           /\ EndPass
  <2>1. PICK s \in {"idle", "list"} : Turns("pass", s) /\ again' \in BOOLEAN
    BY <1>6, PassEnds
  <2>2. /\ poolStage'["pass"] = s /\ at'["pass"] = Nobody
        /\ \A y \in Agent \ {"pass"} : poolStage'[y] = poolStage[y] /\ at'[y] = at[y]
        /\ at' \in [Agent -> Standby \cup {Nobody}]
    BY <1>1, <1>6, <2>1 DEF Turns, TypeOK
  <2>3. /\ row' = [row EXCEPT ![e] = "failed"] /\ row'[e] = "failed"
        /\ \A d \in Standby \ {e} : row'[d] = row[d]
    BY <1>1, <1>6 DEF Mark, TypeOK
  <2>4. /\ exec' \in [Standby -> {"none", "runs", "stopping", "astray", "ended"}]
        /\ exec'[e] \notin {"runs", "stopping"} /\ \A d \in Standby \ {e} : exec'[d] = exec[d]
        /\ token' \subseteq Standby /\ token \subseteq token'
    BY <1>1, <1>3, <1>6 DEF TypeOK
  <2>5. StageInv'
    BY <1>1, <2>1, <2>2, Moved
  <2>6. TypeOK'
    <3>1. /\ kept' = {} /\ goal' = 0 /\ wanted' = Nobody /\ count' = 0
          /\ 0 \in 0..Max(Targets \cup {0})
      BY <1>6, Largest DEF EndPass
    <3>2. row' \in [Standby -> {"none", "warming", "ready", "claimed", "failed", "gone"}]
      BY <2>3 DEF TypeOK
    <3>3. named' \subseteq {d \in Standby : row'[d] \notin {"none", "warming"}}
      BY <1>2, <2>3 DEF TypeOK
    <3>4. poolStage' \in [Agent -> Busy \cup {"idle", "list", "turn", "over"}]
      BY <2>1 DEF Turns
    <3>5. QED
      BY <1>2, <2>1, <2>2, <2>4, <3>1, <3>2, <3>3, <3>4 DEF TypeOK, Busy, Draining, Launching
  <2>7. NamedInv'
    BY <1>1, <1>2, <1>3, <2>2, <2>3, <2>4 DEF NamedInv
  <2>8. GoesInv'
    <3>1. ASSUME NEW y \in Agent \ {"pass"}, poolStage[y] = "forget"
          PROVE  exec'[at[y]] \notin {"runs", "stopping"}
      BY <1>4, <2>4, <3>1, Has DEF GoesInv, Busy, Draining
    <3>2. QED
      BY <1>2, <2>2, <3>1 DEF GoesInv
  <2>9. Remembered'
    BY <1>1, <1>2, <2>3, <2>4 DEF Remembered
  <2>10. CountInv'
    <3>1. There' \subseteq There /\ There \in SUBSET Standby
      BY <1>1, <2>3 DEF There
    <3>2. Cardinality(There') <= Cardinality(There) /\ Cardinality(There') \in Nat
          /\ Cardinality(There) \in Nat
      BY <3>1, Fewer
    <3>3. Cardinality(There') <= Max(Targets)
      BY <3>2, Largest DEF CountInv
    <3>4. QED
      BY <1>6, <2>2, <3>3 DEF EndPass, CountInv, Underway
  <2>11. QED
    BY <2>5, <2>6, <2>7, <2>8, <2>9, <2>10
<1>7. QED
  BY <1>5, <1>6 DEF Create, e

(* What the pass made is ready, named and counted.                         *)
LEMMA StampKeeps ==
  ASSUME PoolAssumption, PoolInv, Stamp
  PROVE  PoolInv'
<1> USE PoolAssumption DEF PoolInv, rows, world, passing
<1> DEFINE e == at["pass"]
<1>1. /\ "pass" \in Agent /\ poolStage["pass"] = "stamp" /\ e \in Standby /\ row[e] = "warming"
      /\ Nobody \notin Standby /\ "turn" \in Places("pass") /\ "turn" \notin Busy
      /\ todo["pass"] = {} /\ kept = {} /\ count < goal
  BY Agents, Has DEF Stamp, NamedInv, CountInv, Places, Busy, Draining, Launching, PoolAssumption
<1>2. /\ UNCHANGED <<print, world, kept, goal, wanted, todo, again, restarts>>
      /\ named' = named \cup {e} /\ count' = count + 1
      /\ at' = [at EXCEPT !["pass"] = Nobody] /\ Turns("pass", "turn")
  BY <1>1, GoesTurns DEF Stamp
<1>3. /\ poolStage'["pass"] = "turn" /\ at'["pass"] = Nobody
      /\ \A y \in Agent \ {"pass"} : poolStage'[y] = poolStage[y] /\ at'[y] = at[y]
  BY <1>1, <1>2 DEF Turns, TypeOK
<1>4. /\ row' = [row EXCEPT ![e] = "ready"] /\ row'[e] = "ready"
      /\ \A d \in Standby \ {e} : row'[d] = row[d]
  BY <1>1 DEF Stamp, Mark, TypeOK
<1>5. /\ goal <= Max(Targets) /\ goal \in Nat /\ count \in Nat
      /\ Max(Targets \cup {0}) = Max(Targets) /\ Max(Targets) \in Nat
  BY Largest DEF TypeOK, PoolAssumption
<1> HIDE DEF e
<1>6. TypeOK'
  <2>1. count' \in 0..Max(Targets \cup {0})
    BY <1>1, <1>2, <1>5
  <2>2. QED
    BY <1>1, <1>2, <1>4, <2>1 DEF TypeOK, Turns, Busy, Draining, Launching
<1>7. StageInv'
  BY <1>1, <1>2, <1>3, Moved
<1>8. NamedInv'
  BY <1>1, <1>2, <1>3, <1>4 DEF NamedInv
<1>9. GoesInv'
  BY <1>2, <1>3 DEF GoesInv
<1>10. Remembered'
  BY <1>1, <1>2, <1>3, <1>4 DEF Remembered, e
<1>11. CountInv'
  <2>1. There' = There /\ There \in SUBSET Standby
    BY <1>1, <1>4 DEF There
  <2>2. There = (There \ Unjudged) \cup {e}
    BY <1>1 DEF There, Unjudged, e
  <2>3. /\ IsFiniteSet(There \ Unjudged) /\ Cardinality(There \ Unjudged) \in Nat
        /\ Cardinality(There \ Unjudged) <= count
    BY <1>1, <2>1, Fewer DEF CountInv, Underway
  <2>4. Cardinality(There) <= count + 1 /\ Cardinality(There) \in Nat
    <3> DEFINE U == There \ Unjudged
    <3> HIDE DEF U
    <3>1. Cardinality(U \cup {e}) = IF e \in U THEN Cardinality(U) ELSE Cardinality(U) + 1
      BY <2>3, FS_AddElement DEF U
    <3>2. QED
      BY <1>5, <2>2, <2>3, <3>1 DEF U
  <2>5. (There \ Unjudged)' \subseteq There
    BY <2>1
  <2>6. Cardinality((There \ Unjudged)') <= Cardinality(There) /\ Cardinality((There \ Unjudged)') \in Nat
    BY <2>1, <2>5, Fewer
  <2>7. Cardinality((There \ Unjudged)') <= count'
    BY <1>2, <1>5, <2>4, <2>6
  <2>8. kept' = {} /\ Cardinality({}) = 0
    BY <1>1, <1>2, FS_EmptySet
  <2>9. count' + Cardinality(kept') <= goal'
    BY <1>1, <1>2, <1>5, <2>8
  <2>10. QED
    BY <1>3, <2>1, <2>7, <2>9 DEF CountInv, Underway
<1>12. QED
  BY <1>6, <1>7, <1>8, <1>9, <1>10, <1>11

(* The sweep lists claims, and all claimed rows name their executor.       *)
LEMMA SweepKeeps ==
  ASSUME PoolAssumption, PoolInv, Sweep
  PROVE  PoolInv'
<1> USE PoolAssumption DEF PoolInv, rows, world, passing
<1>1. /\ "sweep" \in Agent /\ "pass" \in Agent /\ poolStage["sweep"] = "idle"
      /\ at["sweep"] = Nobody /\ poolStage["sweep"] \notin Busy
      /\ "turn" \in Places("sweep") /\ "turn" \notin Busy /\ Nobody \notin Standby
  BY Agents DEF Sweep, StageInv, Places, Busy, Draining, Launching, PoolAssumption
<1>2. /\ todo' = [todo EXCEPT !["sweep"] = {e \in Standby : row[e] = "claimed"}]
      /\ UNCHANGED <<rows, world, passing, at, again, restarts>>
      /\ at' = [at EXCEPT !["sweep"] = Nobody] /\ Turns("sweep", "turn")
  BY <1>1, GoesTurns DEF Sweep, TypeOK
<1>3. todo'["sweep"] \subseteq named /\ todo'["pass"] = todo["pass"]
  BY <1>2 DEF NamedInv, TypeOK
<1>4. StageInv' /\ NamedInv' /\ GoesInv' /\ Remembered'
  BY <1>1, <1>2, <1>3, LooksKeep
<1>5. TypeOK'
  BY <1>2 DEF TypeOK, Turns, Busy, Draining, Launching
<1>6. CountInv'
  BY <1>1, <1>2, <1>3 DEF CountInv, Underway, There, Unjudged, Turns
<1>7. QED
  BY <1>4, <1>5, <1>6

(* It drains one, passes over one, or asks for a pass.                     *)
LEMMA SweepTurnKeeps ==
  ASSUME PoolAssumption, PoolInv, SweepTurn
  PROVE  PoolInv'
<1> USE PoolAssumption DEF PoolInv, rows, world, passing
<1> DEFINE m == Min(todo["sweep"])
<1>1. /\ "sweep" \in Agent \ {"pass"} /\ "pass" \in Agent /\ poolStage["sweep"] = "turn"
      /\ at["sweep"] = Nobody /\ poolStage["sweep"] \notin Busy
      /\ {"idle", "turn", "stop"} \subseteq Places("sweep") /\ {"idle", "list", "turn"} \cap Busy = {}
      /\ "stop" \in Busy /\ Nobody \notin Standby
  BY Agents DEF SweepTurn, StageInv, Places, Busy, Draining, Launching, PoolAssumption
<1>2. UNCHANGED <<rows, world, passing, restarts>>
  BY DEF SweepTurn
<1>3. ASSUME NEW s \in {"idle", "turn", "stop"}, Turns("sweep", s),
             NEW d \in named \cup {Nobody}, at' = [at EXCEPT !["sweep"] = d],
             d # Nobody <=> s \in Busy, again' \in BOOLEAN,
             todo' \in [{"pass", "sweep"} -> SUBSET Standby],
             todo'["pass"] = todo["pass"], todo'["sweep"] \subseteq todo["sweep"]
      PROVE  PoolInv'
  <2>1. d \in Standby \cup {Nobody} /\ todo'["sweep"] \subseteq named
    BY <1>3 DEF TypeOK, NamedInv
  <2>2. d \in Standby => d \in named
    BY <1>1, <1>3
  <2>3. StageInv' /\ NamedInv' /\ GoesInv' /\ Remembered'
    BY <1>1, <1>2, <1>3, <2>1, <2>2, LooksKeep
  <2>4. TypeOK'
    BY <1>2, <1>3, <2>1 DEF TypeOK, Turns, Busy, Draining, Launching
  <2>5. /\ at'["pass"] = at["pass"]
        /\ \/ poolStage'["pass"] = poolStage["pass"]
           \/ poolStage["pass"] = "idle" /\ poolStage'["pass"] = "list"
    BY <1>1, <1>3 DEF Turns, TypeOK
  <2>6. CountInv'
    BY <1>2, <1>3, <2>5 DEF CountInv, Underway, There, Unjudged
  <2>7. QED
    BY <2>3, <2>4, <2>6
<1>4. CASE todo["sweep"] # {}
  <2>1. m \in todo["sweep"] /\ m \in Standby /\ m \in named
    BY <1>4, MinStandby DEF TypeOK, NamedInv
  <2>2. /\ todo' = [todo EXCEPT !["sweep"] = @ \ {m}] /\ again' = again
        /\ DrainOf("sweep", m) \/ UNCHANGED <<poolStage, at>>
    BY <1>4 DEF SweepTurn
  <2> HIDE DEF m
  <2>3. CASE DrainOf("sweep", m)
    <3>1. Turns("sweep", "stop") /\ at' = [at EXCEPT !["sweep"] = m]
      BY <1>1, <2>3, GoesTurns DEF DrainOf
    <3>2. QED
      BY <1>1, <1>3, <2>1, <2>2, <3>1 DEF TypeOK
  <2>4. CASE UNCHANGED <<poolStage, at>>
    <3>1. Turns("sweep", "turn") /\ at' = [at EXCEPT !["sweep"] = Nobody]
      BY <1>1, <2>4 DEF Turns, TypeOK, Busy, Draining, Launching
    <3>2. QED
      BY <1>1, <1>3, <2>1, <2>2, <3>1 DEF TypeOK
  <2>5. QED
    BY <2>2, <2>3, <2>4
<1>5. CASE todo["sweep"] = {}
  <2>1. RequestAndGo("sweep", "idle") /\ UNCHANGED <<todo, at>>
    BY <1>5 DEF SweepTurn
  <2>2. Turns("sweep", "idle") /\ again' \in BOOLEAN
    BY <1>1, <2>1, RequestTurns
  <2>3. at' = [at EXCEPT !["sweep"] = Nobody]
    BY <1>1, <2>1 DEF TypeOK
  <2>4. QED
    BY <1>1, <1>3, <2>1, <2>2, <2>3 DEF TypeOK
<1>6. QED
  BY <1>4, <1>5

(* A start takes a ready standby out of the pool, or asks for a pass.      *)
LEMMA ClaimKeeps ==
  ASSUME PoolAssumption, PoolInv, NEW x \in Starter, Claim(x)
  PROVE  PoolInv'
<1> USE PoolAssumption DEF PoolInv, rows, world, passing
<1>1. /\ x \in Agent \ {"pass"} /\ "pass" \in Agent /\ poolStage[x] = "idle"
      /\ at[x] = Nobody /\ poolStage[x] \notin Busy
      /\ {"lease", "over"} \subseteq Places(x) /\ {"idle", "list", "over"} \cap Busy = {}
      /\ "lease" \in Busy /\ Nobody \notin Standby
  <2>1. x # "sweep" /\ x \in Agent \ {"pass"}
    BY Agents
  <2>2. QED
    BY <2>1, Agents DEF Claim, StageInv, Places, Busy, Draining, Launching, PoolAssumption
<1>2. UNCHANGED <<print, named, world, passing, todo, restarts>>
  BY DEF Claim
<1>3. CASE RequestAndGo(x, "over") /\ UNCHANGED <<row, at>>
  <2>1. Turns(x, "over") /\ again' \in BOOLEAN
    BY <1>1, <1>3, RequestTurns
  <2>2. at' = [at EXCEPT ![x] = Nobody]
    BY <1>1, <1>3 DEF TypeOK
  <2>3. StageInv' /\ NamedInv' /\ GoesInv' /\ Remembered'
    BY <1>1, <1>2, <1>3, <2>1, <2>2, LooksKeep DEF NamedInv
  <2>4. TypeOK'
    BY <1>2, <1>3, <2>1 DEF TypeOK, Turns, Busy, Draining, Launching
  <2>5. /\ at'["pass"] = at["pass"]
        /\ \/ poolStage'["pass"] = poolStage["pass"]
           \/ poolStage["pass"] = "idle" /\ poolStage'["pass"] = "list"
    BY <1>1, <1>3, <2>1 DEF Turns
  <2>6. CountInv'
    BY <1>2, <1>3, <2>5 DEF CountInv, Underway, There, Unjudged
  <2>7. QED
    BY <2>3, <2>4, <2>6
<1>4. ASSUME NEW f \in Prints, NEW fit, fit = {e \in Standby : row[e] = "ready" /\ print[e] = f},
             fit # {}, row' = [row EXCEPT ![Min(fit)] = "claimed"],
             at' = [at EXCEPT ![x] = Min(fit)], Goes(x, "lease"), UNCHANGED again
      PROVE  PoolInv'
  <2> DEFINE m == Min(fit)
  <2>1. m \in Standby /\ row[m] = "ready"
    BY <1>4, MinStandby
  <2> HIDE DEF m
  <2>2. m \in named
    BY <2>1 DEF NamedInv
  <2>3. /\ Turns(x, "lease") /\ poolStage'[x] = "lease" /\ at'[x] = m
        /\ \A y \in Agent \ {x} : poolStage'[y] = poolStage[y] /\ at'[y] = at[y]
        /\ row'[m] = "claimed" /\ \A e \in Standby \ {m} : row'[e] = row[e]
    BY <1>1, <1>4, <2>1, GoesTurns DEF Goes, TypeOK, m
  <2>4. StageInv'
    BY <1>1, <2>1, <2>3, Moved
  <2>5. TypeOK'
    BY <1>2, <1>4, <2>1, <2>3 DEF TypeOK, Turns, Busy, Draining, Launching, m
  <2>6. NamedInv'
    <3>1. poolStage["pass"] \in {"create", "stamp"} => at["pass"] \in Standby /\ at["pass"] # m
      BY <1>1, <2>1, Has DEF NamedInv, Busy
    <3>2. QED
      BY <1>1, <1>2, <2>1, <2>2, <2>3, <3>1 DEF NamedInv
  <2>7. GoesInv'
    BY <1>2, <2>3 DEF GoesInv
  <2>8. Remembered'
    BY <1>1, <1>2, <2>1, <2>2, <2>3 DEF Remembered
  <2>9. CountInv'
    <3>1. There' \subseteq There
      BY <2>1, <2>3 DEF There
    <3>2. (There \ Unjudged)' \subseteq There \ Unjudged
      BY <1>1, <1>2, <2>3, <3>1 DEF Unjudged
    <3>3. QED
      BY <1>1, <1>2, <2>3, <3>1, <3>2, NoneMade DEF Underway
  <2>10. QED
    BY <2>4, <2>5, <2>6, <2>7, <2>8, <2>9
<1>5. QED
  BY <1>3, <1>4 DEF Claim

(* An executor ends.                                                       *)
LEMMA EndKeeps ==
  ASSUME PoolAssumption, PoolInv, NEW e \in Standby, End(e)
  PROVE  PoolInv'
<1> USE PoolAssumption DEF PoolInv, rows, passing
<1>1. /\ exec' = [exec EXCEPT ![e] = "ended"]
      /\ UNCHANGED <<rows, token, session, owned, passing, poolStage, at, todo, again, restarts>>
  BY DEF End
<1>2. exec'[e] = "ended" /\ \A d \in Standby \ {e} : exec'[d] = exec[d]
  BY <1>1 DEF TypeOK
<1>3. TypeOK' /\ StageInv'
  BY <1>1 DEF TypeOK, StageInv
<1>4. NamedInv'
  BY <1>1, <1>2 DEF NamedInv
<1>5. GoesInv'
  <2>1. ASSUME NEW x \in Agent, poolStage[x] = "forget"
        PROVE  exec'[at[x]] \notin {"runs", "stopping"}
    BY <1>2, <2>1, Has DEF GoesInv, Busy, Draining
  <2>2. QED
    BY <1>1, <2>1 DEF GoesInv
<1>6. Remembered'
  BY <1>1, <1>2 DEF Remembered
<1>7. CountInv'
  BY <1>1 DEF CountInv, Underway, There, Unjudged
<1>8. QED
  BY <1>3, <1>4, <1>5, <1>6, <1>7

(* A session settles, and the token of an ended executor goes.             *)
LEMMA SettleKeeps ==
  ASSUME PoolAssumption, PoolInv, NEW e \in Standby, Settle(e) \/ Revoke(e)
  PROVE  PoolInv'
<1> USE PoolAssumption DEF PoolInv, rows, passing, Settle, Revoke
<1>1. TypeOK' /\ StageInv' /\ NamedInv' /\ GoesInv'
  BY DEF TypeOK, StageInv, NamedInv, GoesInv
<1>2. Remembered'
  BY DEF Remembered
<1>3. CountInv'
  BY DEF CountInv, Underway, There, Unjudged
<1>4. QED
  BY <1>1, <1>2, <1>3

(* A crash forgets what was under way; a create, answered or not, goes     *)
(* astray, and all that ran was on a row.                                  *)
LEMMA CrashKeeps ==
  ASSUME PoolAssumption, PoolInv, Crash
  PROVE  PoolInv'
<1> USE PoolAssumption DEF PoolInv, rows
<1>1. /\ poolStage' = [x \in Agent |->
                         IF x \in Starter /\ poolStage[x] # "idle" THEN "over" ELSE "idle"]
      /\ at' = [x \in Agent |-> Nobody]
      /\ todo' = [x \in {"pass", "sweep"} |-> {}]
      /\ kept' = {} /\ goal' = 0 /\ wanted' = Nobody /\ count' = 0 /\ again' = FALSE
      /\ restarts < MaxCrashes /\ restarts' = restarts + 1
      /\ session' = [e \in Standby |->
                       IF session[e] = "live" /\ e \notin owned THEN "settled" ELSE session[e]]
      /\ UNCHANGED <<rows, owned>>
  BY DEF Crash
<1>2. "pass" \in Agent /\ "pass" \notin Starter /\ "sweep" \in Agent /\ "sweep" \notin Starter
  BY Agents
<1>3. /\ exec' \in [Standby -> {"none", "runs", "stopping", "astray", "ended"}]
      /\ token' \subseteq Standby /\ token \subseteq token'
      /\ \A e \in Standby : exec'[e] = exec[e] \/ exec'[e] = "astray"
      /\ \A e \in Standby :
           poolStage["pass"] = "stamp" /\ e = at["pass"] /\ exec[e] = "runs" => exec'[e] = "astray"
  <2>1. CASE /\ poolStage["pass"] = "create"
             /\ exec' = [exec EXCEPT ![at["pass"]] = "astray"]
             /\ token' = token \cup {at["pass"]}
    <3>1. at["pass"] \in Standby
      BY <1>2, <2>1, Has DEF Busy
    <3>2. QED
      BY <2>1, <3>1 DEF TypeOK
  <2>2. CASE /\ exec' = [e \in Standby |->
                           IF poolStage["pass"] = "stamp" /\ e = at["pass"] /\ exec[e] = "runs"
                             THEN "astray" ELSE exec[e]]
             /\ UNCHANGED token
    BY <2>2 DEF TypeOK
  <2>3. QED
    BY <2>1, <2>2 DEF Crash
<1>4. TypeOK'
  <2>1. count' \in 0..Max(Targets \cup {0})
    BY <1>1, Largest
  <2>2. poolStage' \in [Agent -> {"idle", "over"}] /\ at' \in [Agent -> {Nobody}]
    BY <1>1
  <2>3. session' \in [Standby -> {"none", "live", "settled"}]
    BY <1>1 DEF TypeOK
  <2>4. restarts' \in 0..MaxCrashes
    BY <1>1 DEF TypeOK, PoolAssumption
  <2>5. QED
    BY <1>1, <1>3, <2>1, <2>2, <2>3, <2>4 DEF TypeOK
<1>5. StageInv'
  <2>1. ASSUME NEW x \in Agent
        PROVE  poolStage'[x] \in Places(x) /\ poolStage'[x] \notin Busy /\ at'[x] = Nobody
    BY <1>1, <1>2 DEF Places, Busy, Draining, Launching
  <2>2. QED
    BY <2>1 DEF StageInv
<1>6. poolStage'["pass"] = "idle" /\ todo'["sweep"] = {} /\ \A x \in Agent : at'[x] = Nobody
  BY <1>1, <1>2
<1>7. NamedInv'
  BY <1>1, <1>3, <1>6 DEF NamedInv
<1>8. GoesInv'
  BY <1>1 DEF GoesInv
<1>9. Remembered'
  <2>1. SUFFICES ASSUME NEW e \in Standby, exec'[e] \in {"runs", "stopping"}
                 PROVE  e \in token' /\ (e \in owned \/ (e \in named /\ row[e] \in {"ready", "claimed", "failed"}))
    BY <1>1 DEF Remembered
  <2>2. exec'[e] = exec[e]
    BY <1>3, <2>1
  <2>3. CASE poolStage["pass"] = "stamp" /\ at["pass"] = e
    <3>1. e \notin named
      BY <2>3 DEF NamedInv, TypeOK
    <3>2. exec[e] = "runs"
      BY <2>1, <2>2, <3>1 DEF NamedInv
    <3>3. QED
      BY <1>3, <2>2, <2>3, <3>2
  <2>4. CASE ~(poolStage["pass"] = "stamp" /\ at["pass"] = e)
    <3>1. exec[e] \in {"runs", "stopping"}
      BY <2>1, <2>2
    <3>2. e \in token /\ (e \in owned \/ (e \in named /\ row[e] \in {"ready", "claimed", "failed"}))
      BY <2>4, <3>1 DEF Remembered
    <3>3. QED
      BY <1>3, <3>2
  <2>5. QED
    BY <2>3, <2>4
<1>10. CountInv'
  <2>1. There' = There
    BY <1>1 DEF There
  <2>2. QED
    BY <1>1, <1>6, <2>1 DEF CountInv, Underway
<1>11. QED
  BY <1>4, <1>5, <1>7, <1>8, <1>9, <1>10

(* A step that changes nothing here keeps it.                              *)
LEMMA PoolStutters ==
  ASSUME PoolInv, UNCHANGED vars PROVE PoolInv'
  BY DEF PoolInv, vars, rows, world, passing, TypeOK, StageInv, NamedInv, GoesInv, Remembered,
         CountInv, Underway, There, Unjudged

(* An empty pool satisfies it.                                             *)
LEMMA PoolStarts ==
  ASSUME PoolAssumption, Init PROVE PoolInv
<1> USE PoolAssumption DEF Init
<1>1. /\ "pass" \in Agent /\ "sweep" \in Agent /\ "idle" \notin Busy
      /\ \A x \in Agent : "idle" \in Places(x)
  BY Agents DEF Places, Busy, Draining, Launching
<1>2. TypeOK
  <2>1. 0 \in 0..Max(Targets \cup {0}) /\ 0 \in 0..MaxCrashes
    BY Largest DEF PoolAssumption
  <2>2. /\ row \in [Standby -> {"none", "warming", "ready", "claimed", "failed", "gone"}]
        /\ exec \in [Standby -> {"none", "runs", "stopping", "astray", "ended"}]
        /\ session \in [Standby -> {"none", "live", "settled"}]
        /\ print \in [Standby -> Prints \cup {Nobody}]
    OBVIOUS
  <2>3. /\ poolStage \in [Agent -> {"idle"}] /\ at \in [Agent -> {Nobody}]
        /\ todo \in [{"pass", "sweep"} -> SUBSET Standby]
    OBVIOUS
  <2>4. QED
    BY <2>1, <2>2, <2>3 DEF TypeOK
<1>3. StageInv
  BY <1>1 DEF StageInv
<1>4. NamedInv /\ GoesInv /\ Remembered
  BY <1>1 DEF NamedInv, GoesInv, Remembered
<1>5. CountInv
  <2>1. There = {} /\ poolStage["pass"] = "idle"
    BY <1>1 DEF There
  <2>2. QED
    BY <2>1, Largest, FS_EmptySet DEF CountInv, Underway
<1>6. QED
  BY <1>2, <1>3, <1>4, <1>5 DEF PoolInv

(* Every step of the pass, the sweep, a start or the world keeps it.       *)
LEMMA PoolNext ==
  ASSUME PoolAssumption, PoolInv, [Next]_vars PROVE PoolInv'
<1>1. ASSUME NEW x \in Agent, Drain(x) PROVE PoolInv'
  BY <1>1, DrainSteps, StepKeeps
<1>2. CASE Pass
  BY <1>1, <1>2, Agents, ListKeeps, DrainNextKeeps, ProbeKeeps, MakeKeeps, CreateKeeps, StampKeeps
     DEF Pass
<1>3. CASE Sweeping
  BY <1>1, <1>3, Agents, SweepKeeps, SweepTurnKeeps DEF Sweeping
<1>4. ASSUME NEW x \in Starter, Starting(x) PROVE PoolInv'
  BY <1>1, <1>4, Agents, ClaimKeeps, StartSteps, StepKeeps DEF Starting
<1>5. QED
  BY <1>2, <1>3, <1>4, CrashKeeps, EndKeeps, SettleKeeps, PoolStutters DEF Next

-----------------------------------------------------------------------------
(* The theorems.                                                           *)

(* The invariant of the pool is inductive: who has which standby, which rows
   name their executor, what is on a row and what the pass has counted. *)
THEOREM PoolInvariance ==
  ASSUME PoolAssumption PROVE Spec => []PoolInv
<1>1. Init => PoolInv
  BY PoolStarts
<1>2. PoolInv /\ [Next]_vars => PoolInv'
  BY PoolNext
<1>3. QED
  BY <1>1, <1>2, PTL DEF Spec

(* Every variable of the pool keeps its type: a pass never counts beyond the
   largest target. *)
THEOREM PoolTypes ==
  ASSUME PoolAssumption PROVE Spec => []TypeOK
<1>1. PoolInv => TypeOK
  BY DEF PoolInv
<1>2. QED
  BY <1>1, PoolInvariance, PTL

(* An executor whose create was answered is on a row until it has ended, and
   its token stands as long, whatever stops halfway (drainHotWorkspace,
   acceptExecutor, provisionHotWorkspace). *)
THEOREM ExecutorsRemembered ==
  ASSUME PoolAssumption PROVE Spec => []Remembered
<1>1. PoolInv => Remembered
  BY DEF PoolInv
<1>2. QED
  BY <1>1, PoolInvariance, PTL

(* There are never more standbys, ready or being made, than the project asked
   for at most (reconcileHotPoolOnce). *)
THEOREM PoolKeepsTarget ==
  ASSUME PoolAssumption PROVE Spec => []PoolWithinTarget
<1>1. PoolInv => PoolWithinTarget
  <2>1. SUFFICES ASSUME PoolInv PROVE PoolWithinTarget
    OBVIOUS
  <2> DEFINE Pooled == {e \in Standby : row[e] = "ready" \/ (row[e] = "warming" /\ at["pass"] = e)}
  <2>2. Pooled \subseteq There /\ There \in SUBSET Standby
    BY DEF There
  <2>3. /\ Cardinality(Pooled) <= Cardinality(There) /\ Cardinality(Pooled) \in Nat
        /\ Cardinality(There) \in Nat
    BY <2>2, Fewer
  <2>4. Cardinality(There) <= Max(Targets) /\ Max(Targets) \in Nat
    BY <2>1, Largest DEF PoolInv, CountInv
  <2>5. Cardinality(Pooled) <= Max(Targets)
    BY <2>3, <2>4
  <2>6. QED
    BY <2>5 DEF PoolWithinTarget
<1>2. QED
  BY <1>1, PoolInvariance, PTL
=============================================================================
