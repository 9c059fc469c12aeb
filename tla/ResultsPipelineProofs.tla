----------------------- MODULE ResultsPipelineProofs -----------------------
(***************************************************************************)
(* Machine-checked proofs about ResultsPipeline, for every environment,    *)
(* any number of invocations, and failures at any step.                    *)
(***************************************************************************)
EXTENDS ResultsPipeline, TLAPS

(***************************************************************************)
(* The order of a plan.  Every step has a rank; the ranks of a plan never  *)
(* fall, and where one step prepares the next the two are neighbours.      *)
(***************************************************************************)
OnRun(op, run) == [op |-> op, run |-> run]
OnName(op, name, run) == [op |-> op, name |-> name, run |-> run]
OnPath(op, f) == [op |-> op, folder |-> f]

\* The steps of an invocation.
StepsOfRuns(inv) ==
    [op : {"evaluate", "snapshot"}, name : Names, run : [inv : {inv}, leg : Devices]]
        \cup [op : {"train", "adopt"}, run : [inv : {inv}, leg : Devices]]
StepsOfFolders(inv) ==
    [op : {"stage", "recreate", "copy", "query", "manifest", "view"},
     folder : [inv : {inv}, leg : Devices]]
        \cup [op : {"combine"}, folder : [inv : {inv}, leg : {"both", "runtimes"}]]
        \cup [op : {"clear", "fill", "readme"},
              folder : [inv : {inv}, leg : Devices \cup {"both", "runtimes"}]]
StepsOf(inv) == StepsOfRuns(inv) \cup StepsOfFolders(inv) \cup {[op |-> "done"]}

Phase(leg) ==
    CASE leg = "cpu" -> 300 [] leg = "cuda" -> 400
      [] leg = "both" -> 500 [] leg = "runtimes" -> 600

Position(op) ==
    CASE op = "stage" -> 2 [] op = "recreate" -> 3 [] op = "copy" -> 4
      [] op = "query" -> 5 [] op = "manifest" -> 6 [] op = "view" -> 7
      [] op = "clear" -> 8 [] op = "fill" -> 9 [] op = "readme" -> 10
      [] op \in {"evaluate", "combine"} -> 0 [] op = "snapshot" -> 1

Rank(st) ==
    CASE st.op = "done" -> 700
      [] st.op \in {"train", "adopt"} -> 20
      [] st.op \in {"evaluate", "snapshot"} ->
            IF st.name = "comparison" THEN Phase(st.run.leg) + Position(st.op) ELSE 10
      [] OTHER -> Phase(st.folder.leg) + Position(st.op)

\* b is the step that a leads to.
Follows(a, b) ==
    \/ a.op = "evaluate" /\ b = OnName("snapshot", a.name, a.run)
    \/ a.op = "train" /\ b = OnRun("adopt", a.run)
    \/ a.op = "stage" /\ b = OnPath("recreate", a.folder)
    \/ a.op = "recreate" /\ b = OnPath("copy", a.folder)
    \/ a.op = "copy" /\ b = OnPath("query", a.folder)
    \/ a.op = "query" /\ b = OnPath("manifest", a.folder)
    \/ a.op = "manifest" /\ b = OnPath("view", a.folder)
    \/ a.op \in {"view", "combine"} /\ b = OnPath("clear", a.folder)
    \/ a.op = "clear" /\ b = OnPath("fill", a.folder)
    \/ a.op = "fill" /\ b = OnPath("readme", a.folder)

\* What comes first, and last, in a group of neighbours.
Openers == {"evaluate", "train", "stage", "combine", "done"}
Closers == {"snapshot", "adopt", "readme", "done"}

Chain(s) ==
    /\ \A i \in 1 .. Len(s) : s[i].op \notin Closers =>
          i < Len(s) /\ Follows(s[i], s[i + 1])
    /\ \A i \in 2 .. Len(s) : s[i].op \notin Openers => Follows(s[i - 1], s[i])

Ordered(s) == \A i, j \in 1 .. Len(s) : i < j => Rank(s[i]) <= Rank(s[j])

\* A part of the plan of an invocation, of ranks lo to hi.
Block(s, inv, lo, hi) ==
    /\ s \in Seq(StepsOf(inv))
    /\ Chain(s)
    /\ Ordered(s)
    /\ s # <<>> => s[1].op \in Openers
    /\ \A i \in 1 .. Len(s) : lo <= Rank(s[i]) /\ Rank(s[i]) <= hi

Elements(s) == {s[i] : i \in 1 .. Len(s)}

LEMMA RankIsANumber == \A inv : \A st \in StepsOf(inv) : Rank(st) \in Nat
<1> SUFFICES ASSUME NEW inv, NEW st \in StepsOf(inv)
             PROVE  Rank(st) \in Nat
    OBVIOUS
<1>1. CASE st = [op |-> "done"]
    BY <1>1 DEF Rank
<1>2. CASE st \in [op : {"train", "adopt"}, run : [inv : {inv}, leg : Devices]]
    BY <1>2 DEF Rank
<1>3. CASE st \in [op : {"evaluate", "snapshot"}, name : Names,
                   run : [inv : {inv}, leg : Devices]]
    BY <1>3 DEF Rank, Phase, Position, Devices
<1>4. CASE st \in StepsOfFolders(inv)
    BY <1>4 DEF StepsOfFolders, Rank, Phase, Position, Devices
<1> QED
    BY <1>1, <1>2, <1>3, <1>4 DEF StepsOf, StepsOfRuns

\* Two blocks, one after the other.
LEMMA Concatenation ==
    ASSUME NEW inv, NEW lo \in Nat, NEW hi \in Nat, NEW from \in Nat, NEW to \in Nat,
           NEW s, NEW t, Block(s, inv, lo, hi), Block(t, inv, from, to),
           lo <= hi, hi <= from, from <= to
    PROVE  Block(s \o t, inv, lo, to)
<1> DEFINE S == StepsOf(inv)
<1>1. /\ s \in Seq(S) /\ t \in Seq(S) /\ s \o t \in Seq(S)
      /\ Len(s) \in Nat /\ Len(t) \in Nat /\ Len(s \o t) = Len(s) + Len(t)
      /\ \A i \in 1 .. Len(s) : (s \o t)[i] = s[i] /\ s[i] \in S
      /\ \A i \in 1 .. Len(t) : (s \o t)[Len(s) + i] = t[i] /\ t[i] \in S
      /\ \A i \in Len(s) + 1 .. Len(s) + Len(t) : (s \o t)[i] = t[i - Len(s)]
    BY DEF Block
<1>2. Chain(s \o t)
  <2>1. ASSUME NEW i \in 1 .. Len(s \o t), (s \o t)[i].op \notin Closers
        PROVE  i < Len(s \o t) /\ Follows((s \o t)[i], (s \o t)[i + 1])
      <3>1. CASE i <= Len(s)
          <4>1. i < Len(s) /\ Follows(s[i], s[i + 1])
              BY <1>1, <2>1, <3>1 DEF Block, Chain
          <4> QED
              BY <1>1, <3>1, <4>1
      <3>2. CASE i > Len(s)
          <4>1. i - Len(s) \in 1 .. Len(t) /\ (s \o t)[i] = t[i - Len(s)]
              BY <1>1, <3>2
          <4>2. i - Len(s) < Len(t) /\ Follows(t[i - Len(s)], t[i - Len(s) + 1])
              BY <1>1, <2>1, <4>1 DEF Block, Chain
          <4>3. i + 1 \in Len(s) + 1 .. Len(s) + Len(t) /\ i + 1 - Len(s) = i - Len(s) + 1
              BY <1>1, <4>1, <4>2
          <4>4. (s \o t)[i + 1] = t[i - Len(s) + 1]
              BY <1>1, <4>3
          <4> QED
              BY <1>1, <4>1, <4>2, <4>4
      <3> QED
          BY <1>1, <3>1, <3>2
  <2>2. ASSUME NEW i \in 2 .. Len(s \o t), (s \o t)[i].op \notin Openers
        PROVE  Follows((s \o t)[i - 1], (s \o t)[i])
      <3>1. CASE i <= Len(s)
          BY <1>1, <2>2, <3>1 DEF Block, Chain
      <3>2. CASE i = Len(s) + 1
          <4>1. t # <<>> /\ (s \o t)[i] = t[1]
              BY <1>1, <3>2
          <4> QED
              BY <2>2, <4>1 DEF Block
      <3>3. CASE i > Len(s) + 1
          <4>1. i - Len(s) \in 2 .. Len(t) /\ (s \o t)[i] = t[i - Len(s)]
              BY <1>1, <3>3
          <4>2. Follows(t[i - Len(s) - 1], t[i - Len(s)])
              BY <2>2, <4>1 DEF Block, Chain
          <4>3. i - 1 \in Len(s) + 1 .. Len(s) + Len(t) /\ i - 1 - Len(s) = i - Len(s) - 1
              BY <1>1, <3>3
          <4>4. (s \o t)[i - 1] = t[i - Len(s) - 1]
              BY <1>1, <4>3
          <4> QED
              BY <4>1, <4>2, <4>4
      <3> QED
          BY <1>1, <3>1, <3>2, <3>3
  <2> QED
      BY <2>1, <2>2 DEF Chain
<1>3. Ordered(s \o t)
  <2> SUFFICES ASSUME NEW i \in 1 .. Len(s \o t), NEW j \in 1 .. Len(s \o t), i < j
               PROVE  Rank((s \o t)[i]) <= Rank((s \o t)[j])
      BY DEF Ordered
  <2>1. CASE j <= Len(s)
      BY <1>1, <2>1 DEF Block, Ordered
  <2>2. CASE i <= Len(s) /\ j > Len(s)
      <3>1. j - Len(s) \in 1 .. Len(t) /\ (s \o t)[j] = t[j - Len(s)] /\ (s \o t)[i] = s[i]
          BY <1>1, <2>2
      <3>2. Rank(s[i]) <= hi /\ from <= Rank(t[j - Len(s)])
          BY <1>1, <2>2, <3>1 DEF Block
      <3>3. Rank(s[i]) \in Nat /\ Rank(t[j - Len(s)]) \in Nat
          BY <1>1, <2>2, <3>1, RankIsANumber
      <3> QED
          BY <3>1, <3>2, <3>3
  <2>3. CASE i > Len(s)
      <3>1. /\ j - Len(s) \in 1 .. Len(t) /\ (s \o t)[j] = t[j - Len(s)]
            /\ i - Len(s) \in 1 .. Len(t) /\ (s \o t)[i] = t[i - Len(s)]
            /\ i - Len(s) < j - Len(s)
          BY <1>1, <2>3
      <3>2. Ordered(t)
          BY DEF Block
      <3>3. Rank(t[i - Len(s)]) <= Rank(t[j - Len(s)])
          BY <3>1, <3>2 DEF Ordered
      <3> QED
          BY <3>1, <3>3
  <2>4. Len(s) \in Nat /\ i \in Int /\ j \in Int
      BY <1>1
  <2> QED
      BY <2>1, <2>2, <2>3, <2>4
<1>4. s \o t # <<>> => (s \o t)[1].op \in Openers
  <2>1. CASE s = <<>>
      <3>1. Len(s) = 0
          BY <2>1
      <3>2. s \o t # <<>> => 1 \in 1 .. Len(t) /\ (s \o t)[1] = t[1] /\ t # <<>>
          BY <1>1, <3>1
      <3> QED
          BY <3>2 DEF Block
  <2>2. CASE s # <<>>
      <3>1. 1 \in 1 .. Len(s)
          BY <1>1, <2>2
      <3> QED
          BY <1>1, <2>2, <3>1 DEF Block
  <2> QED
      BY <2>1, <2>2
<1>5. ASSUME NEW i \in 1 .. Len(s \o t)
      PROVE  lo <= Rank((s \o t)[i]) /\ Rank((s \o t)[i]) <= to
  <2>1. CASE i <= Len(s)
      <3>1. (s \o t)[i] = s[i] /\ lo <= Rank(s[i]) /\ Rank(s[i]) <= hi
          BY <1>1, <2>1 DEF Block
      <3>2. Rank(s[i]) \in Nat
          BY <1>1, <2>1, RankIsANumber
      <3> QED
          BY <3>1, <3>2
  <2>2. CASE i > Len(s)
      <3>1. i - Len(s) \in 1 .. Len(t) /\ (s \o t)[i] = t[i - Len(s)]
          BY <1>1, <2>2
      <3>2. from <= Rank(t[i - Len(s)]) /\ Rank(t[i - Len(s)]) <= to
          BY <3>1 DEF Block
      <3>3. Rank(t[i - Len(s)]) \in Nat
          BY <1>1, <3>1, RankIsANumber
      <3> QED
          BY <3>1, <3>2, <3>3
  <2> QED
      BY <1>1, <2>1, <2>2
<1> QED
    BY <1>1, <1>2, <1>3, <1>4, <1>5 DEF Block

LEMMA NoBlock == \A inv : \A lo, hi \in Nat : Block(<<>>, inv, lo, hi)
BY DEF Block, Chain, Ordered

LEMMA Conditional ==
    ASSUME NEW inv, NEW lo \in Nat, NEW hi \in Nat, NEW s, Block(s, inv, lo, hi),
           NEW condition
    PROVE  Block(When(condition, s), inv, lo, hi)
BY NoBlock DEF When

LEMMA EvaluationBlock ==
    ASSUME NEW inv, NEW name \in Names, NEW run \in [inv : {inv}, leg : Devices]
    PROVE  /\ name # "comparison" => Block(Evaluation(name, run), inv, 10, 10)
           /\ name = "comparison" =>
                 Block(Evaluation(name, run), inv, Phase(run.leg), Phase(run.leg) + 1)
<1> DEFINE a == OnName("evaluate", name, run)
           b == OnName("snapshot", name, run)
           s == <<a, b>>
<1>1. Evaluation(name, run) = s
    BY DEF Evaluation, OnName
<1>2. a \in StepsOf(inv) /\ b \in StepsOf(inv)
    BY DEF OnName, StepsOf, StepsOfRuns
<1>3. /\ a.op = "evaluate" /\ b.op = "snapshot" /\ Follows(a, b)
      /\ a.name = name /\ b.name = name /\ a.run = run /\ b.run = run
    BY DEF OnName, Follows
<1>4. /\ name # "comparison" => Rank(a) = 10 /\ Rank(b) = 10
      /\ name = "comparison" => Rank(a) = Phase(run.leg) /\ Rank(b) = Phase(run.leg) + 1
      /\ Phase(run.leg) \in Nat
    BY <1>3 DEF Rank, Phase, Position, Devices
<1> HIDE DEF a, b
<1>5. /\ s \in Seq(StepsOf(inv)) /\ Len(s) = 2 /\ s[1] = a /\ s[2] = b
    BY <1>2
<1>6. Chain(s)
    BY <1>3, <1>5 DEF Chain, Openers, Closers
<1>7. Ordered(s)
    BY <1>4, <1>5 DEF Ordered
<1> QED
    BY <1>1, <1>3, <1>4, <1>5, <1>6, <1>7 DEF Block, Openers

LEMMA TrainBlock ==
    ASSUME NEW inv, NEW run \in [inv : {inv}, leg : Devices]
    PROVE  Block(Train(run), inv, 20, 20)
<1> DEFINE a == OnRun("train", run)
           b == OnRun("adopt", run)
           s == <<a, b>>
<1>1. Train(run) = s
    BY DEF Train, OnRun
<1>2. a \in StepsOf(inv) /\ b \in StepsOf(inv)
    BY DEF OnRun, StepsOf, StepsOfRuns
<1>3. a.op = "train" /\ b.op = "adopt" /\ Follows(a, b) /\ Rank(a) = 20 /\ Rank(b) = 20
    BY DEF OnRun, Follows, Rank
<1> HIDE DEF a, b
<1>5. /\ s \in Seq(StepsOf(inv)) /\ Len(s) = 2 /\ s[1] = a /\ s[2] = b
    BY <1>2
<1>6. Chain(s) /\ Ordered(s)
    BY <1>3, <1>5 DEF Chain, Openers, Closers, Ordered
<1> QED
    BY <1>1, <1>3, <1>5, <1>6 DEF Block, Openers

LEMMA DoneBlock ==
    ASSUME NEW inv
    PROVE  Block(<<[op |-> "done"]>>, inv, 700, 700)
<1> DEFINE a == [op |-> "done"]
           s == <<a>>
<1>1. a \in StepsOf(inv) /\ a.op = "done" /\ Rank(a) = 700
    BY DEF StepsOf, Rank
<1> HIDE DEF a
<1>2. s \in Seq(StepsOf(inv)) /\ Len(s) = 1 /\ s[1] = a
    BY <1>1
<1>3. Chain(s) /\ Ordered(s)
    BY <1>1, <1>2 DEF Chain, Openers, Closers, Ordered
<1>4. Block(s, inv, 700, 700)
    BY <1>1, <1>2, <1>3 DEF Block, Openers
<1> QED
    BY <1>4 DEF a

\* The operations of steps 7 and 8 on one folder.
LEMMA ExportOps ==
    LET ops == <<"stage">> \o Export
    IN  /\ Len(ops) = 9 /\ DOMAIN ops = 1 .. 9
        /\ ops[1] = "stage" /\ ops[2] = "recreate" /\ ops[3] = "copy"
        /\ ops[4] = "query" /\ ops[5] = "manifest" /\ ops[6] = "view"
        /\ ops[7] = "clear" /\ ops[8] = "fill" /\ ops[9] = "readme"
BY DEF Export, Refresh

LEMMA HandOps ==
    /\ Len(Export) = 8 /\ DOMAIN Export = 1 .. 8
    /\ Export[1] = "recreate" /\ Export[2] = "copy"
    /\ Export[3] = "query" /\ Export[4] = "manifest" /\ Export[5] = "view"
    /\ Export[6] = "clear" /\ Export[7] = "fill" /\ Export[8] = "readme"
BY DEF Export, Refresh

LEMMA CombineOps ==
    LET ops == <<"combine">> \o Refresh
    IN  /\ Len(ops) = 4 /\ DOMAIN ops = 1 .. 4
        /\ ops[1] = "combine" /\ ops[2] = "clear" /\ ops[3] = "fill" /\ ops[4] = "readme"
BY DEF Refresh

LEMMA StepsOnFolders ==
    ASSUME NEW inv, NEW f \in [inv : {inv}, leg : Devices \cup {"both", "runtimes"}]
    PROVE  /\ \A op \in {"clear", "fill", "readme"} : OnPath(op, f) \in StepsOf(inv)
           /\ f.leg \in Devices =>
                 \A op \in {"stage", "recreate", "copy", "query", "manifest", "view"} :
                    OnPath(op, f) \in StepsOf(inv)
           /\ f.leg \notin Devices => OnPath("combine", f) \in StepsOf(inv)
BY DEF OnPath, StepsOf, StepsOfFolders

LEMMA RankOnFolder ==
    ASSUME NEW f,
           NEW op \in {"stage", "recreate", "copy", "query", "manifest", "view", "clear",
                       "fill", "readme", "combine"}
    PROVE  Rank(OnPath(op, f)) = Phase(f.leg) + Position(op)
BY DEF OnPath, Rank

LEMMA PhaseIsANumber ==
    \A leg \in Devices \cup {"both", "runtimes"} : Phase(leg) \in Nat
BY DEF Phase, Devices

LEMMA ExportBlock ==
    ASSUME NEW inv, NEW f \in [inv : {inv}, leg : Devices]
    PROVE  Block(OnFolder(<<"stage">> \o Export, f), inv, Phase(f.leg) + 2, Phase(f.leg) + 10)
<1> DEFINE ops == <<"stage">> \o Export
           s == OnFolder(ops, f)
<1>1. /\ DOMAIN ops = 1 .. 9
      /\ ops[1] = "stage" /\ ops[2] = "recreate" /\ ops[3] = "copy"
      /\ ops[4] = "query" /\ ops[5] = "manifest" /\ ops[6] = "view"
      /\ ops[7] = "clear" /\ ops[8] = "fill" /\ ops[9] = "readme"
    BY ExportOps
<1> HIDE DEF ops
<1>2. \A i \in 1 .. 9 : OnPath(ops[i], f) \in StepsOf(inv)
    BY <1>1, StepsOnFolders
<1>3. s \in Seq(StepsOf(inv)) /\ Len(s) = 9 /\ \A i \in 1 .. 9 : s[i] = OnPath(ops[i], f)
  <2>1. s = [i \in 1 .. 9 |-> OnPath(ops[i], f)]
      BY <1>1 DEF OnFolder, OnPath
  <2>2. [i \in 1 .. 9 |-> OnPath(ops[i], f)] \in [1 .. 9 -> StepsOf(inv)]
      BY <1>2
  <2> QED
      BY <2>1, <2>2
<1>4. \A i \in 1 .. 9 : Rank(s[i]) = Phase(f.leg) + i + 1
  <2>1. \A i \in 1 .. 9 : Rank(s[i]) = Phase(f.leg) + Position(ops[i])
      BY <1>1, <1>3, RankOnFolder
  <2>2. \A i \in 1 .. 9 : Position(ops[i]) = i + 1
      BY <1>1 DEF Position
  <2> QED
      BY <2>1, <2>2, PhaseIsANumber
<1>5. \A i \in 1 .. 9 : s[i].op = ops[i] /\ s[i].folder = f
    BY <1>3 DEF OnPath
<1>6. \A i \in 1 .. 8 : Follows(s[i], s[i + 1])
    BY <1>1, <1>3, <1>5 DEF Follows
<1> HIDE DEF s
<1>7. Chain(s)
  <2>1. \A i \in 1 .. 9 : s[i].op \notin Closers => i < 9
      BY <1>1, <1>5 DEF Closers
  <2>2. \A i \in 1 .. 9 : s[i].op \notin Closers => Follows(s[i], s[i + 1])
      BY <2>1, <1>6
  <2>3. \A i \in 2 .. 9 : Follows(s[i - 1], s[i])
      <3> SUFFICES ASSUME NEW i \in 2 .. 9 PROVE Follows(s[i - 1], s[i])
          OBVIOUS
      <3>1. i - 1 \in 1 .. 8 /\ (i - 1) + 1 = i
          OBVIOUS
      <3> QED
          BY <3>1, <1>6
  <2> QED
      BY <1>3, <2>1, <2>2, <2>3 DEF Chain
<1>8. Ordered(s)
  <2> SUFFICES ASSUME NEW i \in 1 .. 9, NEW j \in 1 .. 9, i < j
               PROVE  Rank(s[i]) <= Rank(s[j])
      BY <1>3 DEF Ordered
  <2>1. Rank(s[i]) = Phase(f.leg) + i + 1 /\ Rank(s[j]) = Phase(f.leg) + j + 1
      BY <1>4
  <2>2. Phase(f.leg) \in Nat
      BY PhaseIsANumber
  <2> QED
      BY <2>1, <2>2
<1>9. s[1].op \in Openers
    BY <1>1, <1>5 DEF Openers
<1>10. \A i \in 1 .. 9 : Phase(f.leg) + 2 <= Rank(s[i]) /\ Rank(s[i]) <= Phase(f.leg) + 10
    BY <1>4, PhaseIsANumber
<1>11. Block(s, inv, Phase(f.leg) + 2, Phase(f.leg) + 10)
    BY <1>3, <1>7, <1>8, <1>9, <1>10 DEF Block
<1> QED
    BY <1>11 DEF s, ops

LEMMA CombineBlock ==
    ASSUME NEW inv, NEW f \in [inv : {inv}, leg : {"both", "runtimes"}]
    PROVE  Block(Combine(f), inv, Phase(f.leg), Phase(f.leg) + 10)
<1> DEFINE ops == <<"combine">> \o Refresh
           s == OnFolder(ops, f)
<1>1. /\ DOMAIN ops = 1 .. 4
      /\ ops[1] = "combine" /\ ops[2] = "clear" /\ ops[3] = "fill" /\ ops[4] = "readme"
    BY CombineOps
<1> HIDE DEF ops
<1>2. \A i \in 1 .. 4 : OnPath(ops[i], f) \in StepsOf(inv)
    BY <1>1, StepsOnFolders DEF Devices
<1>3. s \in Seq(StepsOf(inv)) /\ Len(s) = 4 /\ \A i \in 1 .. 4 : s[i] = OnPath(ops[i], f)
  <2>1. s = [i \in 1 .. 4 |-> OnPath(ops[i], f)]
      BY <1>1 DEF OnFolder, OnPath
  <2>2. [i \in 1 .. 4 |-> OnPath(ops[i], f)] \in [1 .. 4 -> StepsOf(inv)]
      BY <1>2
  <2> QED
      BY <2>1, <2>2
<1>4. /\ Rank(s[1]) = Phase(f.leg) + 0 /\ Rank(s[2]) = Phase(f.leg) + 8
      /\ Rank(s[3]) = Phase(f.leg) + 9 /\ Rank(s[4]) = Phase(f.leg) + 10
  <2>1. \A i \in 1 .. 4 : Rank(s[i]) = Phase(f.leg) + Position(ops[i])
      BY <1>1, <1>3, RankOnFolder
  <2>2. /\ Position(ops[1]) = 0 /\ Position(ops[2]) = 8
        /\ Position(ops[3]) = 9 /\ Position(ops[4]) = 10
      BY <1>1 DEF Position
  <2> QED
      BY <2>1, <2>2
<1>5. \A i \in 1 .. 4 : s[i].op = ops[i] /\ s[i].folder = f
    BY <1>3 DEF OnPath
<1>6. Follows(s[1], s[2]) /\ Follows(s[2], s[3]) /\ Follows(s[3], s[4])
    BY <1>1, <1>3, <1>5 DEF Follows
<1>7. Phase(f.leg) \in Nat
    BY PhaseIsANumber
<1> HIDE DEF s
<1>8. Chain(s)
    BY <1>1, <1>3, <1>5, <1>6 DEF Chain, Closers
<1>9. Ordered(s)
    BY <1>3, <1>4, <1>7 DEF Ordered
<1>10. s[1].op \in Openers
    BY <1>1, <1>5 DEF Openers
<1>11. \A i \in 1 .. 4 : Phase(f.leg) <= Rank(s[i]) /\ Rank(s[i]) <= Phase(f.leg) + 10
    BY <1>4, <1>7
<1>12. Block(s, inv, Phase(f.leg), Phase(f.leg) + 10)
    BY <1>3, <1>8, <1>9, <1>10, <1>11 DEF Block
<1> QED
    BY <1>12 DEF s, ops, Combine

LEMMA CompareBlock ==
    ASSUME NEW inv, NEW run \in [inv : {inv}, leg : Devices]
    PROVE  Block(CompareAndExport(run), inv, Phase(run.leg), Phase(run.leg) + 10)
<1>1. Phase(run.leg) \in Nat /\ Phase(run.leg) + 1 \in Nat /\ Phase(run.leg) + 2 \in Nat
      /\ Phase(run.leg) + 10 \in Nat
    BY PhaseIsANumber
<1>2. Block(Evaluation("comparison", run), inv, Phase(run.leg), Phase(run.leg) + 1)
    BY EvaluationBlock DEF Names
<1>3. Block(OnFolder(<<"stage">> \o Export, run), inv, Phase(run.leg) + 2, Phase(run.leg) + 10)
    BY ExportBlock
<1> DEFINE s == Evaluation("comparison", run)
           t == OnFolder(<<"stage">> \o Export, run)
<1> HIDE DEF s, t
<1>4. Block(s \o t, inv, Phase(run.leg), Phase(run.leg) + 10)
    BY <1>1, <1>2, <1>3, Concatenation DEF s, t
<1> QED
    BY <1>4 DEF CompareAndExport, s, t

LEMMA StageBlock ==
    ASSUME NEW inv, NEW run \in [inv : {inv}, leg : Devices], NEW s,
           NEW name \in Names \ {"comparison"}, NEW gguf \in Names \ {"comparison"}
    PROVE  Block(Stage(s, name, gguf, run), inv, 10, 10)
<1>1. Block(Evaluation(name, run), inv, 10, 10)
    BY EvaluationBlock
<1>2. Block(When(~ s.skipGguf, Evaluation(gguf, run)), inv, 10, 10)
    BY EvaluationBlock, Conditional
<1>3. Block(Evaluation(name, run) \o When(~ s.skipGguf, Evaluation(gguf, run)), inv, 10, 10)
    BY <1>1, <1>2, Concatenation
<1> QED
    BY <1>3 DEF Stage

\* run_pipeline.sh: a plan follows the ranks, and ends with its banner.
LEMMA PlanBlock ==
    ASSUME NEW s, NEW inv
    PROVE  /\ Block(Plan(s, inv), inv, 10, 700)
           /\ Plan(s, inv) # <<>> /\ Plan(s, inv)[Len(Plan(s, inv))] = [op |-> "done"]
<1> DEFINE cpu == RunId(inv, "cpu")
           cuda == RunId(inv, "cuda")
           b1 == When(OnCpu(s), Stage(s, "baseline", "baseline_gguf", cpu))
           b2 == When(s.cuda, Stage(s, "baseline", "baseline_gguf", cuda))
           b3 == When(OnCpu(s), Stage(s, "rag", "rag_gguf", cpu))
           b4 == When(s.cuda, Stage(s, "rag", "rag_gguf", cuda))
           b5 == When(OnCpu(s) /\ ~ s.skipCpuFinetune, Train(cpu))
           b6 == When(s.cuda, Train(cuda))
           b7 == When(OnCpu(s), CompareAndExport(cpu))
           b8 == When(s.cuda, CompareAndExport(cuda))
           b9 == When(s.cuda /\ OnCpu(s), Combine([inv |-> inv, leg |-> "both"]))
           b10 == When(~ s.skipGguf, Combine([inv |-> inv, leg |-> "runtimes"]))
           b11 == <<[op |-> "done"]>>
           before == (b1 \o b2) \o (b3 \o b4) \o b5 \o b6 \o b7 \o b8 \o b9 \o b10
<1>1. Plan(s, inv) = before \o b11
    BY DEF Plan
<1>2. /\ cpu \in [inv : {inv}, leg : Devices] /\ cuda \in [inv : {inv}, leg : Devices]
      /\ cpu.leg = "cpu" /\ cuda.leg = "cuda"
    BY DEF RunId, Devices
<1>3. /\ Block(b1, inv, 10, 10) /\ Block(b2, inv, 10, 10)
      /\ Block(b3, inv, 10, 10) /\ Block(b4, inv, 10, 10)
  <2>1. {"baseline", "baseline_gguf", "rag", "rag_gguf"} \subseteq Names \ {"comparison"}
      BY DEF Names
  <2>2. /\ Block(Stage(s, "baseline", "baseline_gguf", cpu), inv, 10, 10)
        /\ Block(Stage(s, "baseline", "baseline_gguf", cuda), inv, 10, 10)
        /\ Block(Stage(s, "rag", "rag_gguf", cpu), inv, 10, 10)
        /\ Block(Stage(s, "rag", "rag_gguf", cuda), inv, 10, 10)
      BY <1>2, <2>1, StageBlock
  <2> QED
      BY <2>2, Conditional
<1>4. Block(b5, inv, 20, 20) /\ Block(b6, inv, 20, 20)
    BY <1>2, TrainBlock, Conditional
<1>5. Block(b7, inv, 300, 310)
  <2>1. Block(CompareAndExport(cpu), inv, 300, 310)
      BY <1>2, CompareBlock DEF Phase
  <2> QED
      BY <2>1, Conditional
<1>6. Block(b8, inv, 400, 410)
  <2>1. Block(CompareAndExport(cuda), inv, 400, 410)
      BY <1>2, CompareBlock DEF Phase
  <2> QED
      BY <2>1, Conditional
<1>7. Block(b9, inv, 500, 510)
  <2>1. Block(Combine([inv |-> inv, leg |-> "both"]), inv, 500, 510)
      BY CombineBlock DEF Phase
  <2> QED
      BY <2>1, Conditional
<1>8. Block(b10, inv, 600, 610)
  <2>1. Block(Combine([inv |-> inv, leg |-> "runtimes"]), inv, 600, 610)
      BY CombineBlock DEF Phase
  <2> QED
      BY <2>1, Conditional
<1> HIDE DEF b1, b2, b3, b4, b5, b6, b7, b8, b9, b10
<1>9. Block((b1 \o b2) \o (b3 \o b4), inv, 10, 10)
  <2>1. Block(b1 \o b2, inv, 10, 10) /\ Block(b3 \o b4, inv, 10, 10)
      BY <1>3, Concatenation
  <2> QED
      BY <2>1, Concatenation
<1>10. Block((b1 \o b2) \o (b3 \o b4) \o b5, inv, 10, 20)
    BY <1>9, <1>4, Concatenation
<1>11. Block((b1 \o b2) \o (b3 \o b4) \o b5 \o b6, inv, 10, 20)
    BY <1>10, <1>4, Concatenation
<1>12. Block((b1 \o b2) \o (b3 \o b4) \o b5 \o b6 \o b7, inv, 10, 310)
    BY <1>11, <1>5, Concatenation
<1>13. Block((b1 \o b2) \o (b3 \o b4) \o b5 \o b6 \o b7 \o b8, inv, 10, 410)
    BY <1>12, <1>6, Concatenation
<1>14. Block((b1 \o b2) \o (b3 \o b4) \o b5 \o b6 \o b7 \o b8 \o b9, inv, 10, 510)
    BY <1>13, <1>7, Concatenation
<1>15. Block(before, inv, 10, 610)
    BY <1>14, <1>8, Concatenation
<1> HIDE DEF before
<1>16. Block(before \o b11, inv, 10, 700)
    BY <1>15, DoneBlock, Concatenation
<1>17. before \in Seq(StepsOf(inv)) /\ [op |-> "done"] \in StepsOf(inv)
    BY <1>15 DEF Block, StepsOf
<1>18. before \o b11 # <<>> /\ (before \o b11)[Len(before \o b11)] = [op |-> "done"]
    BY <1>17
<1> QED
    BY <1>1, <1>16, <1>18

(***************************************************************************)
(* What is in a plan, and what has to be in it too.                        *)
(***************************************************************************)
Legs(s) == {d \in Devices : IF d = "cpu" THEN OnCpu(s) ELSE s.cuda}

\* What an invocation with these settings evaluates, and where it trains.
Evaluated(s) ==
    IF s.skipGguf THEN {"baseline", "rag", "comparison"} ELSE Names
Trains(s, d) == d = "cuda" \/ ~ s.skipCpuFinetune

ExportSteps == {"stage", "recreate", "copy", "query", "manifest", "view", "clear",
                "fill", "readme"}

LEMMA ElementsOfBoth ==
    ASSUME NEW S, NEW s \in Seq(S), NEW t \in Seq(S)
    PROVE  Elements(s \o t) = Elements(s) \cup Elements(t)
<1>1. /\ s \o t \in Seq(S) /\ Len(s) \in Nat /\ Len(t) \in Nat
      /\ Len(s \o t) = Len(s) + Len(t)
      /\ \A i \in 1 .. Len(s) : (s \o t)[i] = s[i]
      /\ \A i \in 1 .. Len(t) : (s \o t)[Len(s) + i] = t[i]
      /\ \A i \in Len(s) + 1 .. Len(s) + Len(t) : (s \o t)[i] = t[i - Len(s)]
    OBVIOUS
<1>2. ASSUME NEW x \in Elements(s \o t)
      PROVE  x \in Elements(s) \cup Elements(t)
  <2>1. PICK i \in 1 .. Len(s \o t) : x = (s \o t)[i]
      BY <1>2 DEF Elements
  <2>2. CASE i <= Len(s)
      <3>1. i \in 1 .. Len(s) /\ x = s[i]
          BY <1>1, <2>1, <2>2
      <3> QED
          BY <3>1 DEF Elements
  <2>3. CASE i > Len(s)
      <3>1. i - Len(s) \in 1 .. Len(t) /\ x = t[i - Len(s)]
          BY <1>1, <2>1, <2>3
      <3> QED
          BY <3>1 DEF Elements
  <2>4. Len(s) \in Nat /\ i \in Int
      BY <1>1
  <2> QED
      BY <2>2, <2>3, <2>4
<1>3. ASSUME NEW x \in Elements(s)
      PROVE  x \in Elements(s \o t)
  <2>1. PICK i \in 1 .. Len(s) : x = s[i]
      BY <1>3 DEF Elements
  <2>2. i \in 1 .. Len(s \o t) /\ x = (s \o t)[i]
      BY <1>1, <2>1
  <2> QED
      BY <2>2 DEF Elements
<1>4. ASSUME NEW x \in Elements(t)
      PROVE  x \in Elements(s \o t)
  <2>1. PICK i \in 1 .. Len(t) : x = t[i]
      BY <1>4 DEF Elements
  <2>2. Len(s) + i \in 1 .. Len(s \o t) /\ x = (s \o t)[Len(s) + i]
      BY <1>1, <2>1
  <2> QED
      BY <2>2 DEF Elements
<1> QED
    BY <1>2, <1>3, <1>4

LEMMA ElementsOfWhen ==
    \A c, s : Elements(When(c, s)) = IF c THEN Elements(s) ELSE {}
BY DEF When, Elements

LEMMA ElementsOfPair ==
    \A a, b : Elements(<<a, b>>) = {a, b}
<1> SUFFICES ASSUME NEW a, NEW b PROVE Elements(<<a, b>>) = {a, b}
    OBVIOUS
<1>1. Len(<<a, b>>) = 2 /\ <<a, b>>[1] = a /\ <<a, b>>[2] = b /\ 1 .. 2 = {1, 2}
    OBVIOUS
<1> QED
    BY <1>1 DEF Elements

LEMMA ElementsOfEvaluation ==
    \A name, run : Elements(Evaluation(name, run)) =
                      {OnName("evaluate", name, run), OnName("snapshot", name, run)}
BY ElementsOfPair DEF Evaluation, OnName

LEMMA ElementsOfTrain ==
    \A run : Elements(Train(run)) = {OnRun("train", run), OnRun("adopt", run)}
BY ElementsOfPair DEF Train, OnRun

LEMMA ElementsOfExport ==
    ASSUME NEW f
    PROVE  Elements(OnFolder(<<"stage">> \o Export, f)) = {OnPath(op, f) : op \in ExportSteps}
<1> DEFINE ops == <<"stage">> \o Export
           s == OnFolder(ops, f)
<1>1. /\ DOMAIN ops = 1 .. 9
      /\ ops[1] = "stage" /\ ops[2] = "recreate" /\ ops[3] = "copy"
      /\ ops[4] = "query" /\ ops[5] = "manifest" /\ ops[6] = "view"
      /\ ops[7] = "clear" /\ ops[8] = "fill" /\ ops[9] = "readme"
    BY ExportOps
<1> HIDE DEF ops
<1>2. s = [i \in 1 .. 9 |-> OnPath(ops[i], f)]
    BY <1>1 DEF OnFolder, OnPath
<1>3. Len(s) = 9 /\ \A i \in 1 .. 9 : s[i] = OnPath(ops[i], f)
    BY <1>2
<1> HIDE DEF s
<1>4. Elements(s) = {OnPath(ops[i], f) : i \in 1 .. 9}
    BY <1>3 DEF Elements
<1>5. {ops[i] : i \in 1 .. 9} = ExportSteps
    BY <1>1 DEF ExportSteps
<1>6. {OnPath(ops[i], f) : i \in 1 .. 9} = {OnPath(op, f) : op \in ExportSteps}
    BY <1>5
<1> QED
    BY <1>4, <1>6 DEF s, ops

LEMMA ElementsOfCombine ==
    ASSUME NEW f
    PROVE  Elements(Combine(f)) =
              {OnPath(op, f) : op \in {"combine", "clear", "fill", "readme"}}
<1> DEFINE ops == <<"combine">> \o Refresh
           s == OnFolder(ops, f)
<1>1. /\ DOMAIN ops = 1 .. 4
      /\ ops[1] = "combine" /\ ops[2] = "clear" /\ ops[3] = "fill" /\ ops[4] = "readme"
    BY CombineOps
<1> HIDE DEF ops
<1>2. s = [i \in 1 .. 4 |-> OnPath(ops[i], f)]
    BY <1>1 DEF OnFolder, OnPath
<1>3. Len(s) = 4 /\ \A i \in 1 .. 4 : s[i] = OnPath(ops[i], f)
    BY <1>2
<1> HIDE DEF s
<1>4. Elements(s) = {OnPath(ops[i], f) : i \in 1 .. 4}
    BY <1>3 DEF Elements
<1>5. {ops[i] : i \in 1 .. 4} = {"combine", "clear", "fill", "readme"}
    BY <1>1
<1>6. {OnPath(ops[i], f) : i \in 1 .. 4}
         = {OnPath(op, f) : op \in {"combine", "clear", "fill", "readme"}}
    BY <1>5
<1> QED
    BY <1>4, <1>6 DEF Combine, s, ops

LEMMA ElementsOfStage ==
    ASSUME NEW inv, NEW run \in [inv : {inv}, leg : Devices], NEW s,
           NEW name \in Names, NEW gguf \in Names
    PROVE  Elements(Stage(s, name, gguf, run)) =
              Elements(Evaluation(name, run))
                 \cup IF s.skipGguf THEN {} ELSE Elements(Evaluation(gguf, run))
<1> DEFINE a == Evaluation(name, run)
           b == When(~ s.skipGguf, Evaluation(gguf, run))
<1>1. a \in Seq(StepsOf(inv)) /\ b \in Seq(StepsOf(inv))
  <2>1. Evaluation(name, run) \in Seq(StepsOf(inv)) /\ Evaluation(gguf, run) \in Seq(StepsOf(inv))
      BY EvaluationBlock DEF Block
  <2> QED
      BY <2>1 DEF When
<1>2. Elements(b) = IF s.skipGguf THEN {} ELSE Elements(Evaluation(gguf, run))
    BY ElementsOfWhen
<1> HIDE DEF a, b
<1>3. Elements(a \o b) = Elements(a) \cup Elements(b)
    BY <1>1, ElementsOfBoth
<1> QED
    BY <1>2, <1>3 DEF Stage, a, b

LEMMA ElementsOfCompare ==
    ASSUME NEW inv, NEW run \in [inv : {inv}, leg : Devices]
    PROVE  Elements(CompareAndExport(run)) =
              Elements(Evaluation("comparison", run)) \cup {OnPath(op, run) : op \in ExportSteps}
<1> DEFINE a == Evaluation("comparison", run)
           b == OnFolder(<<"stage">> \o Export, run)
<1>1. a \in Seq(StepsOf(inv)) /\ b \in Seq(StepsOf(inv))
    BY EvaluationBlock, ExportBlock DEF Block, Names
<1>2. Elements(b) = {OnPath(op, run) : op \in ExportSteps}
    BY ElementsOfExport
<1> HIDE DEF a, b
<1>3. Elements(a \o b) = Elements(a) \cup Elements(b)
    BY <1>1, ElementsOfBoth
<1> QED
    BY <1>2, <1>3 DEF CompareAndExport, a, b

LEMMA ElementsOfPlan ==
    ASSUME NEW s, NEW inv
    PROVE  LET cpu == RunId(inv, "cpu")
               cuda == RunId(inv, "cuda")
               If(c, S) == IF c THEN S ELSE {}
           IN  Elements(Plan(s, inv)) =
                    If(OnCpu(s), Elements(Stage(s, "baseline", "baseline_gguf", cpu)))
               \cup If(s.cuda, Elements(Stage(s, "baseline", "baseline_gguf", cuda)))
               \cup If(OnCpu(s), Elements(Stage(s, "rag", "rag_gguf", cpu)))
               \cup If(s.cuda, Elements(Stage(s, "rag", "rag_gguf", cuda)))
               \cup If(OnCpu(s) /\ ~ s.skipCpuFinetune, Elements(Train(cpu)))
               \cup If(s.cuda, Elements(Train(cuda)))
               \cup If(OnCpu(s), Elements(CompareAndExport(cpu)))
               \cup If(s.cuda, Elements(CompareAndExport(cuda)))
               \cup If(s.cuda /\ OnCpu(s), Elements(Combine([inv |-> inv, leg |-> "both"])))
               \cup If(~ s.skipGguf, Elements(Combine([inv |-> inv, leg |-> "runtimes"])))
               \cup {[op |-> "done"]}
<1> DEFINE cpu == RunId(inv, "cpu")
           cuda == RunId(inv, "cuda")
           S == Seq(StepsOf(inv))
           b1 == When(OnCpu(s), Stage(s, "baseline", "baseline_gguf", cpu))
           b2 == When(s.cuda, Stage(s, "baseline", "baseline_gguf", cuda))
           b3 == When(OnCpu(s), Stage(s, "rag", "rag_gguf", cpu))
           b4 == When(s.cuda, Stage(s, "rag", "rag_gguf", cuda))
           b5 == When(OnCpu(s) /\ ~ s.skipCpuFinetune, Train(cpu))
           b6 == When(s.cuda, Train(cuda))
           b7 == When(OnCpu(s), CompareAndExport(cpu))
           b8 == When(s.cuda, CompareAndExport(cuda))
           b9 == When(s.cuda /\ OnCpu(s), Combine([inv |-> inv, leg |-> "both"]))
           b10 == When(~ s.skipGguf, Combine([inv |-> inv, leg |-> "runtimes"]))
           b11 == <<[op |-> "done"]>>
<1>1. Plan(s, inv) = (b1 \o b2) \o (b3 \o b4) \o b5 \o b6 \o b7 \o b8 \o b9 \o b10 \o b11
    BY DEF Plan
<1>2. cpu \in [inv : {inv}, leg : Devices] /\ cuda \in [inv : {inv}, leg : Devices]
    BY DEF RunId, Devices
<1>3. /\ b1 \in S /\ b2 \in S /\ b3 \in S /\ b4 \in S /\ b5 \in S /\ b6 \in S
      /\ b7 \in S /\ b8 \in S /\ b9 \in S /\ b10 \in S /\ b11 \in S
  <2>1. {"baseline", "baseline_gguf", "rag", "rag_gguf"} \subseteq Names \ {"comparison"}
      BY DEF Names
  <2>2. b1 \in S /\ b2 \in S /\ b3 \in S /\ b4 \in S
      BY <1>2, <2>1, StageBlock DEF Block, When
  <2>3. b5 \in S /\ b6 \in S
      BY <1>2, TrainBlock DEF Block, When
  <2>4. b7 \in S /\ b8 \in S
      BY <1>2, CompareBlock DEF Block, When
  <2>5. b9 \in S /\ b10 \in S
      BY CombineBlock DEF Block, When
  <2>6. b11 \in S
      BY DoneBlock DEF Block
  <2> QED
      BY <2>2, <2>3, <2>4, <2>5, <2>6
<1>4. Elements(b11) = {[op |-> "done"]}
  <2>1. Len(b11) = 1 /\ b11[1] = [op |-> "done"] /\ 1 .. 1 = {1}
      OBVIOUS
  <2> HIDE DEF b11
  <2> QED
      BY <2>1 DEF Elements
<1>5. /\ Elements(b1) = IF OnCpu(s) THEN Elements(Stage(s, "baseline", "baseline_gguf", cpu)) ELSE {}
      /\ Elements(b2) = IF s.cuda THEN Elements(Stage(s, "baseline", "baseline_gguf", cuda)) ELSE {}
      /\ Elements(b3) = IF OnCpu(s) THEN Elements(Stage(s, "rag", "rag_gguf", cpu)) ELSE {}
      /\ Elements(b4) = IF s.cuda THEN Elements(Stage(s, "rag", "rag_gguf", cuda)) ELSE {}
      /\ Elements(b5) = IF OnCpu(s) /\ ~ s.skipCpuFinetune THEN Elements(Train(cpu)) ELSE {}
      /\ Elements(b6) = IF s.cuda THEN Elements(Train(cuda)) ELSE {}
      /\ Elements(b7) = IF OnCpu(s) THEN Elements(CompareAndExport(cpu)) ELSE {}
      /\ Elements(b8) = IF s.cuda THEN Elements(CompareAndExport(cuda)) ELSE {}
      /\ Elements(b9) = IF s.cuda /\ OnCpu(s)
                        THEN Elements(Combine([inv |-> inv, leg |-> "both"])) ELSE {}
      /\ Elements(b10) = IF ~ s.skipGguf
                         THEN Elements(Combine([inv |-> inv, leg |-> "runtimes"])) ELSE {}
    BY ElementsOfWhen, Zenon
<1> HIDE DEF b1, b2, b3, b4, b5, b6, b7, b8, b9, b10, b11
<1>6. Elements(Plan(s, inv)) = Elements(b1) \cup Elements(b2) \cup Elements(b3) \cup Elements(b4)
         \cup Elements(b5) \cup Elements(b6) \cup Elements(b7) \cup Elements(b8)
         \cup Elements(b9) \cup Elements(b10) \cup Elements(b11)
  <2> DEFINE c2 == b1 \o b2
             c3 == b3 \o b4
             c4 == c2 \o c3
             c5 == c4 \o b5
             c6 == c5 \o b6
             c7 == c6 \o b7
             c8 == c7 \o b8
             c9 == c8 \o b9
             c10 == c9 \o b10
  <2>1. /\ c2 \in S /\ Elements(c2) = Elements(b1) \cup Elements(b2)
        /\ c3 \in S /\ Elements(c3) = Elements(b3) \cup Elements(b4)
      BY <1>3, ElementsOfBoth
  <2> HIDE DEF c2, c3
  <2>2. c4 \in S /\ Elements(c4) = Elements(c2) \cup Elements(c3)
      BY <2>1, ElementsOfBoth
  <2> HIDE DEF c4
  <2>3. c5 \in S /\ Elements(c5) = Elements(c4) \cup Elements(b5)
      BY <1>3, <2>2, ElementsOfBoth
  <2> HIDE DEF c5
  <2>4. c6 \in S /\ Elements(c6) = Elements(c5) \cup Elements(b6)
      BY <1>3, <2>3, ElementsOfBoth
  <2> HIDE DEF c6
  <2>5. c7 \in S /\ Elements(c7) = Elements(c6) \cup Elements(b7)
      BY <1>3, <2>4, ElementsOfBoth
  <2> HIDE DEF c7
  <2>6. c8 \in S /\ Elements(c8) = Elements(c7) \cup Elements(b8)
      BY <1>3, <2>5, ElementsOfBoth
  <2> HIDE DEF c8
  <2>7. c9 \in S /\ Elements(c9) = Elements(c8) \cup Elements(b9)
      BY <1>3, <2>6, ElementsOfBoth
  <2> HIDE DEF c9
  <2>8. c10 \in S /\ Elements(c10) = Elements(c9) \cup Elements(b10)
      BY <1>3, <2>7, ElementsOfBoth
  <2> HIDE DEF c10
  <2>9. Elements(c10 \o b11) = Elements(c10) \cup Elements(b11)
      BY <1>3, <2>8, ElementsOfBoth
  <2>10. Plan(s, inv) = c10 \o b11
      BY <1>1 DEF c2, c3, c4, c5, c6, c7, c8, c9, c10
  <2> QED
      BY <2>1, <2>2, <2>3, <2>4, <2>5, <2>6, <2>7, <2>8, <2>9, <2>10
<1> QED
    BY <1>4, <1>5, <1>6

LEMMA TwoLegs ==
    \A s : /\ "cpu" \in Legs(s) <=> OnCpu(s)
           /\ "cuda" \in Legs(s) <=> s.cuda
           /\ Legs(s) \subseteq {"cpu", "cuda"}
           /\ Legs(s) # {}
BY DEF Legs, Devices, OnCpu

LEMMA RunIdType ==
    \A inv : \A d \in Devices : RunId(inv, d) \in [inv : {inv}, leg : Devices]
                                /\ RunId(inv, d).inv = inv /\ RunId(inv, d).leg = d
BY DEF RunId

LEMMA StageNames ==
    /\ {"baseline", "rag"} \cup {"comparison"} = {"baseline", "rag", "comparison"}
    /\ Names = {"baseline", "baseline_gguf", "rag", "rag_gguf", "comparison"}
    /\ \A s : /\ s.skipGguf => Evaluated(s) = {"baseline", "rag", "comparison"}
              /\ ~ s.skipGguf => Evaluated(s) = Names
BY DEF Names, Evaluated

\* The parts of a plan, one leg at a time.
LEMMA PlanParts ==
    ASSUME NEW s, NEW inv
    PROVE  LET Part(S) == S \subseteq Elements(Plan(s, inv))
               cpu == RunId(inv, "cpu")
               cuda == RunId(inv, "cuda")
           IN  /\ OnCpu(s) => /\ Part(Elements(Stage(s, "baseline", "baseline_gguf", cpu)))
                              /\ Part(Elements(Stage(s, "rag", "rag_gguf", cpu)))
                              /\ Part(Elements(CompareAndExport(cpu)))
                              /\ ~ s.skipCpuFinetune => Part(Elements(Train(cpu)))
               /\ s.cuda => /\ Part(Elements(Stage(s, "baseline", "baseline_gguf", cuda)))
                            /\ Part(Elements(Stage(s, "rag", "rag_gguf", cuda)))
                            /\ Part(Elements(Train(cuda)))
                            /\ Part(Elements(CompareAndExport(cuda)))
<1> DEFINE P == Elements(Plan(s, inv))
<1>1. OnCpu(s) => Elements(Stage(s, "baseline", "baseline_gguf", RunId(inv, "cpu"))) \subseteq P
    BY ElementsOfPlan
<1>2. OnCpu(s) => Elements(Stage(s, "rag", "rag_gguf", RunId(inv, "cpu"))) \subseteq P
    BY ElementsOfPlan
<1>3. OnCpu(s) => Elements(CompareAndExport(RunId(inv, "cpu"))) \subseteq P
    BY ElementsOfPlan
<1>4. OnCpu(s) /\ ~ s.skipCpuFinetune => Elements(Train(RunId(inv, "cpu"))) \subseteq P
    BY ElementsOfPlan
<1>5. s.cuda => Elements(Stage(s, "baseline", "baseline_gguf", RunId(inv, "cuda"))) \subseteq P
    BY ElementsOfPlan
<1>6. s.cuda => Elements(Stage(s, "rag", "rag_gguf", RunId(inv, "cuda"))) \subseteq P
    BY ElementsOfPlan
<1>7. s.cuda => Elements(Train(RunId(inv, "cuda"))) \subseteq P
    BY ElementsOfPlan
<1>8. s.cuda => Elements(CompareAndExport(RunId(inv, "cuda"))) \subseteq P
    BY ElementsOfPlan
<1> HIDE DEF P
<1> QED
    BY <1>1, <1>2, <1>3, <1>4, <1>5, <1>6, <1>7, <1>8 DEF P

\* Steps 2, 4 and 6 evaluate everything, on every leg.
LEMMA PlanEvaluates ==
    ASSUME NEW s, NEW inv, NEW d \in Legs(s), NEW n \in Evaluated(s)
    PROVE  /\ OnName("evaluate", n, RunId(inv, d)) \in Elements(Plan(s, inv))
           /\ OnName("snapshot", n, RunId(inv, d)) \in Elements(Plan(s, inv))
<1> DEFINE run == RunId(inv, d)
<1>1. run \in [inv : {inv}, leg : Devices] /\ d \in Devices
    BY RunIdType, TwoLegs DEF Legs
<1>2. Elements(Evaluation(n, run)) = {OnName("evaluate", n, run), OnName("snapshot", n, run)}
    BY ElementsOfEvaluation
<1>3. CASE n = "comparison"
  <2>1. Elements(Evaluation(n, run)) \subseteq Elements(CompareAndExport(run))
      BY <1>1, <1>3, ElementsOfCompare
  <2>2. Elements(CompareAndExport(run)) \subseteq Elements(Plan(s, inv))
    <3>1. CASE d = "cpu"
        BY <3>1, TwoLegs, PlanParts
    <3>2. CASE d = "cuda"
        BY <3>2, TwoLegs, PlanParts
    <3> QED
        BY <1>1, <3>1, <3>2 DEF Devices
  <2> QED
      BY <1>2, <2>1, <2>2
<1>4. ASSUME NEW name \in {"baseline", "rag"}, NEW gguf \in {"baseline_gguf", "rag_gguf"},
             name = "baseline" <=> gguf = "baseline_gguf", n \in {name, gguf}
      PROVE  Elements(Evaluation(n, run)) \subseteq Elements(Plan(s, inv))
  <2>1. n = gguf => ~ s.skipGguf
      BY StageNames, <1>4
  <2>2. Elements(Evaluation(n, run)) \subseteq Elements(Stage(s, name, gguf, run))
    <3>1. Elements(Stage(s, name, gguf, run)) =
             Elements(Evaluation(name, run))
                \cup IF s.skipGguf THEN {} ELSE Elements(Evaluation(gguf, run))
        BY <1>1, StageNames, ElementsOfStage
    <3> QED
        BY <1>4, <2>1, <3>1
  <2>3. Elements(Stage(s, name, gguf, run)) \subseteq Elements(Plan(s, inv))
    <3>1. CASE d = "cpu" /\ name = "baseline"
        BY <1>4, <3>1, TwoLegs, PlanParts
    <3>2. CASE d = "cpu" /\ name = "rag"
        BY <1>4, <3>2, TwoLegs, PlanParts
    <3>3. CASE d = "cuda" /\ name = "baseline"
        BY <1>4, <3>3, TwoLegs, PlanParts
    <3>4. CASE d = "cuda" /\ name = "rag"
        BY <1>4, <3>4, TwoLegs, PlanParts
    <3> QED
        BY <1>1, <3>1, <3>2, <3>3, <3>4 DEF Devices
  <2> QED
      BY <2>2, <2>3
<1>5. CASE n \in {"baseline", "baseline_gguf"}
    BY <1>2, <1>4, <1>5
<1>6. CASE n \in {"rag", "rag_gguf"}
    BY <1>2, <1>4, <1>6
<1> QED
    BY <1>3, <1>5, <1>6, StageNames DEF Evaluated

\* Step 5 trains on the legs it is not switched off on.
LEMMA PlanTrains ==
    ASSUME NEW s, NEW inv, NEW d \in Legs(s), Trains(s, d)
    PROVE  OnRun("adopt", RunId(inv, d)) \in Elements(Plan(s, inv))
<1>1. d \in {"cpu", "cuda"}
    BY TwoLegs
<1>2. OnRun("adopt", RunId(inv, d)) \in Elements(Train(RunId(inv, d)))
    BY ElementsOfTrain
<1>3. CASE d = "cpu"
  <2>1. OnCpu(s) /\ ~ s.skipCpuFinetune
      BY <1>3, TwoLegs DEF Trains
  <2> QED
      BY <1>2, <1>3, <2>1, PlanParts
<1>4. CASE d = "cuda"
  <2>1. s.cuda
      BY <1>4, TwoLegs
  <2> QED
      BY <1>2, <1>4, <2>1, PlanParts
<1> QED
    BY <1>1, <1>3, <1>4

\* Step 7 exports every leg.
LEMMA PlanExports ==
    ASSUME NEW s, NEW inv, NEW d \in Legs(s), NEW op \in ExportSteps
    PROVE  OnPath(op, RunId(inv, d)) \in Elements(Plan(s, inv))
<1>1. d \in {"cpu", "cuda"} /\ d \in Devices
    BY TwoLegs DEF Legs
<1>2. OnPath(op, RunId(inv, d)) \in Elements(CompareAndExport(RunId(inv, d)))
    BY <1>1, RunIdType, ElementsOfCompare
<1>3. CASE d = "cpu"
    BY <1>2, <1>3, TwoLegs, PlanParts
<1>4. CASE d = "cuda"
    BY <1>2, <1>4, TwoLegs, PlanParts
<1> QED
    BY <1>1, <1>3, <1>4

\* Nothing else is in a plan.
LEMMA PlanIsOfItsLegs ==
    ASSUME NEW s, NEW inv, NEW st \in Elements(Plan(s, inv))
    PROVE  \/ \E d \in Legs(s), n \in Names, op \in {"evaluate", "snapshot"} :
                 st = OnName(op, n, RunId(inv, d))
           \/ \E d \in Legs(s), op \in {"train", "adopt"} : st = OnRun(op, RunId(inv, d))
           \/ \E d \in Legs(s), op \in ExportSteps : st = OnPath(op, RunId(inv, d))
           \/ \E op \in {"combine", "clear", "fill", "readme"} :
                 \/ s.cuda /\ OnCpu(s) /\ st = OnPath(op, [inv |-> inv, leg |-> "both"])
                 \/ st = OnPath(op, [inv |-> inv, leg |-> "runtimes"])
           \/ st = [op |-> "done"]
<1> DEFINE cpu == RunId(inv, "cpu")
           cuda == RunId(inv, "cuda")
           Evaluates(d) == \E n \in Names, op \in {"evaluate", "snapshot"} :
                              st = OnName(op, n, RunId(inv, d))
<1>1. cpu \in [inv : {inv}, leg : Devices] /\ cuda \in [inv : {inv}, leg : Devices]
    BY RunIdType DEF Devices
<1>2. \/ OnCpu(s) /\ st \in Elements(Stage(s, "baseline", "baseline_gguf", cpu))
      \/ s.cuda /\ st \in Elements(Stage(s, "baseline", "baseline_gguf", cuda))
      \/ OnCpu(s) /\ st \in Elements(Stage(s, "rag", "rag_gguf", cpu))
      \/ s.cuda /\ st \in Elements(Stage(s, "rag", "rag_gguf", cuda))
      \/ OnCpu(s) /\ st \in Elements(Train(cpu))
      \/ s.cuda /\ st \in Elements(Train(cuda))
      \/ OnCpu(s) /\ st \in Elements(CompareAndExport(cpu))
      \/ s.cuda /\ st \in Elements(CompareAndExport(cuda))
      \/ s.cuda /\ OnCpu(s) /\ st \in Elements(Combine([inv |-> inv, leg |-> "both"]))
      \/ st \in Elements(Combine([inv |-> inv, leg |-> "runtimes"]))
      \/ st = [op |-> "done"]
    BY ElementsOfPlan
<1>3. ASSUME NEW d \in Devices, NEW name \in Names, NEW gguf \in Names,
             st \in Elements(Stage(s, name, gguf, RunId(inv, d)))
      PROVE  Evaluates(d)
  <2>1. RunId(inv, d) \in [inv : {inv}, leg : Devices]
      BY RunIdType
  <2>2. st \in Elements(Evaluation(name, RunId(inv, d))) \cup Elements(Evaluation(gguf, RunId(inv, d)))
      BY <1>3, <2>1, ElementsOfStage
  <2> QED
      BY <2>2, ElementsOfEvaluation
<1>4. ASSUME NEW d \in Devices, st \in Elements(Train(RunId(inv, d)))
      PROVE  \E op \in {"train", "adopt"} : st = OnRun(op, RunId(inv, d))
    BY <1>4, ElementsOfTrain
<1>5. ASSUME NEW d \in Devices, st \in Elements(CompareAndExport(RunId(inv, d)))
      PROVE  Evaluates(d) \/ \E op \in ExportSteps : st = OnPath(op, RunId(inv, d))
  <2>1. RunId(inv, d) \in [inv : {inv}, leg : Devices]
      BY RunIdType
  <2>2. \/ st \in Elements(Evaluation("comparison", RunId(inv, d)))
        \/ st \in {OnPath(op, RunId(inv, d)) : op \in ExportSteps}
      BY <1>5, <2>1, ElementsOfCompare
  <2> QED
      BY <2>2, ElementsOfEvaluation, StageNames
<1>6. /\ "cpu" \in Devices /\ "cuda" \in Devices /\ "baseline" \in Names /\ "rag" \in Names
      /\ "baseline_gguf" \in Names /\ "rag_gguf" \in Names
    BY DEF Devices, Names
<1>7. \/ OnCpu(s) /\ Evaluates("cpu")
      \/ s.cuda /\ Evaluates("cuda")
      \/ OnCpu(s) /\ \E op \in {"train", "adopt"} : st = OnRun(op, cpu)
      \/ s.cuda /\ \E op \in {"train", "adopt"} : st = OnRun(op, cuda)
      \/ OnCpu(s) /\ \E op \in ExportSteps : st = OnPath(op, cpu)
      \/ s.cuda /\ \E op \in ExportSteps : st = OnPath(op, cuda)
      \/ \E op \in {"combine", "clear", "fill", "readme"} :
            \/ s.cuda /\ OnCpu(s) /\ st = OnPath(op, [inv |-> inv, leg |-> "both"])
            \/ st = OnPath(op, [inv |-> inv, leg |-> "runtimes"])
      \/ st = [op |-> "done"]
  <2> HIDE DEF Evaluates
  <2>1. /\ st \in Elements(Combine([inv |-> inv, leg |-> "both"])) =>
              \E op \in {"combine", "clear", "fill", "readme"} :
                 st = OnPath(op, [inv |-> inv, leg |-> "both"])
        /\ st \in Elements(Combine([inv |-> inv, leg |-> "runtimes"])) =>
              \E op \in {"combine", "clear", "fill", "readme"} :
                 st = OnPath(op, [inv |-> inv, leg |-> "runtimes"])
      BY ElementsOfCombine
  <2>2. /\ st \in Elements(Stage(s, "baseline", "baseline_gguf", cpu)) => Evaluates("cpu")
        /\ st \in Elements(Stage(s, "baseline", "baseline_gguf", cuda)) => Evaluates("cuda")
        /\ st \in Elements(Stage(s, "rag", "rag_gguf", cpu)) => Evaluates("cpu")
        /\ st \in Elements(Stage(s, "rag", "rag_gguf", cuda)) => Evaluates("cuda")
      BY <1>3, <1>6
  <2>3. /\ st \in Elements(Train(cpu)) => \E op \in {"train", "adopt"} : st = OnRun(op, cpu)
        /\ st \in Elements(Train(cuda)) => \E op \in {"train", "adopt"} : st = OnRun(op, cuda)
      BY <1>4, <1>6
  <2>4. /\ st \in Elements(CompareAndExport(cpu)) =>
              Evaluates("cpu") \/ \E op \in ExportSteps : st = OnPath(op, cpu)
        /\ st \in Elements(CompareAndExport(cuda)) =>
              Evaluates("cuda") \/ \E op \in ExportSteps : st = OnPath(op, cuda)
      BY <1>5, <1>6
  <2> QED
      BY <1>2, <2>1, <2>2, <2>3, <2>4, Zenon
<1> QED
    BY <1>7, TwoLegs, Zenon

(***************************************************************************)
(* The first step of what is left of a plan, and the rest of it.           *)
(***************************************************************************)
LEMMA HeadAndTail ==
    ASSUME NEW S, NEW s \in Seq(S), s # <<>>
    PROVE  /\ Head(s) \in S /\ Tail(s) \in Seq(S)
           /\ Elements(s) = {Head(s)} \cup Elements(Tail(s))
           /\ Tail(s) # <<>> => Tail(s)[Len(Tail(s))] = s[Len(s)]
           /\ Tail(s) = <<>> => Head(s) = s[Len(s)]
<1>1. /\ Len(s) \in Nat /\ Len(s) >= 1 /\ Head(s) = s[1] /\ Len(Tail(s)) = Len(s) - 1
      /\ \A i \in 1 .. Len(s) - 1 : Tail(s)[i] = s[i + 1]
      /\ Head(s) \in S /\ Tail(s) \in Seq(S)
    OBVIOUS
<1>2. ASSUME NEW x \in Elements(s)
      PROVE  x \in {Head(s)} \cup Elements(Tail(s))
  <2>1. PICK i \in 1 .. Len(s) : x = s[i]
      BY <1>2 DEF Elements
  <2>2. CASE i > 1
      <3>1. i - 1 \in 1 .. Len(Tail(s)) /\ x = Tail(s)[i - 1]
          BY <1>1, <2>1, <2>2
      <3> QED
          BY <3>1 DEF Elements
  <2> QED
      BY <1>1, <2>1, <2>2
<1>3. ASSUME NEW x \in Elements(Tail(s))
      PROVE  x \in Elements(s)
  <2>1. PICK i \in 1 .. Len(Tail(s)) : x = Tail(s)[i]
      BY <1>3 DEF Elements
  <2>2. i + 1 \in 1 .. Len(s) /\ x = s[i + 1]
      BY <1>1, <2>1
  <2> QED
      BY <2>2 DEF Elements
<1>4. Head(s) \in Elements(s)
    BY <1>1 DEF Elements
<1>5. Tail(s) # <<>> => Tail(s)[Len(Tail(s))] = s[Len(s)]
  <2>1. Tail(s) # <<>> => Len(s) - 1 \in 1 .. Len(s) - 1 /\ Len(s) - 1 + 1 = Len(s)
      BY <1>1
  <2> QED
      BY <1>1, <2>1
<1>6. Tail(s) = <<>> => Head(s) = s[Len(s)]
    BY <1>1
<1> QED
    BY <1>1, <1>2, <1>3, <1>4, <1>5, <1>6

LEMMA ChainOfTail ==
    ASSUME NEW S, NEW s \in Seq(S), s # <<>>, Chain(s)
    PROVE  /\ Chain(Tail(s))
           /\ Head(s).op \notin Closers => Tail(s) # <<>> /\ Follows(Head(s), Head(Tail(s)))
           /\ Tail(s) # <<>> /\ Head(Tail(s)).op \notin Openers =>
                 Follows(Head(s), Head(Tail(s)))
<1>1. /\ Len(s) \in Nat /\ Len(s) >= 1 /\ Head(s) = s[1] /\ Len(Tail(s)) = Len(s) - 1
      /\ \A i \in 1 .. Len(s) - 1 : Tail(s)[i] = s[i + 1]
      /\ Tail(s) # <<>> <=> Len(s) > 1
      /\ Len(s) > 1 => Head(Tail(s)) = s[2]
  <2>1. /\ Len(s) \in Nat /\ Len(s) >= 1 /\ Head(s) = s[1] /\ Len(Tail(s)) = Len(s) - 1
        /\ \A i \in 1 .. Len(s) - 1 : Tail(s)[i] = s[i + 1]
        /\ Tail(s) \in Seq(S)
      OBVIOUS
  <2>2. Tail(s) # <<>> <=> Len(s) > 1
      <3> DEFINE t == Tail(s)
      <3>1. t \in Seq(S) /\ Len(t) = Len(s) - 1
          BY <2>1
      <3> HIDE DEF t
      <3>2. t # <<>> <=> Len(t) > 0
          BY <3>1
      <3> QED
          BY <2>1, <3>1, <3>2 DEF t
  <2>3. Len(s) > 1 => Head(Tail(s)) = s[2]
      BY <2>1
  <2> QED
      BY <2>1, <2>2, <2>3
<1>2. Chain(Tail(s))
  <2>1. ASSUME NEW i \in 1 .. Len(Tail(s)), Tail(s)[i].op \notin Closers
        PROVE  i < Len(Tail(s)) /\ Follows(Tail(s)[i], Tail(s)[i + 1])
      <3>1. i + 1 \in 1 .. Len(s) /\ Tail(s)[i] = s[i + 1]
          BY <1>1
      <3>2. i + 1 < Len(s) /\ Follows(s[i + 1], s[i + 1 + 1])
          BY <2>1, <3>1 DEF Chain
      <3>3. i < Len(Tail(s)) /\ Tail(s)[i + 1] = s[i + 1 + 1]
          BY <1>1, <3>2
      <3> QED
          BY <3>1, <3>2, <3>3
  <2>2. ASSUME NEW i \in 2 .. Len(Tail(s)), Tail(s)[i].op \notin Openers
        PROVE  Follows(Tail(s)[i - 1], Tail(s)[i])
      <3>1. /\ i + 1 \in 2 .. Len(s) /\ Tail(s)[i] = s[i + 1]
            /\ Tail(s)[i - 1] = s[i] /\ i + 1 - 1 = i
          BY <1>1
      <3>2. Follows(s[i + 1 - 1], s[i + 1])
          BY <2>2, <3>1 DEF Chain
      <3> QED
          BY <3>1, <3>2
  <2> QED
      BY <2>1, <2>2 DEF Chain
<1>3. Head(s).op \notin Closers => Len(s) > 1 /\ Follows(s[1], s[1 + 1])
    BY <1>1 DEF Chain
<1>4. Len(s) > 1 /\ s[2].op \notin Openers => Follows(s[2 - 1], s[2])
    BY <1>1 DEF Chain
<1> QED
    BY <1>1, <1>2, <1>3, <1>4

LEMMA OrderOfTail ==
    ASSUME NEW S, NEW s \in Seq(S), s # <<>>, Ordered(s)
    PROVE  /\ Ordered(Tail(s))
           /\ \A x \in Elements(Tail(s)) : Rank(Head(s)) <= Rank(x)
<1>1. /\ Len(s) \in Nat /\ Len(s) >= 1 /\ Head(s) = s[1] /\ Len(Tail(s)) = Len(s) - 1
      /\ \A i \in 1 .. Len(s) - 1 : Tail(s)[i] = s[i + 1]
    OBVIOUS
<1>2. ASSUME NEW i \in 1 .. Len(Tail(s)), NEW j \in 1 .. Len(Tail(s)), i < j
      PROVE  Rank(Tail(s)[i]) <= Rank(Tail(s)[j])
  <2>1. /\ i + 1 \in 1 .. Len(s) /\ j + 1 \in 1 .. Len(s) /\ i + 1 < j + 1
        /\ Tail(s)[i] = s[i + 1] /\ Tail(s)[j] = s[j + 1]
      BY <1>1, <1>2
  <2>2. Rank(s[i + 1]) <= Rank(s[j + 1])
      BY <2>1 DEF Ordered
  <2> QED
      BY <2>1, <2>2
<1>3. ASSUME NEW x \in Elements(Tail(s))
      PROVE  Rank(Head(s)) <= Rank(x)
  <2>1. PICK i \in 1 .. Len(Tail(s)) : x = Tail(s)[i]
      BY <1>3 DEF Elements
  <2>2. 1 \in 1 .. Len(s) /\ i + 1 \in 1 .. Len(s) /\ 1 < i + 1 /\ x = s[i + 1]
      BY <1>1, <2>1
  <2> QED
      BY <1>1, <2>2 DEF Ordered
<1> QED
    BY <1>2, <1>3 DEF Ordered

(***************************************************************************)
(* Type correctness, whatever is exported by hand.                         *)
(***************************************************************************)
AllSteps == (UNION {StepsOf(inv) : inv \in Invocations})
               \cup {OnPath(op, Stamped) : op \in ExportSteps \ {"stage"}}

TodoType ==
    /\ todo \in Seq(AllSteps)
    /\ Chain(todo)
    /\ todo # <<>> /\ Head(todo).op \in {"manifest", "view", "clear", "fill", "readme"} =>
          Head(todo).folder # Stamped

TypeInv == TypeOK /\ TodoType

LEMMA RunIdsAreFolders ==
    /\ RunIds \subseteq Folders
    /\ Stamped \notin Folders
    /\ \A inv \in Invocations : [inv : {inv}, leg : Devices] \subseteq RunIds
    /\ \A inv \in Invocations :
          [inv : {inv}, leg : Devices \cup {"both", "runtimes"}] \subseteq Folders
    /\ \A inv \in Invocations :
          [inv : {inv}, leg : {"both", "runtimes"}] \subseteq Folders \ RunIds
BY DEF RunIds, Folders, Stamped, Devices, Invocations

LEMMA StepTypes ==
    ASSUME NEW st \in AllSteps
    PROVE  /\ st.op \in {"evaluate", "snapshot"} => st.name \in Names /\ st.run \in RunIds
           /\ st.op \in {"train", "adopt"} => st.run \in RunIds
           /\ st.op = "stage" => st.folder \in RunIds
           /\ st.op \in {"recreate", "copy", "query", "manifest", "view"} =>
                 st.folder \in RunIds \cup {Stamped}
           /\ st.op \in {"clear", "fill", "readme"} => st.folder \in Folders \cup {Stamped}
           /\ st.op = "combine" => st.folder \in Folders \ RunIds
           /\ st.op \in {"evaluate", "snapshot", "train", "adopt", "combine", "done"}
                           \cup ExportSteps
<1>1. CASE \E op \in ExportSteps \ {"stage"} : st = OnPath(op, Stamped)
    BY <1>1 DEF OnPath, ExportSteps
<1>2. ASSUME NEW inv \in Invocations, st \in StepsOf(inv)
      PROVE  /\ st.op \in {"evaluate", "snapshot"} => st.name \in Names /\ st.run \in RunIds
             /\ st.op \in {"train", "adopt"} => st.run \in RunIds
             /\ st.op \in {"stage", "recreate", "copy", "query", "manifest", "view"} =>
                   st.folder \in RunIds
             /\ st.op \in {"clear", "fill", "readme"} => st.folder \in Folders
             /\ st.op = "combine" => st.folder \in Folders \ RunIds
             /\ st.op \in {"evaluate", "snapshot", "train", "adopt", "combine", "done"}
                             \cup ExportSteps
  <2>1. CASE st \in StepsOfRuns(inv)
      BY <2>1, RunIdsAreFolders DEF StepsOfRuns
  <2>2. CASE st \in StepsOfFolders(inv)
      BY <2>2, RunIdsAreFolders DEF StepsOfFolders, ExportSteps
  <2>3. CASE st = [op |-> "done"]
      BY <2>3
  <2> QED
      BY <1>2, <2>1, <2>2, <2>3 DEF StepsOf
<1> QED
  <2>1. \/ \E op \in ExportSteps \ {"stage"} : st = OnPath(op, Stamped)
        \/ \E inv \in Invocations : st \in StepsOf(inv)
      BY DEF AllSteps
  <2> QED
      BY <1>1, <1>2, <2>1, Zenon

\* Step 07 started by hand is one export.
LEMMA HandPlan ==
    ASSUME NEW id, NEW S, \A op \in ExportSteps \ {"stage"} : OnPath(op, id) \in S
    PROVE  LET s == OnFolder(Export, id)
           IN  /\ s \in Seq(S) /\ s # <<>> /\ Chain(s)
               /\ Head(s) = OnPath("recreate", id) /\ s[Len(s)] = OnPath("readme", id)
<1> DEFINE s == OnFolder(Export, id)
<1>1. s = [i \in 1 .. 8 |-> OnPath(Export[i], id)]
    BY HandOps DEF OnFolder, OnPath
<1>2. \A i \in 1 .. 8 : OnPath(Export[i], id) \in S
    BY HandOps DEF ExportSteps
<1>3. s \in Seq(S) /\ Len(s) = 8 /\ \A i \in 1 .. 8 : s[i] = OnPath(Export[i], id)
  <2>1. [i \in 1 .. 8 |-> OnPath(Export[i], id)] \in [1 .. 8 -> S]
      BY <1>2
  <2> QED
      BY <1>1, <2>1
<1>4. \A i \in 1 .. 8 : s[i].op = Export[i] /\ s[i].folder = id
    BY <1>3 DEF OnPath
<1>5. \A i \in 1 .. 7 : Follows(s[i], s[i + 1])
    BY HandOps, <1>3, <1>4 DEF Follows
<1> HIDE DEF s
<1>6. Chain(s)
  <2>1. \A i \in 1 .. 8 : s[i].op \notin Closers => i < 8
      BY HandOps, <1>4 DEF Closers
  <2>2. \A i \in 1 .. 8 : s[i].op \notin Closers => Follows(s[i], s[i + 1])
      BY <2>1, <1>5
  <2>3. \A i \in 2 .. 8 : Follows(s[i - 1], s[i])
      <3> SUFFICES ASSUME NEW i \in 2 .. 8 PROVE Follows(s[i - 1], s[i])
          OBVIOUS
      <3>1. i - 1 \in 1 .. 7 /\ (i - 1) + 1 = i
          OBVIOUS
      <3> QED
          BY <3>1, <1>5
  <2> QED
      BY <1>3, <2>1, <2>2, <2>3 DEF Chain
<1>7. Head(s) = OnPath("recreate", id) /\ s[Len(s)] = OnPath("readme", id) /\ s # <<>>
    BY HandOps, <1>3
<1> QED
    BY <1>3, <1>6, <1>7 DEF s

LEMMA PlanIsTyped ==
    ASSUME NEW s, NEW inv \in Invocations
    PROVE  /\ Plan(s, inv) \in Seq(AllSteps) /\ Chain(Plan(s, inv))
           /\ Plan(s, inv) # <<>> /\ Head(Plan(s, inv)).op \in Openers
<1>1. Plan(s, inv) \in Seq(StepsOf(inv)) /\ Chain(Plan(s, inv)) /\ Plan(s, inv) # <<>>
      /\ Plan(s, inv)[1].op \in Openers
    BY PlanBlock DEF Block
<1>2. StepsOf(inv) \subseteq AllSteps
    BY DEF AllSteps
<1> DEFINE p == Plan(s, inv)
<1> HIDE DEF p
<1>3. p \in Seq(StepsOf(inv)) /\ p # <<>>
    BY <1>1 DEF p
<1>4. p \in Seq(AllSteps) /\ Head(p) = p[1]
    BY <1>2, <1>3
<1> QED
    BY <1>1, <1>4 DEF p

LEMMA ReturnType ==
    ASSUME TypeInv, todo # <<>>, Return,
           Head(todo).op = "query" => Head(todo).folder # Stamped
    PROVE  TodoType'
<1>1. todo \in Seq(AllSteps) /\ Chain(todo) /\ Head(todo) \in AllSteps
    BY DEF TypeInv, TodoType
<1>2. /\ Tail(todo) \in Seq(AllSteps) /\ Chain(Tail(todo))
      /\ Tail(todo) # <<>> /\ Head(Tail(todo)).op \notin Openers =>
            Follows(Head(todo), Head(Tail(todo)))
    BY <1>1, HeadAndTail, ChainOfTail
<1>3. ASSUME Tail(todo) # <<>>,
             Head(Tail(todo)).op \in {"manifest", "view", "clear", "fill", "readme"}
      PROVE  Head(Tail(todo)).folder # Stamped
  <2>1. Follows(Head(todo), Head(Tail(todo)))
      BY <1>2, <1>3 DEF Openers
  <2>2. /\ Head(todo).op \in {"query", "manifest", "view", "combine", "clear", "fill"}
        /\ Head(Tail(todo)).folder = Head(todo).folder
      BY <1>3, <2>1 DEF Follows, OnPath, OnName, OnRun
  <2>3. Head(todo).op = "combine" => Head(todo).folder # Stamped
      BY <1>1, StepTypes, RunIdsAreFolders
  <2> QED
      BY <2>2, <2>3 DEF TypeInv, TodoType
<1> QED
    BY <1>2, <1>3 DEF Return, TodoType

LEMMA EmptiedType == todo' = <<>> => TodoType'
BY DEF TodoType, Chain

LEMMA LaunchType == TypeInv /\ Launch => TypeInv'
<1> SUFFICES ASSUME TypeInv, Launch
             PROVE  TypeInv'
    OBVIOUS
<1>1. invocation' = invocation + 1 /\ invocation' \in Invocations
      /\ invocation' \in 0 .. MaxInvocations /\ finished' \in 0 .. invocation'
    BY ConstantsAssumption DEF TypeInv, TypeOK, Launch, Invocations
<1>2. TypeOK'
    BY <1>1 DEF TypeInv, TypeOK, Launch
<1>3. ASSUME NEW s, NEW inv \in Invocations, todo' = Plan(s, inv)
      PROVE  TodoType'
    BY <1>3, PlanIsTyped DEF TodoType, Openers
<1>4. todo' = Plan(settings', invocation')
    BY DEF Launch
<1> QED
    BY <1>1, <1>2, <1>3, <1>4 DEF TypeInv

LEMMA HandType == TypeInv /\ ManualExport => TypeInv'
<1> SUFFICES ASSUME TypeInv, ManualExport
             PROVE  TypeInv'
    OBVIOUS
<1>1. PICK id \in Manual : todo' = OnFolder(Export, id)
    BY DEF ManualExport
<1>2. \A op \in ExportSteps \ {"stage"} : OnPath(op, id) \in AllSteps
  <2>1. CASE id = Stamped
      BY <2>1 DEF AllSteps
  <2>2. CASE id \in RunIds
      <3>1. id.inv \in Invocations /\ id \in [inv : {id.inv}, leg : Devices]
          BY <2>2 DEF RunIds
      <3>2. \A op \in ExportSteps \ {"stage"} : OnPath(op, id) \in StepsOf(id.inv)
          BY <3>1 DEF ExportSteps, OnPath, StepsOf, StepsOfFolders
      <3> QED
          BY <3>1, <3>2 DEF AllSteps
  <2> QED
      BY <2>1, <2>2, ConstantsAssumption
<1>3. /\ todo' \in Seq(AllSteps) /\ Chain(todo') /\ Head(todo') = OnPath("recreate", id)
    BY <1>1, <1>2, HandPlan
<1>4. TodoType'
    BY <1>3 DEF TodoType, OnPath
<1>5. TypeOK'
    BY DEF ManualExport, TypeInv, TypeOK
<1> QED
    BY <1>4, <1>5 DEF TypeInv

\* What a step at the head of a plan is about.
LEMMA HeadTypes ==
    ASSUME TypeInv, todo # <<>>
    PROVE  LET st == Head(todo)
           IN  /\ st.op \in {"evaluate", "snapshot"} => st.name \in Names /\ st.run \in RunIds
               /\ st.op \in {"train", "adopt"} => st.run \in RunIds
               /\ st.op = "stage" => st.folder \in RunIds
               /\ st.op \in {"recreate", "copy", "query"} => st.folder \in RunIds \cup {Stamped}
               /\ st.op \in {"manifest", "view"} => st.folder \in RunIds
               /\ st.op \in {"clear", "fill", "readme"} => st.folder \in Folders
               /\ st.op = "combine" => st.folder \in Folders \ RunIds
<1>1. Head(todo) \in AllSteps
    BY HeadAndTail DEF TypeInv, TodoType
<1> QED
    BY <1>1, StepTypes DEF TypeInv, TodoType

LEMMA RunTags ==
    \A run \in RunIds : run.leg \in Devices /\ run.leg \in Tags /\ run.inv \in Invocations
BY DEF RunIds, Tags

LEMMA EvaluationTypes ==
    TypeInv /\ (Evaluate \/ Snapshot \/ TrainAdapter \/ AdoptAdapter \/ StageForExport) => TypeInv'
<1> SUFFICES ASSUME TypeInv, Evaluate \/ Snapshot \/ TrainAdapter \/ AdoptAdapter \/ StageForExport
             PROVE  TypeInv'
    OBVIOUS
<1>1. /\ todo # <<>> /\ Return /\ Head(todo).op # "query"
      /\ UNCHANGED <<settings, invocation, finished, folders, latest>>
    BY DEF Evaluate, Snapshot, TrainAdapter, AdoptAdapter, StageForExport, At
<1>2. TodoType'
    BY <1>1, ReturnType
<1>3. /\ processed \in [Names \X Tags -> Content \cup {None}]
      /\ stored \subseteq Names \X RunIds
      /\ adapters \in [Tags -> RunIds \cup {None}]
    BY DEF TypeInv, TypeOK
<1>4. "none" \in Tags /\ Devices \subseteq Tags
    BY DEF Tags
<1>5. processed' \in [Names \X Tags -> Content \cup {None}] /\ stored' \subseteq Names \X RunIds
  <2>1. CASE Evaluate
      <3>1. step.name \in Names /\ step.run \in RunIds /\ step.run.leg \in Tags
          BY <2>1, HeadTypes, RunTags DEF Evaluate, At, step
      <3>2. Adapter(step.run.leg) \in RunIds \cup {None}
          BY <1>3, <1>4, <3>1 DEF Adapter
      <3>3. ASSUME NEW a \in RunIds \cup {None}
            PROVE  [run |-> step.run, adapter |-> a] \in Content
          BY <3>1 DEF Content
      <3>4. \/ UNCHANGED <<processed, stored>>
            \/ \E a \in RunIds \cup {None} :
                  /\ processed' = [processed EXCEPT ![<<step.name, "none">>] =
                                      [run |-> step.run, adapter |-> a]]
                  /\ stored' = stored \cup {<<step.name, step.run>>}
          BY <2>1, <3>2 DEF Evaluate
      <3>5. CASE UNCHANGED <<processed, stored>>
          BY <1>3, <3>5
      <3>6. ASSUME NEW a \in RunIds \cup {None},
                   processed' = [processed EXCEPT ![<<step.name, "none">>] =
                                    [run |-> step.run, adapter |-> a]],
                   stored' = stored \cup {<<step.name, step.run>>}
            PROVE  /\ processed' \in [Names \X Tags -> Content \cup {None}]
                   /\ stored' \subseteq Names \X RunIds
          <4>1. [run |-> step.run, adapter |-> a] \in Content
              BY <3>3
          <4>2. processed' \in [Names \X Tags -> Content \cup {None}]
              BY <1>3, <3>6, <4>1
          <4>3. stored' \subseteq Names \X RunIds
              BY <1>3, <3>1, <3>6
          <4> QED
              BY <4>2, <4>3
      <3> QED
          BY <3>4, <3>5, <3>6
  <2>2. CASE Snapshot
      <3>1. step.name \in Names /\ step.run.leg \in Tags
          BY <2>2, HeadTypes, RunTags DEF Snapshot, At, step
      <3>2. Tagged(step.name, step.run.leg) \in Content \cup {None}
          BY <1>3, <1>4, <3>1 DEF Tagged
      <3> QED
          BY <1>3, <2>2, <3>2 DEF Snapshot
  <2>3. CASE TrainAdapter \/ AdoptAdapter
      BY <1>3, <2>3 DEF TrainAdapter, AdoptAdapter
  <2>4. CASE StageForExport
      <3>1. folder.leg \in Tags
          BY <2>4, HeadTypes, RunTags DEF StageForExport, At, step, folder
      <3>2. \A file \in Names \X Tags : file[1] \in Names /\ <<file[1], folder.leg>> \in Names \X Tags
          BY <3>1
      <3>3. DOMAIN processed = Names \X Tags
          BY <1>3
      <3> DEFINE staged == [file \in Names \X Tags |->
                               IF file[2] = "none" /\ processed[<<file[1], folder.leg>>] # None
                                 THEN processed[<<file[1], folder.leg>>] ELSE processed[file]]
      <3>4. processed' = staged /\ stored' = stored
          BY <2>4, <3>3 DEF StageForExport
      <3>5. staged \in [Names \X Tags -> Content \cup {None}]
          BY <1>3, <3>2
      <3> QED
          BY <1>3, <3>4, <3>5
  <2> QED
      BY <1>1, <2>1, <2>2, <2>3, <2>4
<1>6. adapters' \in [Tags -> RunIds \cup {None}]
  <2>1. CASE TrainAdapter
      BY <1>3, <2>1, HeadTypes DEF TrainAdapter, At, step
  <2>2. CASE AdoptAdapter
      BY <1>3, <1>4, <2>2 DEF AdoptAdapter
  <2>3. CASE Evaluate \/ Snapshot \/ StageForExport
      BY <1>3, <2>3 DEF Evaluate, Snapshot, StageForExport
  <2> QED
      BY <2>1, <2>2, <2>3
<1> QED
    BY <1>1, <1>2, <1>5, <1>6 DEF TypeInv, TypeOK

\* A folder of results/runs.
FolderRecords ==
    [state : {"absent", "partial", "exported"},
     files : [Names -> Content \cup {None}],
     cells : [Names \X Devices -> Content \cup {None}]]

LEMMA FirstOfTwo ==
    ASSUME NEW s, DOMAIN s = {1, 2}
    PROVE  FirstOf(s) = IF s[1] # None THEN s[1] ELSE s[2]
<1> DEFINE T == There(s)
<1>1. T \subseteq {1, 2} /\ (1 \in T <=> s[1] # None) /\ (2 \in T <=> s[2] # None)
    BY DEF There
<1>2. FirstOf(s) = IF T = {} THEN None ELSE s[Min(T)]
    BY DEF FirstOf
<1> HIDE DEF T
<1>3. ASSUME NEW m \in T, \A y \in T : m <= y
      PROVE  Min(T) = m
  <2>1. Min(T) \in T /\ \A y \in T : Min(T) <= y
      BY <1>3 DEF Min
  <2>2. m \in {1, 2} /\ Min(T) \in {1, 2} /\ m <= Min(T) /\ Min(T) <= m
      BY <1>1, <1>3, <2>1
  <2> QED
      BY <2>2
<1>4. CASE 1 \in T
  <2>1. \A y \in T : 1 <= y
      BY <1>1
  <2> QED
      BY <1>1, <1>2, <1>3, <1>4, <2>1
<1>5. CASE T = {2}
  <2>1. \A y \in T : 2 <= y
      BY <1>5
  <2> QED
      BY <1>1, <1>2, <1>3, <1>5, <2>1
<1>6. CASE T = {}
    BY <1>1, <1>2, <1>6
<1> QED
    BY <1>1, <1>4, <1>5, <1>6

LEMMA LastOfThree ==
    ASSUME NEW s, DOMAIN s = {1, 2, 3}
    PROVE  LastOf(s) = IF s[3] # None THEN s[3] ELSE IF s[2] # None THEN s[2] ELSE s[1]
<1> DEFINE T == There(s)
<1>1. /\ T \subseteq {1, 2, 3}
      /\ 1 \in T <=> s[1] # None
      /\ 2 \in T <=> s[2] # None
      /\ 3 \in T <=> s[3] # None
    BY DEF There
<1>2. LastOf(s) = IF T = {} THEN None ELSE s[Max(T)]
    BY DEF LastOf
<1> HIDE DEF T
<1>3. ASSUME NEW m \in T, \A y \in T : m >= y
      PROVE  Max(T) = m
  <2>1. Max(T) \in T /\ \A y \in T : Max(T) >= y
      BY <1>3 DEF Max
  <2>2. m \in {1, 2, 3} /\ Max(T) \in {1, 2, 3} /\ m >= Max(T) /\ Max(T) >= m
      BY <1>1, <1>3, <2>1
  <2> QED
      BY <2>2
<1>4. CASE 3 \in T
  <2>1. \A y \in T : 3 >= y
      BY <1>1
  <2> QED
      BY <1>1, <1>2, <1>3, <1>4, <2>1
<1>5. CASE 3 \notin T /\ 2 \in T
  <2>1. \A y \in T : 2 >= y
      BY <1>1, <1>5
  <2> QED
      BY <1>1, <1>2, <1>3, <1>5, <2>1
<1>6. CASE T = {1}
  <2>1. \A y \in T : 1 >= y
      BY <1>6
  <2> QED
      BY <1>1, <1>2, <1>3, <1>6, <2>1
<1>7. CASE T = {}
    BY <1>1, <1>2, <1>7
<1> QED
    BY <1>1, <1>4, <1>5, <1>6, <1>7

\* What a cell of a question view may hold.
LEMMA CellTypes ==
    ASSUME TypeInv, NEW name \in Names, NEW d \in Devices
    PROVE  /\ FirstOf(ProcessedFiles(name, d)) \in Content \cup {None}
           /\ \A exported \in Content \cup {None} :
                 /\ RuntimeCell(name, exported) \in Content \cup {None}
                 /\ CombinedCell(name, d, exported) \in Content \cup {None}
                 /\ CombinedCell(name, d, exported) =
                       IF exported # None THEN exported
                       ELSE IF processed[<<name, d>>] # None THEN processed[<<name, d>>]
                       ELSE processed[<<name, "none">>]
<1> DEFINE a == processed[<<name, "none">>]
           b == processed[<<name, d>>]
<1>1. a \in Content \cup {None} /\ b \in Content \cup {None}
    BY DEF TypeInv, TypeOK, Tags
<1>2. ProcessedFiles(name, d) = <<a, b>>
    BY DEF ProcessedFiles
<1> HIDE DEF a, b
<1>3. FirstOf(ProcessedFiles(name, d)) = IF a # None THEN a ELSE b
  <2>1. DOMAIN <<a, b>> = {1, 2} /\ <<a, b>>[1] = a /\ <<a, b>>[2] = b
      OBVIOUS
  <2> QED
      BY <1>2, <2>1, FirstOfTwo
<1>4. ASSUME NEW exported \in Content \cup {None}
      PROVE  CombinedCell(name, d, exported) =
                IF exported # None THEN exported ELSE IF b # None THEN b ELSE a
  <2> DEFINE s == Append(<<a, b>>, exported)
  <2>1. DOMAIN s = {1, 2, 3} /\ s[1] = a /\ s[2] = b /\ s[3] = exported
      OBVIOUS
  <2>2. CombinedCell(name, d, exported) = LastOf(s)
      BY <1>2 DEF CombinedCell
  <2> HIDE DEF s
  <2> QED
      BY <2>1, <2>2, LastOfThree
<1>5. \A exported \in Content \cup {None} : RuntimeCell(name, exported) \in Content \cup {None}
    BY DEF RuntimeCell
<1> QED
    BY <1>1, <1>3, <1>4, <1>5 DEF a, b

LEMMA ExportTypes ==
    TypeInv /\ (Recreate \/ CopyArtifacts \/ WriteManifest \/ ViewOfRun \/ CombineRuns) => TypeInv'
<1> SUFFICES ASSUME TypeInv, Recreate \/ CopyArtifacts \/ WriteManifest \/ ViewOfRun \/ CombineRuns
             PROVE  TypeInv'
    OBVIOUS
<1>1. /\ todo # <<>> /\ Return /\ Head(todo).op # "query"
      /\ UNCHANGED <<settings, invocation, finished, processed, stored, adapters, latest>>
    BY DEF Recreate, CopyArtifacts, WriteManifest, ViewOfRun, CombineRuns, At
<1>2. TodoType'
    BY <1>1, ReturnType
<1>3. folders \in [Folders \cup {Stamped} -> FolderRecords]
    BY DEF TypeInv, TypeOK, FolderRecords
<1>4. Absent \in FolderRecords
    BY DEF Absent, NoFiles, NoCells, FolderRecords
<1>5. folder \in Folders \cup {Stamped} => folders[folder] \in FolderRecords
    BY <1>3
<1>6. folder \in Folders \cup {Stamped}
    BY <1>1, HeadTypes, RunIdsAreFolders
       DEF Recreate, CopyArtifacts, WriteManifest, ViewOfRun, CombineRuns, At, step, folder
<1>7. \E r \in FolderRecords : folders' = [folders EXCEPT ![folder] = r]
  <2>1. CASE Recreate
      <3>1. [Absent EXCEPT !.state = "partial"] \in FolderRecords
          BY <1>4 DEF FolderRecords
      <3> QED
          BY <2>1, <3>1 DEF Recreate
  <2>2. CASE CopyArtifacts
      <3> DEFINE files == [name \in Names |-> Source(name)]
      <3>1. \A name \in Names : Source(name) \in Content \cup {None}
          BY DEF Source, TypeInv, TypeOK, Tags
      <3>2. files \in [Names -> Content \cup {None}]
          BY <3>1
      <3> HIDE DEF files
      <3>3. [folders[folder] EXCEPT !.files = files] \in FolderRecords
          BY <1>5, <1>6, <3>2 DEF FolderRecords
      <3>4. folders' = [folders EXCEPT ![folder] = [folders[folder] EXCEPT !.files = files]]
          BY <1>3, <1>6, <2>2 DEF CopyArtifacts, files
      <3> QED
          BY <3>3, <3>4
  <2>3. CASE WriteManifest
      <3>1. [folders[folder] EXCEPT !.state = "exported"] \in FolderRecords
          BY <1>5, <1>6 DEF FolderRecords
      <3>2. folders' = [folders EXCEPT ![folder] = [folders[folder] EXCEPT !.state = "exported"]]
          BY <1>3, <1>6, <2>3 DEF WriteManifest
      <3> QED
          BY <3>1, <3>2
  <2>4. CASE ViewOfRun
      <3> DEFINE Cell(cell) ==
                    LET run == [inv |-> folder.inv, leg |-> cell[2]]
                    IN  IF <<cell[1], run>> \in stored
                        THEN [run |-> run, adapter |-> None]
                        ELSE FirstOf(ProcessedFiles(cell[1], cell[2]))
                 cells == [cell \in Names \X Devices |-> Cell(cell)]
      <3>1. ASSUME NEW cell \in Names \X Devices
            PROVE  Cell(cell) \in Content \cup {None}
          <4>1. cell[1] \in Names /\ cell[2] \in Devices
              OBVIOUS
          <4>2. ASSUME <<cell[1], [inv |-> folder.inv, leg |-> cell[2]]>> \in stored
                PROVE  [inv |-> folder.inv, leg |-> cell[2]] \in RunIds
              BY <4>2 DEF TypeInv, TypeOK
          <4> QED
              BY <4>1, <4>2, CellTypes DEF Content
      <3>2. cells \in [Names \X Devices -> Content \cup {None}]
          BY <3>1
      <3> HIDE DEF cells
      <3>3. [folders[folder] EXCEPT !.cells = cells] \in FolderRecords
          BY <1>5, <1>6, <3>2 DEF FolderRecords
      <3>4. folders' = [folders EXCEPT ![folder] = [folders[folder] EXCEPT !.cells = cells]]
          BY <1>3, <1>6, <2>4 DEF ViewOfRun, cells
      <3> QED
          BY <3>3, <3>4
  <2>5. CASE CombineRuns
      <3> DEFINE Exported(cell) == folders[RunId(folder.inv, cell[2])].files[cell[1]]
                 cells == [cell \in Names \X Devices |->
                              IF folder.leg = "both"
                              THEN CombinedCell(cell[1], cell[2], Exported(cell))
                              ELSE RuntimeCell(cell[1], Exported(cell))]
                 r == [Absent EXCEPT !.state = "exported", !.cells = cells]
      <3>1. folder \in Folders
          BY <2>5, HeadTypes DEF CombineRuns, At, step, folder
      <3>2. ASSUME NEW cell \in Names \X Devices
            PROVE  Exported(cell) \in Content \cup {None}
          <4>1. cell[1] \in Names /\ cell[2] \in Devices
              OBVIOUS
          <4>2. RunId(folder.inv, cell[2]) \in RunIds
              BY <3>1, <4>1 DEF RunId, RunIds, Folders
          <4>3. folders[RunId(folder.inv, cell[2])] \in FolderRecords
              BY <1>3, <4>2, RunIdsAreFolders
          <4> QED
              BY <4>1, <4>3 DEF FolderRecords
      <3>3. cells \in [Names \X Devices -> Content \cup {None}]
          <4>1. \A cell \in Names \X Devices : cell[1] \in Names /\ cell[2] \in Devices
              OBVIOUS
          <4> QED
              BY <3>2, <4>1, CellTypes
      <3>4. folders' = [folders EXCEPT ![folder] = r]
          BY <2>5 DEF CombineRuns
      <3> HIDE DEF cells
      <3>5. r \in FolderRecords
          BY <1>4, <3>3 DEF FolderRecords
      <3> HIDE DEF r
      <3> QED
          BY <3>4, <3>5
  <2> QED
      BY <2>1, <2>2, <2>3, <2>4, <2>5
<1>8. folders' \in [Folders \cup {Stamped} -> FolderRecords]
    BY <1>3, <1>7
<1>9. TypeOK'
    BY <1>1, <1>8 DEF TypeInv, TypeOK, FolderRecords
<1> QED
    BY <1>2, <1>9 DEF TypeInv

LEMMA RestTypes ==
    TypeInv /\ (QueryRows \/ ClearLatest \/ FillLatest \/ WriteReadme \/ Finish \/ Abort) => TypeInv'
<1> SUFFICES ASSUME TypeInv,
                    QueryRows \/ ClearLatest \/ FillLatest \/ WriteReadme \/ Finish \/ Abort
             PROVE  TypeInv'
    OBVIOUS
<1>1. UNCHANGED <<settings, invocation, processed, stored, adapters, folders>>
    BY DEF QueryRows, ClearLatest, FillLatest, WriteReadme, Finish, Abort
<1>2. TodoType'
  <2>1. CASE QueryRows
      <3>1. ASSUME NEW name \in Names, <<name, folder>> \in stored
            PROVE  Head(todo).folder # Stamped
          BY <3>1, RunIdsAreFolders DEF TypeInv, TypeOK, folder, step
      <3>2. CASE Return
          BY <2>1, <3>1, <3>2, ReturnType, EmptiedType DEF QueryRows, At
      <3> QED
          BY <2>1, <3>2, EmptiedType DEF QueryRows
  <2>2. CASE ClearLatest
      BY <2>2, ReturnType DEF ClearLatest, At, TodoType, TypeInv
  <2>3. CASE FillLatest \/ WriteReadme \/ Finish
      BY <2>3, ReturnType DEF FillLatest, WriteReadme, Finish, At
  <2>4. CASE Abort
      BY <2>4, EmptiedType DEF Abort
  <2> QED
      BY <2>1, <2>2, <2>3, <2>4
<1>3. finished' \in 0 .. invocation
    BY DEF QueryRows, ClearLatest, FillLatest, WriteReadme, Finish, Abort, TypeInv, TypeOK
<1>4. latest' \subseteq {"artifact", "readme"} \X Folders
  <2>1. CASE FillLatest \/ WriteReadme
      <3>1. folder \in Folders
          BY <2>1, HeadTypes DEF FillLatest, WriteReadme, At, step, folder
      <3>2. \/ latest' = latest \cup {<<"artifact", folder>>}
            \/ latest' = {entry \in latest : entry[1] # "readme"} \cup {<<"readme", folder>>}
          BY <2>1 DEF FillLatest, WriteReadme
      <3> QED
          BY <3>1, <3>2 DEF TypeInv, TypeOK
  <2>2. CASE ClearLatest
      BY <2>2 DEF ClearLatest, TypeInv, TypeOK
  <2>3. CASE QueryRows \/ Finish \/ Abort
      BY <2>3 DEF QueryRows, Finish, Abort, TypeInv, TypeOK
  <2> QED
      BY <2>1, <2>2, <2>3
<1> QED
    BY <1>1, <1>2, <1>3, <1>4 DEF TypeInv, TypeOK

LEMMA InitType == Init => TypeInv
BY ConstantsAssumption
   DEF Init, TypeInv, TypeOK, TodoType, Chain, Absent, NoFiles, NoCells

LEMMA TypeStep == TypeInv /\ [Next]_vars => TypeInv'
<1>1. TypeInv /\ UNCHANGED vars => TypeInv'
    BY DEF vars, TypeInv, TypeOK, TodoType
<1> QED
    BY <1>1, LaunchType, HandType, EvaluationTypes, ExportTypes, RestTypes DEF Next

LEMMA TypeInvariant == Spec => []TypeInv
BY InitType, TypeStep, PTL DEF Spec

\* Every variable keeps its type, whatever folder is exported by hand.
THEOREM TypeCorrect == Spec => []TypeOK
<1>1. TypeInv => TypeOK
    BY DEF TypeInv
<1> QED
    BY <1>1, TypeInvariant, PTL
-----------------------------------------------------------------------------
(***************************************************************************)
(* The inductive invariant.  What a step of a plan may rely on is what the *)
(* steps that have passed have done, that is those of the plan that do not *)
(* remain; and which have passed follows from the ranks.                   *)
(***************************************************************************)
Planned == todo # <<>> /\ todo[Len(todo)].op = "done"
Remaining == Elements(todo)
Planning == Elements(Plan(settings, invocation))
Run(d) == RunId(invocation, d)

\* What has passed is of no higher rank than what remains, and an export by hand
\* never gets beyond its rows.
TodoInOrder ==
    /\ Planned =>
          /\ Ordered(todo)
          /\ Remaining \subseteq Planning
          /\ \A x \in Planning \ Remaining, y \in Remaining : Rank(x) <= Rank(y)
          /\ Head(todo).op # "done" => finished < invocation
    /\ todo # <<>> /\ ~ Planned =>
          Head(todo).folder = Stamped /\ Head(todo).op \in {"recreate", "copy", "query"}

\* No adapter, no file of a comparison.
ComparedWithAdapter ==
    adapters["none"] = None =>
        \A tag \in Tags : adapters[tag] = None /\ processed[<<"comparison", tag>>] = None

Adopted ==
    Planned =>
        /\ Head(todo).op = "adopt" => adapters["none"] = Head(todo).run
        /\ \A d \in Legs(settings) :
              Trains(settings, d) /\ OnRun("adopt", Run(d)) \notin Remaining =>
                  adapters[d] = Run(d)

\* A file of this name is of this run, and was compared with its own adapter.
Own(file, name, run) ==
    /\ file # None /\ file.run = run
    /\ name = "comparison" /\ Trains(settings, run.leg) => file.adapter = run

NothingToCompare(name) == name = "comparison" /\ adapters["none"] = None

SnapshotsTaken ==
    Planned =>
        /\ Head(todo).op = "snapshot" =>
              \/ NothingToCompare(Head(todo).name)
              \/ Own(processed[<<Head(todo).name, "none">>], Head(todo).name, Head(todo).run)
        /\ \A d \in Legs(settings), n \in Evaluated(settings) :
              OnName("snapshot", n, Run(d)) \notin Remaining =>
                  NothingToCompare(n) \/ Own(processed[<<n, d>>], n, Run(d))

\* The folders of invocations to come are not there.
NoFolderIsEarly == \A f \in Folders : f.inv > invocation => folders[f] = Absent

\* The files of a run folder are its own from the moment they are copied.
FilesAreOwn ==
    \A run \in RunIds : run.inv = invocation =>
        \A n \in Evaluated(settings) :
            folders[run].files[n] # None => Own(folders[run].files[n], n, run)

FilesAreCopied ==
    Planned =>
        /\ Head(todo).op = "copy" => folders[Head(todo).folder].state # "exported"
        /\ \A d \in Legs(settings), n \in Evaluated(settings) :
              OnPath("copy", Run(d)) \notin Remaining =>
                  NothingToCompare(n) \/ folders[Run(d)].files[n] # None

ExportsAreCompared ==
    \A run \in RunIds :
        run.inv = invocation /\ folders[run].state = "exported" /\ Trains(settings, run.leg) =>
            folders[run].files["comparison"] # None

ManifestsAreWritten ==
    Planned =>
        \A d \in Legs(settings) :
            OnPath("manifest", Run(d)) \notin Remaining => folders[Run(d)].state = "exported"

\* What results/latest shows is not exported again.
LatestIsKept ==
    /\ LatestIsOneFinishedExport
    /\ \A entry \in latest : entry[2].inv <= invocation
    /\ Planned =>
          /\ \A entry \in latest : OnPath("recreate", entry[2]) \notin Remaining
          /\ Head(todo).op \in {"view", "clear", "fill", "readme"} =>
                folders[Head(todo).folder].state = "exported"
          /\ Head(todo).op = "fill" => latest = {}
          /\ Head(todo).op = "readme" => latest = {<<"artifact", Head(todo).folder>>}

ReadmeIsOfThisInvocation ==
    \E f \in Folders : f.inv = invocation /\ <<"readme", f>> \in latest

LatestLeads ==
    /\ /\ Planned /\ Head(todo).op \notin {"clear", "fill", "readme"}
       /\ \E d \in Legs(settings) : OnPath("readme", Run(d)) \notin Remaining
       => ReadmeIsOfThisInvocation
    /\ DoneMeansPublished

IInv ==
    /\ TypeInv /\ TodoInOrder /\ ComparedWithAdapter /\ Adopted /\ SnapshotsTaken
    /\ NoFolderIsEarly /\ FilesAreOwn /\ FilesAreCopied /\ ExportsAreCompared
    /\ CombinedCellsAreOfTheirLeg /\ ManifestsAreWritten /\ LatestIsKept /\ LatestLeads

\* Step 07 by hand is started without --run-id: naming a run asks for its folder to
\* be made again.
OnlyStamped == Manual \subseteq {Stamped}

\* The plan of an invocation, as far as its ranks go.
LEMMA PlanningTypes ==
    ASSUME TypeInv
    PROVE  /\ Planning \subseteq StepsOf(invocation)
           /\ \A x \in Planning : Rank(x) \in Nat
           /\ \A d \in Devices : Run(d) \in [inv : {invocation}, leg : Devices]
<1> DEFINE p == Plan(settings, invocation)
<1>1. p \in Seq(StepsOf(invocation))
    BY PlanBlock DEF Block
<1> HIDE DEF p
<1>2. \A i \in 1 .. Len(p) : p[i] \in StepsOf(invocation)
    BY <1>1
<1>3. Elements(p) \subseteq StepsOf(invocation)
    BY <1>2 DEF Elements
<1>4. Planning = Elements(p)
    BY DEF Planning, p
<1> QED
    BY <1>3, <1>4, RankIsANumber, RunIdType DEF Run

\* The next step of a plan is one of the plan's.
LEMMA HeadIsPlanned ==
    ASSUME TypeInv, TodoInOrder, Planned
    PROVE  /\ Head(todo) \in Remaining /\ Head(todo) \in Planning
           /\ todo \in Seq(AllSteps) /\ todo # <<>> /\ Ordered(todo)
           /\ Remaining = {Head(todo)} \cup Elements(Tail(todo))
<1>1. todo \in Seq(AllSteps) /\ todo # <<>>
    BY DEF TypeInv, TodoType, Planned
<1>2. Elements(todo) = {Head(todo)} \cup Elements(Tail(todo))
    BY <1>1, HeadAndTail
<1> QED
    BY <1>1, <1>2 DEF TodoInOrder, Remaining

\* What comes before the next step has passed.
LEMMA Before ==
    ASSUME TypeInv, TodoInOrder, Planned, NEW x \in Planning, Rank(x) < Rank(Head(todo))
    PROVE  x \notin Remaining
<1>1. /\ Head(todo) \in Planning /\ todo \in Seq(AllSteps) /\ todo # <<>> /\ Ordered(todo)
      /\ Remaining = {Head(todo)} \cup Elements(Tail(todo))
    BY HeadIsPlanned
<1>2. \A y \in Elements(Tail(todo)) : Rank(Head(todo)) <= Rank(y)
    BY <1>1, OrderOfTail
<1>3. Rank(x) \in Nat /\ Rank(Head(todo)) \in Nat
    BY <1>1, PlanningTypes
<1>4. ASSUME x \in Remaining
      PROVE  Rank(Head(todo)) <= Rank(x)
  <2>1. CASE x = Head(todo)
      BY <1>3, <2>1
  <2> QED
      BY <1>1, <1>2, <1>4, <2>1
<1> QED
    BY <1>3, <1>4

\* What comes after it is still to come.
LEMMA After ==
    ASSUME TypeInv, TodoInOrder, Planned, NEW x \in Planning, Rank(Head(todo)) < Rank(x)
    PROVE  x \in Remaining /\ x \in Elements(Tail(todo))
<1>1. /\ Head(todo) \in Remaining /\ Head(todo) \in Planning
      /\ Remaining = {Head(todo)} \cup Elements(Tail(todo))
    BY HeadIsPlanned
<1>2. Rank(x) \in Nat /\ Rank(Head(todo)) \in Nat
    BY <1>1, PlanningTypes
<1>3. x \in Remaining
  <2>1. x \notin Remaining => Rank(x) <= Rank(Head(todo))
      BY <1>1 DEF TodoInOrder
  <2> QED
      BY <1>2, <2>1
<1>4. x # Head(todo)
    BY <1>2
<1> QED
    BY <1>1, <1>3, <1>4

\* What each kind of step of a plan is about.
LEMMA HeadOfPlan ==
    ASSUME TypeInv, TodoInOrder, Planned
    PROVE  LET st == Head(todo)
           IN  /\ st.op \in {"evaluate", "snapshot"} =>
                     \E d \in Legs(settings), n \in Names : st = OnName(st.op, n, Run(d))
               /\ st.op \in {"train", "adopt"} =>
                     \E d \in Legs(settings) : st = OnRun(st.op, Run(d))
               /\ st.op \in {"stage", "recreate", "copy", "query", "manifest", "view"} =>
                     \E d \in Legs(settings) : st = OnPath(st.op, Run(d))
               /\ st.op = "combine" =>
                     \/ settings.cuda /\ OnCpu(settings)
                        /\ st = OnPath("combine", [inv |-> invocation, leg |-> "both"])
                     \/ st = OnPath("combine", [inv |-> invocation, leg |-> "runtimes"])
               /\ st.op \in {"clear", "fill", "readme"} =>
                     \/ \E d \in Legs(settings) : st = OnPath(st.op, Run(d))
                     \/ settings.cuda /\ OnCpu(settings)
                        /\ st = OnPath(st.op, [inv |-> invocation, leg |-> "both"])
                     \/ st = OnPath(st.op, [inv |-> invocation, leg |-> "runtimes"])
               /\ st.op = "done" => st = [op |-> "done"]
<1> DEFINE st == Head(todo)
<1>1. st \in Elements(Plan(settings, invocation))
    BY HeadIsPlanned DEF Planning
<1>2. \/ \E d \in Legs(settings), n \in Names, op \in {"evaluate", "snapshot"} :
            st = OnName(op, n, Run(d))
      \/ \E d \in Legs(settings), op \in {"train", "adopt"} : st = OnRun(op, Run(d))
      \/ \E d \in Legs(settings), op \in ExportSteps : st = OnPath(op, Run(d))
      \/ \E op \in {"combine", "clear", "fill", "readme"} :
            \/ settings.cuda /\ OnCpu(settings)
               /\ st = OnPath(op, [inv |-> invocation, leg |-> "both"])
            \/ st = OnPath(op, [inv |-> invocation, leg |-> "runtimes"])
      \/ st = [op |-> "done"]
  <2> HIDE DEF st
  <2> QED
      BY <1>1, PlanIsOfItsLegs DEF Run
<1> HIDE DEF st
<1>3. /\ \A op, n, run : OnName(op, n, run).op = op
      /\ \A op, run : OnRun(op, run).op = op
      /\ \A op, f : OnPath(op, f).op = op
      /\ [op |-> "done"].op = "done"
    BY DEF OnName, OnRun, OnPath
<1>4. CASE \E d \in Legs(settings), n \in Names, op \in {"evaluate", "snapshot"} :
              st = OnName(op, n, Run(d))
    BY <1>3, <1>4 DEF st
<1>5. CASE \E d \in Legs(settings), op \in {"train", "adopt"} : st = OnRun(op, Run(d))
    BY <1>3, <1>5 DEF st
<1>6. CASE \E d \in Legs(settings), op \in ExportSteps : st = OnPath(op, Run(d))
    BY <1>3, <1>6 DEF st, ExportSteps
<1>7. CASE \E op \in {"combine", "clear", "fill", "readme"} :
            \/ settings.cuda /\ OnCpu(settings)
               /\ st = OnPath(op, [inv |-> invocation, leg |-> "both"])
            \/ st = OnPath(op, [inv |-> invocation, leg |-> "runtimes"])
    BY <1>3, <1>7 DEF st
<1>8. CASE st = [op |-> "done"]
    BY <1>3, <1>8 DEF st
<1> QED
    BY <1>2, <1>4, <1>5, <1>6, <1>7, <1>8

(***************************************************************************)
(* The kinds of steps, and what each may change.                           *)
(***************************************************************************)
\* Nothing is under way any more, or an export by hand begins.
Idle ==
    /\ \/ todo' = <<>>
       \/ todo' # <<>> /\ ~ Planned' /\ Head(todo') = OnPath("recreate", Stamped)
    /\ UNCHANGED <<settings, invocation, finished, processed, stored, adapters,
                   folders, latest>>

\* One more file of results/latest is removed.
Unlink ==
    /\ At("clear")
    /\ \E entry \in latest : latest' = latest \ {entry}
    /\ UNCHANGED <<todo, settings, invocation, finished, processed, stored, adapters,
                   folders>>

\* A step of the plan, or of an export by hand, returns.
Advance ==
    /\ todo # <<>>
    /\ Return
    /\ UNCHANGED <<settings, invocation>>
    /\ Head(todo).op = "query" => Head(todo).folder # Stamped
    /\ \/ Evaluate \/ Snapshot \/ TrainAdapter \/ AdoptAdapter \/ StageForExport
       \/ Recreate \/ CopyArtifacts \/ QueryRows \/ WriteManifest \/ ViewOfRun
       \/ CombineRuns \/ ClearLatest \/ FillLatest \/ WriteReadme \/ Finish

LEMMA HandIsIdle ==
    ASSUME OnlyStamped, ManualExport
    PROVE  Idle
<1>1. todo' = OnFolder(Export, Stamped)
    BY DEF OnlyStamped, ManualExport
<1>2. \A op \in ExportSteps \ {"stage"} : OnPath(op, Stamped) \in AllSteps
    BY DEF AllSteps
<1>3. /\ todo' # <<>> /\ Head(todo') = OnPath("recreate", Stamped)
      /\ todo'[Len(todo')] = OnPath("readme", Stamped)
    BY <1>1, <1>2, HandPlan
<1>4. ~ Planned'
    BY <1>3 DEF Planned, OnPath
<1> QED
    BY <1>3, <1>4 DEF Idle, ManualExport

LEMMA Kinds ==
    ASSUME TypeInv, OnlyStamped, [Next]_vars
    PROVE  Launch \/ Idle \/ Unlink \/ Advance \/ UNCHANGED vars
<1>1. CASE Launch \/ UNCHANGED vars
    BY <1>1
<1>2. CASE ManualExport
    BY <1>2, HandIsIdle
<1>3. CASE Abort
    BY <1>3 DEF Abort, Idle
<1>4. CASE QueryRows
  <2>1. ASSUME NEW name \in Names, <<name, folder>> \in stored
        PROVE  Head(todo).folder # Stamped
      BY <2>1, RunIdsAreFolders DEF TypeInv, TypeOK, folder, step
  <2>2. \/ Return /\ Head(todo).folder # Stamped
        \/ todo' = <<>>
      BY <1>4, <2>1 DEF QueryRows
  <2> QED
      BY <1>4, <2>2 DEF QueryRows, At, Idle, Advance
<1>5. CASE ClearLatest
  <2>1. CASE Return
      BY <1>5, <2>1 DEF ClearLatest, At, Advance
  <2>2. CASE ~ Return
      BY <1>5, <2>2 DEF ClearLatest, Unlink
  <2> QED
      BY <2>1, <2>2
<1>6. CASE Evaluate \/ Snapshot \/ TrainAdapter \/ AdoptAdapter \/ StageForExport
  <2>1. /\ todo # <<>> /\ Return /\ Head(todo).op # "query"
        /\ UNCHANGED <<settings, invocation>>
      BY <1>6 DEF Evaluate, Snapshot, TrainAdapter, AdoptAdapter, StageForExport, At
  <2> QED
      BY <1>6, <2>1 DEF Advance
<1>7. CASE Recreate \/ CopyArtifacts \/ WriteManifest \/ ViewOfRun \/ CombineRuns
  <2>1. /\ todo # <<>> /\ Return /\ Head(todo).op # "query"
        /\ UNCHANGED <<settings, invocation>>
      BY <1>7 DEF Recreate, CopyArtifacts, WriteManifest, ViewOfRun, CombineRuns, At
  <2> QED
      BY <1>7, <2>1 DEF Advance
<1>8. CASE FillLatest \/ WriteReadme \/ Finish
  <2>1. /\ todo # <<>> /\ Return /\ Head(todo).op # "query"
        /\ UNCHANGED <<settings, invocation>>
      BY <1>8 DEF FillLatest, WriteReadme, Finish, At
  <2> QED
      BY <1>8, <2>1 DEF Advance
<1> QED
    BY <1>1, <1>2, <1>3, <1>4, <1>5, <1>6, <1>7, <1>8 DEF Next

\* Which steps of a plan change what.
LEMMA Changes ==
    ASSUME TypeInv, Advance
    PROVE  /\ Evaluate \/ Snapshot \/ StageForExport \/ processed' = processed
           /\ TrainAdapter \/ AdoptAdapter \/ adapters' = adapters
           /\ \/ Recreate \/ CopyArtifacts \/ WriteManifest \/ ViewOfRun \/ CombineRuns
              \/ folders' = folders
           /\ FillLatest \/ WriteReadme \/ latest' = latest
           /\ Finish \/ finished' = finished
<1>1. CASE Evaluate \/ Snapshot \/ TrainAdapter \/ AdoptAdapter \/ StageForExport
    BY <1>1 DEF Evaluate, Snapshot, TrainAdapter, AdoptAdapter, StageForExport
<1>2. CASE Recreate \/ CopyArtifacts \/ WriteManifest \/ ViewOfRun \/ CombineRuns
    BY <1>2 DEF Recreate, CopyArtifacts, WriteManifest, ViewOfRun, CombineRuns
<1>3. CASE FillLatest \/ WriteReadme \/ Finish \/ QueryRows
    BY <1>3 DEF FillLatest, WriteReadme, Finish, QueryRows
<1>4. CASE ClearLatest
  <2>1. todo \in Seq(AllSteps) /\ todo # <<>>
      BY DEF TypeInv, TodoType, Advance
  <2>2. Len(Tail(todo)) # Len(todo)
      BY <2>1
  <2>3. todo' # todo
      BY <2>2 DEF Advance, Return
  <2> QED
      BY <1>4, <2>3 DEF ClearLatest
<1> QED
    BY <1>1, <1>2, <1>3, <1>4 DEF Advance

\* What a step that returns leaves of the plan.
LEMMA Passing ==
    ASSUME TypeInv, TodoInOrder, Advance
    PROVE  /\ Planned' => Planned
           /\ Planned /\ Tail(todo) # <<>> => Planned'
           /\ Planned' => /\ todo' = Tail(todo) /\ todo' # <<>>
                          /\ Remaining = {Head(todo)} \cup Remaining'
                          /\ Head(todo') \in Remaining'
                          /\ Planning' = Planning
           /\ todo' # <<>> /\ Head(todo').op \notin Openers => Follows(Head(todo), Head(todo'))
           /\ Head(todo).op \notin Closers => todo' # <<>> /\ Follows(Head(todo), Head(todo'))
<1>1. todo \in Seq(AllSteps) /\ todo # <<>> /\ Chain(todo) /\ todo' = Tail(todo)
    BY DEF TypeInv, TodoType, Advance, Return
<1> DEFINE t == Tail(todo)
<1>2. /\ t \in Seq(AllSteps)
      /\ Elements(todo) = {Head(todo)} \cup Elements(t)
      /\ t # <<>> => t[Len(t)] = todo[Len(todo)]
    BY <1>1, HeadAndTail
<1>3. /\ Head(todo).op \notin Closers => t # <<>> /\ Follows(Head(todo), Head(t))
      /\ t # <<>> /\ Head(t).op \notin Openers => Follows(Head(todo), Head(t))
    BY <1>1, ChainOfTail
<1> HIDE DEF t
<1>4. t # <<>> => Head(t) \in Elements(t)
    BY <1>2, HeadAndTail
<1>5. todo' = t
    BY <1>1 DEF t
<1>6. Planned' <=> t # <<>> /\ Planned
    BY <1>1, <1>2, <1>5 DEF Planned
<1>7. Remaining' = Elements(t) /\ Remaining = Elements(todo) /\ Planning' = Planning
    BY <1>5 DEF Remaining, Planning, Advance
<1> QED
    BY <1>2, <1>3, <1>4, <1>5, <1>6, <1>7 DEF t

LEMMA LaunchInOrder ==
    ASSUME TypeInv, Launch
    PROVE  /\ TodoInOrder' /\ Planned' /\ Remaining' = Planning'
           /\ Head(todo').op \in Openers /\ finished < invocation'
<1>1. /\ invocation' = invocation + 1 /\ finished' = finished /\ finished < invocation'
    BY ConstantsAssumption DEF TypeInv, TypeOK, Launch
<1>2. ASSUME NEW s, NEW inv, todo' = Plan(s, inv)
      PROVE  /\ Ordered(todo') /\ todo' # <<>> /\ todo'[Len(todo')] = [op |-> "done"]
             /\ Head(todo').op \in Openers
  <2> DEFINE p == Plan(s, inv)
  <2>1. /\ p \in Seq(StepsOf(inv)) /\ Ordered(p) /\ p # <<>>
        /\ p[Len(p)] = [op |-> "done"] /\ p[1].op \in Openers
      BY PlanBlock DEF Block
  <2> HIDE DEF p
  <2>2. Head(p) = p[1]
      BY <2>1
  <2>3. todo' = p
      BY <1>2 DEF p
  <2> QED
      BY <2>1, <2>2, <2>3
<1>3. /\ Ordered(todo') /\ todo' # <<>> /\ todo'[Len(todo')] = [op |-> "done"]
      /\ Head(todo').op \in Openers
    BY <1>2 DEF Launch
<1>4. Planned'
    BY <1>3 DEF Planned
<1>5. Remaining' = Planning'
    BY DEF Remaining, Planning, Launch
<1>6. finished' < invocation'
    BY <1>1
<1>7. Ordered(todo)'
    BY <1>3 DEF Ordered
<1> QED
    BY <1>1, <1>3, <1>4, <1>5, <1>6, <1>7 DEF TodoInOrder

\* The only step of the rank of the banner is the banner.
LEMMA LastRank ==
    ASSUME NEW inv, NEW st \in StepsOf(inv)
    PROVE  Rank(st) <= 700 /\ (Rank(st) = 700 => st = [op |-> "done"])
<1>1. CASE st = [op |-> "done"]
    BY <1>1 DEF Rank
<1>2. CASE st \in [op : {"train", "adopt"}, run : [inv : {inv}, leg : Devices]]
    BY <1>2 DEF Rank
<1>3. CASE st \in [op : {"evaluate", "snapshot"}, name : Names,
                   run : [inv : {inv}, leg : Devices]]
    BY <1>3 DEF Rank, Phase, Position, Devices
<1>4. CASE st \in StepsOfFolders(inv)
    BY <1>4 DEF StepsOfFolders, Rank, Phase, Position, Devices
<1> QED
    BY <1>1, <1>2, <1>3, <1>4 DEF StepsOf, StepsOfRuns

LEMMA AdvanceInOrder ==
    ASSUME TypeInv, TodoInOrder, Advance
    PROVE  TodoInOrder'
<1>1. todo \in Seq(AllSteps) /\ todo # <<>> /\ todo' = Tail(todo)
    BY DEF TypeInv, TodoType, Advance, Return
<1>2. ASSUME Planned'
      PROVE  /\ Ordered(todo') /\ Remaining' \subseteq Planning'
             /\ \A x \in Planning' \ Remaining', y \in Remaining' : Rank(x) <= Rank(y)
             /\ Head(todo').op # "done" => finished' < invocation'
  <2>1. /\ Planned /\ Remaining = {Head(todo)} \cup Remaining' /\ Planning' = Planning
        /\ Head(todo') \in Remaining'
      BY <1>2, Passing
  <2>2. Ordered(todo') /\ \A x \in Elements(Tail(todo)) : Rank(Head(todo)) <= Rank(x)
      BY <1>1, <2>1, OrderOfTail DEF TodoInOrder
  <2>3. \A x \in Remaining' : Rank(Head(todo)) <= Rank(x)
      BY <1>1, <2>2 DEF Remaining
  <2>4. \A x \in Planning' \ Remaining', y \in Remaining' : Rank(x) <= Rank(y)
      BY <2>1, <2>3 DEF TodoInOrder
  <2>5. Remaining' \subseteq Planning'
      BY <2>1 DEF TodoInOrder
  <2>6. Head(todo').op # "done" => Head(todo).op # "done"
    <3>1. Head(todo) \in StepsOf(invocation) /\ Head(todo') \in StepsOf(invocation)
        BY <2>1, <2>5, PlanningTypes DEF TodoInOrder
    <3>2. /\ Rank(Head(todo)) \in Nat /\ Rank(Head(todo')) \in Nat
          /\ Rank(Head(todo)) <= Rank(Head(todo')) /\ Rank(Head(todo')) <= 700
          /\ Rank(Head(todo')) = 700 => Head(todo') = [op |-> "done"]
        BY <2>1, <2>3, <3>1, RankIsANumber, LastRank
    <3>3. Head(todo).op = "done" => Rank(Head(todo)) = 700
        BY DEF Rank
    <3>4. Head(todo).op = "done" => Rank(Head(todo')) = 700
        BY <3>2, <3>3
    <3> QED
        BY <3>2, <3>4
  <2>7. Head(todo).op # "done" => finished' < invocation'
    <3>1. Finish => Head(todo).op = "done"
        BY DEF Finish, At
    <3> QED
        BY <2>1, <3>1, Changes DEF TodoInOrder, Advance
  <2> QED
      BY <2>2, <2>4, <2>5, <2>6, <2>7
<1>3. ASSUME todo' # <<>>, ~ Planned'
      PROVE  Head(todo').folder = Stamped /\ Head(todo').op \in {"recreate", "copy", "query"}
  <2>1. ~ Planned
      BY <1>1, <1>3, Passing
  <2>2. /\ Head(todo).folder = Stamped /\ Head(todo).op \in {"recreate", "copy"}
      BY <1>1, <2>1 DEF TodoInOrder, Advance
  <2>3. Follows(Head(todo), Head(todo'))
      BY <2>2, Passing DEF Closers
  <2> QED
      BY <2>2, <2>3 DEF Follows, OnPath
<1>4. Ordered(todo)' <=> Ordered(todo')
    BY DEF Ordered
<1> QED
    BY <1>2, <1>3, <1>4 DEF TodoInOrder

LEMMA TodoInOrderStep ==
    ASSUME TypeInv, TodoInOrder, OnlyStamped, [Next]_vars
    PROVE  TodoInOrder'
<1>1. CASE Idle
  <2>1. ~ Planned'
      BY <1>1 DEF Idle, Planned
  <2>2. todo' # <<>> => Head(todo') = OnPath("recreate", Stamped)
      BY <1>1 DEF Idle
  <2> QED
      BY <2>1, <2>2 DEF TodoInOrder, OnPath
<1>2. CASE Unlink \/ UNCHANGED vars
  <2>1. UNCHANGED <<todo, settings, invocation, finished>>
      BY <1>2 DEF Unlink, vars
  <2> QED
      BY <2>1 DEF TodoInOrder, Planned, Remaining, Planning
<1> QED
    BY <1>1, <1>2, Kinds, LaunchInOrder, AdvanceInOrder

\* The step at the head of the plan is the one that returns.
LEMMA Acting ==
    ASSUME Advance
    PROVE  LET op == Head(todo).op
           IN  /\ Evaluate <=> op = "evaluate"
               /\ Snapshot <=> op = "snapshot"
               /\ TrainAdapter <=> op = "train"
               /\ AdoptAdapter <=> op = "adopt"
               /\ StageForExport <=> op = "stage"
               /\ Recreate <=> op = "recreate"
               /\ CopyArtifacts <=> op = "copy"
               /\ QueryRows <=> op = "query"
               /\ WriteManifest <=> op = "manifest"
               /\ ViewOfRun <=> op = "view"
               /\ CombineRuns <=> op = "combine"
               /\ ClearLatest <=> op = "clear"
               /\ FillLatest <=> op = "fill"
               /\ WriteReadme <=> op = "readme"
               /\ Finish <=> op = "done"
<1> DEFINE op == Head(todo).op
<1>1. /\ Evaluate => op = "evaluate"
      /\ Snapshot => op = "snapshot"
      /\ TrainAdapter => op = "train"
      /\ AdoptAdapter => op = "adopt"
      /\ StageForExport => op = "stage"
    BY DEF Evaluate, Snapshot, TrainAdapter, AdoptAdapter, StageForExport, At
<1>2. /\ Recreate => op = "recreate"
      /\ CopyArtifacts => op = "copy"
      /\ QueryRows => op = "query"
      /\ WriteManifest => op = "manifest"
      /\ ViewOfRun => op = "view"
      /\ CombineRuns => op = "combine"
    BY DEF Recreate, CopyArtifacts, QueryRows, WriteManifest, ViewOfRun, CombineRuns, At
<1>3. /\ ClearLatest => op = "clear"
      /\ FillLatest => op = "fill"
      /\ WriteReadme => op = "readme"
      /\ Finish => op = "done"
    BY DEF ClearLatest, FillLatest, WriteReadme, Finish, At
<1> HIDE DEF op
<1>4. \/ Evaluate \/ Snapshot \/ TrainAdapter \/ AdoptAdapter \/ StageForExport
      \/ Recreate \/ CopyArtifacts \/ QueryRows \/ WriteManifest \/ ViewOfRun
      \/ CombineRuns \/ ClearLatest \/ FillLatest \/ WriteReadme \/ Finish
    BY DEF Advance
<1> QED
    BY <1>1, <1>2, <1>3, <1>4 DEF op

\* Whatever neither launches an invocation nor returns from a step leaves all but the
\* plan and results/latest alone.
LEMMA Standing ==
    ASSUME Idle \/ Unlink \/ UNCHANGED vars
    PROVE  /\ UNCHANGED <<settings, invocation, finished, processed, stored, adapters, folders>>
           /\ Planned' => Planned /\ todo' = todo /\ Remaining' = Remaining
                          /\ Planning' = Planning
<1>1. CASE Idle
  <2>1. ~ Planned'
      BY <1>1 DEF Idle, Planned
  <2> QED
      BY <1>1, <2>1 DEF Idle
<1>2. CASE Unlink \/ UNCHANGED vars
  <2>1. UNCHANGED <<todo, settings, invocation, finished, processed, stored, adapters, folders>>
      BY <1>2 DEF Unlink, vars
  <2> QED
      BY <2>1 DEF Planned, Remaining, Planning
<1> QED
    BY <1>1, <1>2

(***************************************************************************)
(* The adapters.                                                           *)
(***************************************************************************)
LEMMA ComparedWithAdapterStep ==
    ASSUME TypeInv, ComparedWithAdapter, OnlyStamped, [Next]_vars
    PROVE  ComparedWithAdapter'
<1> SUFFICES ASSUME adapters'["none"] = None, NEW tag \in Tags
             PROVE  adapters'[tag] = None /\ processed'[<<"comparison", tag>>] = None
    BY DEF ComparedWithAdapter
<1>1. adapters["none"] = None => adapters[tag] = None /\ processed[<<"comparison", tag>>] = None
    BY DEF ComparedWithAdapter
<1>2. /\ processed \in [Names \X Tags -> Content \cup {None}]
      /\ adapters \in [Tags -> RunIds \cup {None}]
      /\ "none" \in Tags /\ "comparison" \in Names /\ "none" \notin Devices
    BY DEF TypeInv, TypeOK, Tags, Names, Devices
<1>3. CASE Launch
    BY <1>1, <1>3 DEF Launch
<1>4. CASE Idle \/ Unlink \/ UNCHANGED vars
    BY <1>1, <1>4, Standing
<1>5. ASSUME Advance, TrainAdapter \/ AdoptAdapter
      PROVE  adapters["none"] = None /\ adapters'[tag] = None /\ processed' = processed
  <2>1. step.run \in RunIds /\ step.run # None /\ step.run.leg \in Devices
      BY <1>5, HeadTypes, RunTags, ConstantsAssumption DEF step, TrainAdapter, AdoptAdapter, At
  <2>2. ~ TrainAdapter
      BY <1>2, <2>1 DEF TrainAdapter
  <2> QED
      BY <1>1, <1>2, <1>5, <2>1, <2>2 DEF AdoptAdapter
<1>6. ASSUME Advance, ~ TrainAdapter, ~ AdoptAdapter
      PROVE  /\ adapters["none"] = None /\ adapters' = adapters
             /\ \A t \in Tags : adapters[t] = None /\ processed[<<"comparison", t>>] = None
    BY <1>6, Changes DEF ComparedWithAdapter
<1>7. ASSUME Advance, Evaluate
      PROVE  processed'[<<"comparison", tag>>] = None
  <2>1. adapters["none"] = None /\ \A t \in Tags : adapters[t] = None
      BY <1>6, <1>7, Acting
  <2>2. step.name \in Names /\ step.run \in RunIds /\ step.run.leg \in Tags
      BY <1>7, HeadTypes, RunTags DEF Evaluate, At, step
  <2>3. Adapter(step.run.leg) = None
      BY <2>1, <2>2 DEF Adapter
  <2>4. CASE step.name = "comparison"
      BY <1>6, <1>7, <2>3, <2>4, Acting DEF Evaluate
  <2>5. CASE step.name # "comparison"
    <3>1. processed' = [processed EXCEPT ![<<step.name, "none">>] =
                           [run |-> step.run, adapter |-> None]]
        BY <1>7, <2>5 DEF Evaluate
    <3>2. processed'[<<"comparison", tag>>] = processed[<<"comparison", tag>>]
        BY <1>2, <2>5, <3>1
    <3> QED
        BY <1>6, <1>7, <3>2, Acting
  <2> QED
      BY <2>4, <2>5
<1>8. ASSUME Advance, Snapshot
      PROVE  processed'[<<"comparison", tag>>] = None
  <2>1. \A t \in Tags : processed[<<"comparison", t>>] = None
      BY <1>6, <1>8, Acting
  <2>2. step.name \in Names /\ step.run.leg \in Tags
      BY <1>8, HeadTypes, RunTags DEF Snapshot, At, step
  <2>3. processed' = [processed EXCEPT ![<<step.name, step.run.leg>>] =
                         Tagged(step.name, step.run.leg)]
      BY <1>8 DEF Snapshot
  <2>4. step.name = "comparison" => Tagged(step.name, step.run.leg) = None
      BY <1>2, <2>1, <2>2 DEF Tagged
  <2> QED
      BY <1>2, <2>1, <2>2, <2>3, <2>4
<1>9. ASSUME Advance, StageForExport
      PROVE  processed'[<<"comparison", tag>>] = None
  <2>1. \A t \in Tags : processed[<<"comparison", t>>] = None
      BY <1>6, <1>9, Acting
  <2>2. folder.leg \in Tags
      BY <1>9, HeadTypes, RunTags DEF StageForExport, At, step, folder
  <2>3. processed' = [file \in DOMAIN processed |->
          IF file[2] = "none" /\ processed[<<file[1], folder.leg>>] # None
            THEN processed[<<file[1], folder.leg>>]
            ELSE processed[file]]
      BY <1>9 DEF StageForExport
  <2> QED
      BY <1>2, <2>1, <2>2, <2>3
<1>10. CASE Advance
  <2>1. CASE TrainAdapter \/ AdoptAdapter
      BY <1>1, <1>5, <1>10, <2>1
  <2>2. CASE Evaluate \/ Snapshot \/ StageForExport
      BY <1>6, <1>7, <1>8, <1>9, <1>10, <2>2, Acting
  <2>3. CASE ~ (TrainAdapter \/ AdoptAdapter \/ Evaluate \/ Snapshot \/ StageForExport)
      BY <1>1, <1>10, <2>3, Changes
  <2> QED
      BY <2>1, <2>2, <2>3
<1> QED
    BY <1>3, <1>4, <1>10, Kinds

LEMMA AdoptedStep ==
    ASSUME TypeInv, TodoInOrder, Adopted, OnlyStamped, [Next]_vars
    PROVE  Adopted'
<1>1. CASE Launch
  <2>1. Planned' /\ Remaining' = Planning' /\ Head(todo').op \in Openers
      BY <1>1, LaunchInOrder
  <2>2. ASSUME NEW d \in Legs(settings'), Trains(settings', d)
        PROVE  OnRun("adopt", Run(d)') \in Remaining'
      BY <2>1, <2>2, PlanTrains DEF Planning, Run
  <2> QED
      BY <2>1, <2>2 DEF Adopted, Openers
<1>2. CASE Idle \/ Unlink \/ UNCHANGED vars
  <2>1. UNCHANGED <<settings, invocation, adapters>>
      BY <1>2, Standing
  <2> QED
      BY <1>2, <2>1, Standing DEF Adopted, Run
<1>3. CASE Advance
  <2> SUFFICES ASSUME Planned'
               PROVE  /\ Head(todo').op = "adopt" => adapters'["none"] = Head(todo').run
                      /\ \A d \in Legs(settings) :
                            Trains(settings, d) /\ OnRun("adopt", Run(d)) \notin Remaining' =>
                                adapters'[d] = Run(d)
      BY <1>3 DEF Adopted, Advance, Run
  <2>1. /\ Planned /\ Remaining = {Head(todo)} \cup Remaining'
        /\ todo' # <<>> /\ Head(todo').op \notin Openers => Follows(Head(todo), Head(todo'))
      BY <1>3, Passing
  <2>2. adapters \in [Tags -> RunIds \cup {None}] /\ Devices \subseteq Tags
        /\ "none" \in Tags /\ "none" \notin Devices /\ Legs(settings) \subseteq Devices
      BY DEF TypeInv, TypeOK, Tags, Devices, Legs
  <2>3. ASSUME Head(todo').op = "adopt"
        PROVE  adapters'["none"] = Head(todo').run
    <3>1. Follows(Head(todo), Head(todo'))
        BY <2>1, <2>3, Passing, <1>3 DEF Openers
    <3>2. Head(todo).op = "train" /\ Head(todo').run = Head(todo).run
        BY <2>3, <3>1 DEF Follows, OnRun, OnName, OnPath
    <3> QED
        BY <1>3, <2>2, <3>2, Acting DEF TrainAdapter, step
  <2>4. ASSUME NEW d \in Legs(settings), Trains(settings, d),
               OnRun("adopt", Run(d)) \notin Remaining'
        PROVE  adapters'[d] = Run(d)
    <3>1. CASE AdoptAdapter
      <4>1. Head(todo).op = "adopt"
          BY <1>3, <3>1, Acting
      <4>2. PICK e \in Legs(settings) : Head(todo) = OnRun("adopt", Run(e))
          BY <2>1, <4>1, HeadOfPlan
      <4>3. adapters["none"] = Run(e) /\ step.run = Run(e) /\ Run(e).leg = e
          BY <2>1, <4>1, <4>2 DEF Adopted, OnRun, step, Run, RunId
      <4>4. adapters' = [adapters EXCEPT ![e] = Run(e)]
          BY <3>1, <4>3 DEF AdoptAdapter
      <4>5. CASE d = e
          BY <2>2, <4>4, <4>5
      <4>6. CASE d # e
        <5>1. OnRun("adopt", Run(d)) # Head(todo)
            BY <4>2, <4>6 DEF OnRun, Run, RunId
        <5> QED
            BY <2>1, <2>2, <2>4, <4>4, <4>6, <5>1 DEF Adopted
      <4> QED
          BY <4>5, <4>6
    <3>2. CASE ~ AdoptAdapter
      <4>1. OnRun("adopt", Run(d)) # Head(todo)
          BY <1>3, <3>2, Acting DEF OnRun
      <4>2. adapters[d] = Run(d)
          BY <2>1, <2>4, <4>1 DEF Adopted
      <4>3. adapters'[d] = adapters[d]
          BY <1>3, <2>2, <3>2, Changes DEF TrainAdapter
      <4> QED
          BY <4>2, <4>3
    <3> QED
        BY <3>1, <3>2
  <2> QED
      BY <2>3, <2>4
<1> QED
    BY <1>1, <1>2, <1>3, Kinds

(***************************************************************************)
(* The ranks of the steps.                                                 *)
(***************************************************************************)
LEMMA Ranks ==
    /\ Phase("cpu") = 300 /\ Phase("cuda") = 400
    /\ Phase("both") = 500 /\ Phase("runtimes") = 600
    /\ \A d \in Devices : 300 <= Phase(d) /\ Phase(d) <= 400 /\ Phase(d) \in Nat
    /\ \A run : \A op \in {"evaluate", "snapshot"} :
          Rank(OnName(op, "comparison", run)) = Phase(run.leg) + Position(op)
    /\ \A n, run : \A op \in {"evaluate", "snapshot"} :
          n # "comparison" => Rank(OnName(op, n, run)) = 10
    /\ \A run : \A op \in {"train", "adopt"} : Rank(OnRun(op, run)) = 20
    /\ \A f : \A op \in ExportSteps \cup {"combine"} :
          Rank(OnPath(op, f)) = Phase(f.leg) + Position(op)
    /\ Rank([op |-> "done"]) = 700
<1>1. /\ Phase("cpu") = 300 /\ Phase("cuda") = 400
      /\ Phase("both") = 500 /\ Phase("runtimes") = 600
      /\ \A d \in Devices : 300 <= Phase(d) /\ Phase(d) <= 400 /\ Phase(d) \in Nat
    BY DEF Phase, Devices
<1>2. \A run : \A op \in {"evaluate", "snapshot"} :
          Rank(OnName(op, "comparison", run)) = Phase(run.leg) + Position(op)
    BY DEF Rank, OnName
<1>3. \A n, run : \A op \in {"evaluate", "snapshot"} :
          n # "comparison" => Rank(OnName(op, n, run)) = 10
    BY DEF Rank, OnName
<1>4. \A run : \A op \in {"train", "adopt"} : Rank(OnRun(op, run)) = 20
    BY DEF Rank, OnRun
<1>5. \A f : \A op \in ExportSteps \cup {"combine"} :
          Rank(OnPath(op, f)) = Phase(f.leg) + Position(op)
    BY DEF Rank, OnPath, ExportSteps
<1>6. Rank([op |-> "done"]) = 700
    BY DEF Rank
<1> QED
    BY <1>1, <1>2, <1>3, <1>4, <1>5, <1>6

LEMMA Positions ==
    /\ Position("evaluate") = 0 /\ Position("snapshot") = 1 /\ Position("combine") = 0
    /\ Position("stage") = 2 /\ Position("recreate") = 3 /\ Position("copy") = 4
    /\ Position("query") = 5 /\ Position("manifest") = 6 /\ Position("view") = 7
    /\ Position("clear") = 8 /\ Position("fill") = 9 /\ Position("readme") = 10
BY DEF Position

(***************************************************************************)
(* The files of an invocation: what a device has evaluated is under its    *)
(* name, with the adapter it trained.                                      *)
(***************************************************************************)
LEMMA FileTypes ==
    ASSUME TypeInv
    PROVE  /\ processed \in [Names \X Tags -> Content \cup {None}]
           /\ adapters \in [Tags -> RunIds \cup {None}]
           /\ Devices \subseteq Tags /\ "none" \in Tags /\ "none" \notin Devices
           /\ Legs(settings) \subseteq Devices /\ Evaluated(settings) \subseteq Names
           /\ "comparison" \in Evaluated(settings)
BY DEF TypeInv, TypeOK, Tags, Devices, Legs, Evaluated, Names

\* The runs of an invocation have run ids, and folders of that name.
LEMMA RunsAreRunIds ==
    ASSUME TypeInv, invocation # 0, NEW d \in Devices
    PROVE  /\ Run(d) \in RunIds /\ Run(d) \in Folders
           /\ Run(d).inv = invocation /\ Run(d).leg = d
<1>1. invocation \in Invocations
    BY ConstantsAssumption DEF TypeInv, TypeOK, Invocations
<1> QED
    BY <1>1, RunIdType, RunIdsAreFolders DEF Run

\* What the evaluation of a run leaves under the untagged name.
LEMMA Evaluating ==
    ASSUME TypeInv, TodoInOrder, Adopted, Advance, Planned, Evaluate
    PROVE  LET st == Head(todo)
           IN  \/ NothingToCompare(st.name)
               \/ Own(processed'[<<st.name, "none">>], st.name, st.run)
<1> DEFINE adapter == IF step.name = "comparison" THEN Adapter(step.run.leg) ELSE None
<1>1. /\ Head(todo).op = "evaluate" /\ step = Head(todo)
      /\ step.name \in Names /\ step.run \in RunIds /\ step.run.leg \in Devices
    BY HeadTypes, RunTags DEF Evaluate, At, Planned, step
<1>2. PICK d \in Legs(settings), n \in Names : Head(todo) = OnName("evaluate", n, Run(d))
    BY <1>1, HeadOfPlan
<1>3. step.name = n /\ step.run = Run(d) /\ Run(d).leg = d
    BY <1>1, <1>2 DEF OnName, Run, RunId
<1>4. adapters \in [Tags -> RunIds \cup {None}] /\ d \in Tags /\ Run(d) # None
      /\ processed \in [Names \X Tags -> Content \cup {None}] /\ "none" \in Tags
    BY <1>1, <1>3, FileTypes, ConstantsAssumption
<1>5. n = "comparison" /\ Trains(settings, d) => Adapter(d) = Run(d)
  <2> SUFFICES ASSUME n = "comparison", Trains(settings, d)
               PROVE  Adapter(d) = Run(d)
      OBVIOUS
  <2>1. OnRun("adopt", Run(d)) \in Planning
      BY PlanTrains DEF Planning, Run
  <2>2. Rank(OnRun("adopt", Run(d))) < Rank(Head(todo))
    <3>1. Rank(OnRun("adopt", Run(d))) = 20
        BY Ranks
    <3>2. Rank(Head(todo)) = Phase(d) + 0
        BY <1>2, <1>3, Ranks, Positions
    <3>3. Phase(d) \in Nat /\ 300 <= Phase(d)
        BY <1>1, <1>3, Ranks
    <3> QED
        BY <3>1, <3>2, <3>3
  <2>3. adapters[d] = Run(d)
      BY <2>1, <2>2, Before DEF Adopted
  <2> QED
      BY <1>4, <2>3 DEF Adapter
<1>6. Adapter(d) \in RunIds \cup {None}
    BY <1>4 DEF Adapter
<1>7. CASE n = "comparison" /\ Adapter(d) = None
    BY <1>1, <1>3, <1>4, <1>7 DEF Adapter, NothingToCompare
<1>8. CASE ~ (n = "comparison" /\ Adapter(d) = None)
  <2>1. processed' = [processed EXCEPT ![<<n, "none">>] = [run |-> Run(d), adapter |-> adapter]]
      BY <1>3, <1>8 DEF Evaluate
  <2>2. adapter \in RunIds \cup {None} /\ (n = "comparison" => adapter = Adapter(d))
      BY <1>3, <1>6
  <2> HIDE DEF adapter
  <2>3. [run |-> Run(d), adapter |-> adapter] \in Content
      BY <1>1, <1>3, <2>2 DEF Content
  <2>4. [run |-> Run(d), adapter |-> adapter] # None
      BY <2>3, ConstantsAssumption
  <2>5. processed'[<<n, "none">>] = [run |-> Run(d), adapter |-> adapter]
      BY <1>4, <2>1
  <2>6. Own(processed'[<<n, "none">>], n, Run(d))
      BY <1>3, <1>5, <2>2, <2>4, <2>5 DEF Own
  <2> QED
      BY <1>1, <1>3, <2>6
<1> QED
    BY <1>7, <1>8

\* Training comes before the comparison is taken.
LEMMA ComparisonComesLater ==
    ASSUME TypeInv, TodoInOrder, Planned, TrainAdapter \/ AdoptAdapter,
           NEW d \in Legs(settings)
    PROVE  OnName("snapshot", "comparison", Run(d)) \in Elements(Tail(todo))
<1>1. PICK op \in {"train", "adopt"}, e \in Legs(settings) : Head(todo) = OnRun(op, Run(e))
    BY HeadOfPlan DEF TrainAdapter, AdoptAdapter, At
<1>2. OnName("snapshot", "comparison", Run(d)) \in Planning
    BY PlanEvaluates, FileTypes DEF Planning, Run
<1>3. Rank(OnName("snapshot", "comparison", Run(d))) = Phase(d) + 1
    BY Ranks, Positions DEF Run, RunId
<1>4. Rank(Head(todo)) = 20
    BY <1>1, Ranks
<1>5. Phase(d) \in Nat /\ 300 <= Phase(d)
    BY FileTypes, Ranks
<1>6. Rank(Head(todo)) < Rank(OnName("snapshot", "comparison", Run(d)))
    BY <1>3, <1>4, <1>5
<1> QED
    BY <1>2, <1>6, After

\* What a device has evaluated stays under its name, whatever comes next.
LEMMA SnapshotsLast ==
    ASSUME TypeInv, TodoInOrder, SnapshotsTaken, Advance, Planned',
           NEW d \in Legs(settings), NEW n \in Evaluated(settings),
           OnName("snapshot", n, Run(d)) \notin Remaining'
    PROVE  NothingToCompare(n)' \/ Own(processed'[<<n, d>>], n, Run(d))
<1> DEFINE x == OnName("snapshot", n, Run(d))
<1>1. /\ Planned /\ Remaining = {Head(todo)} \cup Remaining'
      /\ todo' # <<>> /\ todo' = Tail(todo)
    BY Passing
<1>2. /\ processed \in [Names \X Tags -> Content \cup {None}]
      /\ adapters \in [Tags -> RunIds \cup {None}]
      /\ n \in Names /\ d \in Devices /\ d \in Tags /\ "none" \in Tags /\ d # "none"
    BY FileTypes
<1>3. NothingToCompare(n) => NothingToCompare(n)'
  <2>1. n = "comparison" => ~ (TrainAdapter \/ AdoptAdapter)
      BY <1>1, ComparisonComesLater DEF Remaining
  <2> QED
      BY <2>1, Changes DEF NothingToCompare
<1>4. CASE Snapshot
  <2>1. Head(todo).op = "snapshot"
      BY <1>4, Acting
  <2>2. PICK e \in Legs(settings), m \in Names : Head(todo) = OnName("snapshot", m, Run(e))
      BY <1>1, <2>1, HeadOfPlan
  <2>3. step.name = m /\ step.run = Run(e) /\ Run(e).leg = e /\ e \in Tags
      BY <2>2, FileTypes DEF OnName, Run, RunId, step
  <2>4. processed' = [processed EXCEPT ![<<m, e>>] = Tagged(m, e)]
      BY <1>4, <2>3 DEF Snapshot
  <2>5. CASE m = n /\ e = d
    <3>1. processed'[<<n, d>>] = Tagged(n, d)
        BY <1>2, <2>4, <2>5
    <3>2. NothingToCompare(n) \/ Own(processed[<<n, "none">>], n, Run(d))
        BY <1>1, <2>1, <2>3, <2>5 DEF SnapshotsTaken, step
    <3>3. Own(processed[<<n, "none">>], n, Run(d)) => Tagged(n, d) = processed[<<n, "none">>]
        BY DEF Own, Tagged
    <3> QED
        BY <1>3, <3>1, <3>2, <3>3
  <2>6. CASE ~ (m = n /\ e = d)
    <3>1. x # Head(todo)
        BY <2>2, <2>6 DEF OnName, Run, RunId
    <3>2. NothingToCompare(n) \/ Own(processed[<<n, d>>], n, Run(d))
        BY <1>1, <3>1 DEF SnapshotsTaken
    <3>3. processed'[<<n, d>>] = processed[<<n, d>>]
        BY <1>2, <2>3, <2>4, <2>6
    <3> QED
        BY <1>3, <3>2, <3>3
  <2> QED
      BY <2>5, <2>6
<1>5. CASE ~ Snapshot
  <2>1. x # Head(todo)
      BY <1>5, Acting DEF OnName
  <2>2. NothingToCompare(n) \/ Own(processed[<<n, d>>], n, Run(d))
      BY <1>1, <2>1 DEF SnapshotsTaken
  <2>3. processed'[<<n, d>>] = processed[<<n, d>>]
    <3>1. CASE Evaluate
      <4>1. \/ processed' = processed
            \/ \E c : processed' = [processed EXCEPT ![<<step.name, "none">>] = c]
          BY <3>1 DEF Evaluate
      <4> QED
          BY <1>2, <4>1
    <3>2. CASE StageForExport
        BY <1>2, <3>2 DEF StageForExport
    <3> QED
        BY <1>5, <3>1, <3>2, Changes
  <2> QED
      BY <1>3, <2>2, <2>3
<1> QED
    BY <1>4, <1>5

LEMMA SnapshotsTakenStep ==
    ASSUME TypeInv, TodoInOrder, Adopted, SnapshotsTaken, OnlyStamped, [Next]_vars
    PROVE  SnapshotsTaken'
<1>1. CASE Launch
  <2>1. Planned' /\ Remaining' = Planning' /\ Head(todo').op \in Openers
      BY <1>1, LaunchInOrder
  <2>2. ASSUME NEW d \in Legs(settings'), NEW n \in Evaluated(settings')
        PROVE  OnName("snapshot", n, Run(d)') \in Remaining'
      BY <2>1, <2>2, PlanEvaluates DEF Planning, Run
  <2> QED
      BY <2>1, <2>2 DEF SnapshotsTaken, Openers
<1>2. CASE Idle \/ Unlink \/ UNCHANGED vars
  <2>1. UNCHANGED <<settings, invocation, processed, adapters>>
      BY <1>2, Standing
  <2> QED
      BY <1>2, <2>1, Standing DEF SnapshotsTaken, NothingToCompare, Own, Run
<1>3. CASE Advance
  <2> SUFFICES ASSUME Planned'
               PROVE  SnapshotsTaken'
      BY DEF SnapshotsTaken
  <2>1. ASSUME Head(todo').op = "snapshot"
        PROVE  \/ Head(todo').name = "comparison" /\ adapters'["none"] = None
               \/ Own(processed'[<<Head(todo').name, "none">>], Head(todo').name, Head(todo').run)
    <3>1. Planned /\ Follows(Head(todo), Head(todo'))
        BY <1>3, <2>1, Passing DEF Openers
    <3>2. /\ Head(todo).op = "evaluate" /\ Head(todo').run = Head(todo).run
          /\ Head(todo').name = Head(todo).name
        BY <2>1, <3>1 DEF Follows, OnRun, OnName, OnPath
    <3>3. Evaluate /\ adapters' = adapters
        BY <1>3, <3>2, Acting DEF Evaluate
    <3>4. \/ NothingToCompare(Head(todo).name)
          \/ Own(processed'[<<Head(todo).name, "none">>], Head(todo).name, Head(todo).run)
        BY <1>3, <3>1, <3>3, Evaluating
    <3> QED
        BY <3>2, <3>3, <3>4 DEF NothingToCompare
  <2>2. ASSUME NEW d \in Legs(settings), NEW n \in Evaluated(settings),
               OnName("snapshot", n, Run(d)) \notin Remaining'
        PROVE  NothingToCompare(n)' \/ Own(processed'[<<n, d>>], n, Run(d))
      BY <1>3, <2>2, SnapshotsLast
  <2>3. settings' = settings /\ invocation' = invocation
      BY <1>3 DEF Advance
  <2> QED
      BY <2>1, <2>2, <2>3 DEF SnapshotsTaken, NothingToCompare, Own, Run
<1> QED
    BY <1>1, <1>2, <1>3, Kinds

(***************************************************************************)
(* The folders of the runs.                                                *)
(***************************************************************************)
LEMMA Underway ==
    ASSUME TypeInv, TodoInOrder, Planned, Head(todo).op # "done"
    PROVE  invocation # 0 /\ finished < invocation /\ finished # invocation
<1>1. finished \in Nat /\ invocation \in Nat /\ finished < invocation
    BY DEF TypeInv, TypeOK, TodoInOrder
<1> QED
    BY <1>1

LEMMA FolderTypes ==
    ASSUME TypeInv
    PROVE  /\ folders \in [Folders \cup {Stamped} -> FolderRecords]
           /\ Stamped \notin Folders /\ RunIds \subseteq Folders
           /\ invocation \in Nat
<1>1. invocation \in Nat
    BY DEF TypeInv, TypeOK
<1>2. folders \in [Folders \cup {Stamped} -> FolderRecords]
    BY DEF TypeInv, TypeOK, FolderRecords
<1> QED
    BY <1>1, <1>2, RunIdsAreFolders

\* A step of a plan changes one folder, and that one is of the invocation.
LEMMA FolderSteps ==
    ASSUME TypeInv, TodoInOrder, Advance, NEW f \in Folders
    PROVE  \/ folders'[f] = folders[f]
           \/ /\ Planned /\ f = Head(todo).folder
              /\ \E d \in Legs(settings) : f = Run(d)
              /\ \/ Recreate /\ folders'[f].state = "partial" /\ folders'[f].files = NoFiles
                 \/ /\ CopyArtifacts /\ folders'[f].state = folders[f].state
                    /\ folders'[f].files = [name \in Names |-> Source(name)]
                 \/ /\ WriteManifest /\ folders'[f].state = "exported"
                    /\ folders'[f].files = folders[f].files
                 \/ /\ ViewOfRun /\ folders'[f].state = folders[f].state
                    /\ folders'[f].files = folders[f].files
           \/ /\ Planned /\ f = Head(todo).folder /\ f \notin RunIds /\ CombineRuns
              /\ folders'[f].state = "exported"
<1> SUFFICES ASSUME folders'[f] # folders[f]
             PROVE  /\ Planned /\ f = Head(todo).folder
                    /\ \/ /\ \E d \in Legs(settings) : f = Run(d)
                          /\ \/ Recreate /\ folders'[f].state = "partial" /\ folders'[f].files = NoFiles
                             \/ /\ CopyArtifacts /\ folders'[f].state = folders[f].state
                                /\ folders'[f].files = [name \in Names |-> Source(name)]
                             \/ /\ WriteManifest /\ folders'[f].state = "exported"
                                /\ folders'[f].files = folders[f].files
                             \/ /\ ViewOfRun /\ folders'[f].state = folders[f].state
                                /\ folders'[f].files = folders[f].files
                       \/ f \notin RunIds /\ CombineRuns /\ folders'[f].state = "exported"
    OBVIOUS
<1>1. /\ folders \in [Folders \cup {Stamped} -> FolderRecords]
      /\ Stamped \notin Folders
    BY FolderTypes
<1>2. Recreate \/ CopyArtifacts \/ WriteManifest \/ ViewOfRun \/ CombineRuns
    BY Changes
<1>3. f = folder
    BY <1>1, <1>2 DEF Recreate, CopyArtifacts, WriteManifest, ViewOfRun, CombineRuns
<1>4. Planned
    BY <1>1, <1>3 DEF TodoInOrder, Advance, folder, step
<1>5. CASE CombineRuns
  <2>1. f \notin RunIds
      BY <1>3, <1>5, HeadTypes DEF CombineRuns, At, folder, step
  <2>2. \E c : folders' = [folders EXCEPT ![f] = [Absent EXCEPT !.state = "exported", !.cells = c]]
      BY <1>3, <1>5 DEF CombineRuns
  <2>3. folders'[f].state = "exported"
      BY <1>1, <2>2 DEF Absent
  <2> QED
      BY <1>3, <1>4, <1>5, <2>1, <2>3 DEF folder, step
<1>6. ASSUME Recreate \/ CopyArtifacts \/ WriteManifest \/ ViewOfRun
      PROVE  \E d \in Legs(settings) : f = Run(d)
  <2>1. PICK d \in Legs(settings) : Head(todo) = OnPath(Head(todo).op, Run(d))
    <3>1. Head(todo).op \in {"recreate", "copy", "manifest", "view"}
        BY <1>6, Acting
    <3> QED
        BY <1>4, <3>1, HeadOfPlan
  <2> QED
      BY <1>3, <2>1 DEF folder, step, OnPath
<1>7. CASE Recreate
  <2>1. folders'[f] = [Absent EXCEPT !.state = "partial"]
      BY <1>1, <1>3, <1>7 DEF Recreate
  <2>2. folders'[f].state = "partial" /\ folders'[f].files = NoFiles
      BY <2>1 DEF Absent
  <2> QED
      BY <1>3, <1>4, <1>6, <1>7, <2>2 DEF folder, step
<1>8. CASE CopyArtifacts
  <2>1. folders'[f] = [folders[f] EXCEPT !.files = [name \in Names |-> Source(name)]]
      BY <1>1, <1>3, <1>8 DEF CopyArtifacts
  <2>2. /\ folders'[f].state = folders[f].state
        /\ folders'[f].files = [name \in Names |-> Source(name)]
      BY <1>1, <2>1 DEF FolderRecords
  <2> QED
      BY <1>3, <1>4, <1>6, <1>8, <2>2 DEF folder, step
<1>9. CASE WriteManifest
  <2>1. folders'[f] = [folders[f] EXCEPT !.state = "exported"]
      BY <1>1, <1>3, <1>9 DEF WriteManifest
  <2>2. folders'[f].state = "exported" /\ folders'[f].files = folders[f].files
      BY <1>1, <2>1 DEF FolderRecords
  <2> QED
      BY <1>3, <1>4, <1>6, <1>9, <2>2 DEF folder, step
<1>10. CASE ViewOfRun
  <2>1. \E c : folders' = [folders EXCEPT ![f] = [folders[f] EXCEPT !.cells = c]]
      BY <1>3, <1>10 DEF ViewOfRun
  <2>2. folders'[f].state = folders[f].state /\ folders'[f].files = folders[f].files
      BY <1>1, <2>1 DEF FolderRecords
  <2> QED
      BY <1>3, <1>4, <1>6, <1>10, <2>2 DEF folder, step
<1> QED
    BY <1>2, <1>5, <1>7, <1>8, <1>9, <1>10

LEMMA ChangedFolderIsOfInvocation ==
    ASSUME TypeInv, TodoInOrder, Advance, NEW f \in Folders, folders'[f] # folders[f]
    PROVE  f.inv = invocation
<1>1. Planned /\ f = Head(todo).folder
    BY FolderSteps
<1>2. CASE \E d \in Legs(settings) : f = Run(d)
    BY <1>2 DEF Run, RunId
<1>3. CASE CombineRuns
  <2>1. \/ Head(todo) = OnPath("combine", [inv |-> invocation, leg |-> "both"])
        \/ Head(todo) = OnPath("combine", [inv |-> invocation, leg |-> "runtimes"])
      BY <1>1, <1>3, HeadOfPlan DEF CombineRuns, At
  <2> QED
      BY <1>1, <2>1 DEF OnPath
<1> QED
    BY <1>2, <1>3, FolderSteps

LEMMA NoFolderIsEarlyStep ==
    ASSUME TypeInv, TodoInOrder, NoFolderIsEarly, OnlyStamped, [Next]_vars
    PROVE  NoFolderIsEarly'
<1> SUFFICES ASSUME NEW f \in Folders, f.inv > invocation'
             PROVE  folders'[f] = Absent
    BY DEF NoFolderIsEarly
<1>1. f.inv \in Nat /\ invocation \in Nat
    BY FolderTypes DEF Folders, Invocations
<1>2. CASE Launch
    BY <1>1, <1>2 DEF Launch, NoFolderIsEarly
<1>3. CASE Idle \/ Unlink \/ UNCHANGED vars
    BY <1>3, Standing DEF NoFolderIsEarly
<1>4. CASE Advance
  <2>1. f.inv # invocation
      BY <1>1, <1>4 DEF Advance
  <2> QED
      BY <1>4, <2>1, ChangedFolderIsOfInvocation DEF NoFolderIsEarly, Advance
<1> QED
    BY <1>2, <1>3, <1>4, Kinds

\* The ranks of the steps on one run.
LEMMA RanksOfRun ==
    ASSUME NEW d \in Devices
    PROVE  /\ Phase(d) \in Nat /\ 300 <= Phase(d) /\ Phase(d) <= 400
           /\ \A n : /\ Rank(OnName("snapshot", n, Run(d))) \in Nat
                     /\ Rank(OnName("snapshot", n, Run(d))) <= Phase(d) + 1
           /\ Rank(OnRun("adopt", Run(d))) = 20
           /\ Rank(OnPath("recreate", Run(d))) = Phase(d) + 3
           /\ Rank(OnPath("copy", Run(d))) = Phase(d) + 4
           /\ Rank(OnPath("manifest", Run(d))) = Phase(d) + 6
           /\ Rank(OnPath("view", Run(d))) = Phase(d) + 7
           /\ Rank(OnPath("readme", Run(d))) = Phase(d) + 10
<1>1. Run(d).leg = d
    BY DEF Run, RunId
<1>2. Phase(d) \in Nat /\ 300 <= Phase(d) /\ Phase(d) <= 400
    BY Ranks
<1>3. ASSUME NEW n
      PROVE  /\ Rank(OnName("snapshot", n, Run(d))) \in Nat
             /\ Rank(OnName("snapshot", n, Run(d))) <= Phase(d) + 1
  <2>1. CASE n = "comparison"
    <3>1. Rank(OnName("snapshot", n, Run(d))) = Phase(d) + 1
        BY <1>1, <2>1, Ranks, Positions
    <3> QED
        BY <1>2, <3>1
  <2>2. CASE n # "comparison"
    <3>1. Rank(OnName("snapshot", n, Run(d))) = 10
        BY <2>2, Ranks
    <3> QED
        BY <1>2, <3>1
  <2> QED
      BY <2>1, <2>2
<1>4. \A op \in ExportSteps : Rank(OnPath(op, Run(d))) = Phase(d) + Position(op)
    BY <1>1, Ranks
<1> QED
    BY <1>2, <1>3, <1>4, Ranks, Positions DEF ExportSteps

\* What step 7 copies is of the run it exports.
LEMMA Copying ==
    ASSUME TypeInv, TodoInOrder, SnapshotsTaken, Planned, CopyArtifacts,
           NEW d \in Legs(settings), Head(todo).folder = Run(d),
           NEW n \in Evaluated(settings)
    PROVE  NothingToCompare(n) \/ (Source(n) # None /\ Own(Source(n), n, Run(d)))
<1>1. Head(todo).op = "copy" /\ d \in Devices
    BY FileTypes DEF CopyArtifacts, At
<1>2. Head(todo) = OnPath("copy", Run(d))
  <2>1. PICK e \in Legs(settings) : Head(todo) = OnPath("copy", Run(e))
      BY <1>1, HeadOfPlan
  <2> QED
      BY <2>1 DEF OnPath
<1>3. OnName("snapshot", n, Run(d)) \in Planning
    BY PlanEvaluates DEF Planning, Run
<1>4. Rank(OnName("snapshot", n, Run(d))) < Rank(Head(todo))
    BY <1>1, <1>2, RanksOfRun
<1>5. NothingToCompare(n) \/ Own(processed[<<n, d>>], n, Run(d))
    BY <1>3, <1>4, Before DEF SnapshotsTaken
<1>6. folder.leg = d
    BY DEF folder, step, Run, RunId
<1> QED
    BY <1>1, <1>5, <1>6 DEF Own, Source

LEMMA FilesAreOwnStep ==
    ASSUME TypeInv, TodoInOrder, ComparedWithAdapter, SnapshotsTaken, NoFolderIsEarly,
           FilesAreOwn, OnlyStamped, [Next]_vars
    PROVE  FilesAreOwn'
<1> SUFFICES ASSUME NEW run \in RunIds, run.inv = invocation', NEW n \in Evaluated(settings'),
                    folders'[run].files[n] # None
             PROVE  /\ folders'[run].files[n].run = run
                    /\ n = "comparison" /\ Trains(settings', run.leg) =>
                          folders'[run].files[n].adapter = run
    BY DEF FilesAreOwn, Own
<1>1. run \in Folders /\ run.inv \in Nat /\ run.leg \in Devices /\ n \in Names
    BY FolderTypes DEF RunIds, Invocations, Evaluated, Names
<1>2. CASE Launch
  <2>1. folders'[run] = Absent
      BY <1>1, <1>2, FolderTypes DEF Launch, NoFolderIsEarly
  <2> QED
      BY <1>1, <2>1 DEF Absent, NoFiles
<1>3. CASE Idle \/ Unlink \/ UNCHANGED vars
    BY <1>3, Standing DEF FilesAreOwn, Own
<1>4. CASE Advance
  <2>1. settings' = settings /\ invocation' = invocation
      BY <1>4 DEF Advance
  <2>2. CASE folders'[run].files = folders[run].files
      BY <2>1, <2>2 DEF FilesAreOwn, Own
  <2>3. CASE folders'[run].files = NoFiles
      BY <1>1, <2>3 DEF NoFiles
  <2>4. ASSUME Planned, CopyArtifacts, run = Head(todo).folder,
               folders'[run].files = [name \in Names |-> Source(name)],
               NEW d \in Legs(settings), run = Run(d)
        PROVE  Own(folders'[run].files[n], n, run)
    <3>1. folders'[run].files[n] = Source(n)
        BY <1>1, <2>4
    <3>2. ~ NothingToCompare(n)
      <4>1. SUFFICES ASSUME NothingToCompare(n)
                     PROVE  FALSE
          OBVIOUS
      <4>2. processed[<<n, folder.leg>>] = None /\ processed[<<n, "none">>] = None
        <5>1. folder.leg \in Tags /\ "none" \in Tags
            BY <1>1, <2>4, FileTypes DEF folder, step
        <5> QED
            BY <4>1, <5>1 DEF NothingToCompare, ComparedWithAdapter
      <4> QED
          BY <3>1, <4>2 DEF Source
    <3> QED
        BY <2>1, <2>4, <3>1, <3>2, Copying
  <2>5. Own(folders'[run].files[n], n, run)
      BY <1>1, <1>4, <2>1, <2>2, <2>3, <2>4, FolderSteps DEF Own
  <2> QED
      BY <2>1, <2>5 DEF Own
<1> QED
    BY <1>2, <1>3, <1>4, Kinds

\* What comes on a run after the step at the head of the plan, of lower rank, is
\* still to come when it returns.
LEMMA StillToCome ==
    ASSUME TypeInv, TodoInOrder, Advance, Planned', NEW x \in Planning,
           Rank(Head(todo)) < Rank(x)
    PROVE  x \in Remaining'
<1>1. Planned /\ todo' = Tail(todo)
    BY Passing
<1>2. x \in Elements(Tail(todo))
    BY <1>1, After
<1> QED
    BY <1>1, <1>2 DEF Remaining

\* A run whose folder is made again is still to be copied and recorded.
LEMMA RecreateComesFirst ==
    ASSUME TypeInv, TodoInOrder, Advance, Planned', NEW d \in Legs(settings),
           Head(todo) = OnPath("recreate", Run(d))
    PROVE  OnPath("copy", Run(d)) \in Remaining' /\ OnPath("manifest", Run(d)) \in Remaining'
<1>1. OnPath("copy", Run(d)) \in Planning /\ OnPath("manifest", Run(d)) \in Planning
    BY PlanExports DEF Planning, Run, ExportSteps
<1>2. d \in Devices
    BY FileTypes
<1>3. /\ Rank(Head(todo)) < Rank(OnPath("copy", Run(d)))
      /\ Rank(Head(todo)) < Rank(OnPath("manifest", Run(d)))
    BY <1>2, RanksOfRun
<1> QED
    BY <1>1, <1>3, StillToCome

LEMMA TrainingComesFirst ==
    ASSUME TypeInv, TodoInOrder, Advance, Planned', NEW d \in Legs(settings),
           TrainAdapter \/ AdoptAdapter
    PROVE  OnPath("copy", Run(d)) \in Remaining'
<1>1. PICK op \in {"train", "adopt"}, e \in Legs(settings) : Head(todo) = OnRun(op, Run(e))
    BY HeadOfPlan, Passing DEF TrainAdapter, AdoptAdapter, At
<1>2. Rank(Head(todo)) = 20
    BY <1>1, Ranks
<1>3. OnPath("copy", Run(d)) \in Planning
    BY PlanExports DEF Planning, Run, ExportSteps
<1>4. d \in Devices
    BY FileTypes
<1>5. Rank(Head(todo)) < Rank(OnPath("copy", Run(d)))
    BY <1>2, <1>4, RanksOfRun
<1> QED
    BY <1>3, <1>5, StillToCome

LEMMA HeadOnRun ==
    ASSUME TypeInv, TodoInOrder, Planned, NEW d, Head(todo).folder = Run(d),
           Head(todo).op \in {"stage", "recreate", "copy", "query", "manifest", "view"}
    PROVE  d \in Legs(settings) /\ Head(todo) = OnPath(Head(todo).op, Run(d))
<1>1. PICK e \in Legs(settings) : Head(todo) = OnPath(Head(todo).op, Run(e))
    BY HeadOfPlan
<1>2. Run(e) = Run(d)
    BY <1>1 DEF OnPath
<1>3. e = d
    BY <1>2 DEF Run, RunId
<1> QED
    BY <1>1, <1>3

\* Once a run has been copied its files stay, and once it has been recorded it stays
\* exported: only an earlier step makes its folder again.
LEMMA RunFolderKept ==
    ASSUME TypeInv, TodoInOrder, Advance, Planned', NEW d \in Legs(settings)
    PROVE  /\ OnPath("copy", Run(d)) \notin Remaining' /\ Head(todo) # OnPath("copy", Run(d)) =>
                 folders'[Run(d)].files = folders[Run(d)].files
           /\ OnPath("manifest", Run(d)) \notin Remaining' =>
                 \/ folders'[Run(d)].state = "exported"
                 \/ /\ folders'[Run(d)].state = folders[Run(d)].state
                    /\ Head(todo) # OnPath("manifest", Run(d))
<1>1. Planned /\ d \in Devices
    BY Passing, FileTypes
<1>2. CASE Head(todo).op = "done"
  <2>1. folders' = folders
      BY <1>2, Changes, Acting
  <2> QED
      BY <1>2, <2>1 DEF OnPath
<1>3. CASE Head(todo).op # "done"
  <2> DEFINE f == Run(d)
  <2>1. f \in RunIds /\ f \in Folders
      BY <1>1, <1>3, Underway, RunsAreRunIds
  <2>2. \A op \in {"recreate", "copy", "manifest", "view"} :
            Head(todo).op = op /\ f = Head(todo).folder => Head(todo) = OnPath(op, f)
      BY <1>1, HeadOnRun
  <2>3. Head(todo) = OnPath("manifest", f) => folders'[f].state = "exported"
    <3>1. SUFFICES ASSUME Head(todo) = OnPath("manifest", f)
                   PROVE  folders'[f].state = "exported"
        OBVIOUS
    <3>2. WriteManifest /\ folder = f
        BY <3>1, Acting DEF OnPath, folder, step
    <3>3. folders' = [folders EXCEPT ![f].state = "exported"]
        BY <3>2 DEF WriteManifest
    <3> QED
        BY <2>1, <3>3, FolderTypes DEF FolderRecords
  <2>4. CASE folders'[f] = folders[f]
      BY <2>3, <2>4
  <2>5. CASE Recreate /\ f = Head(todo).folder
    <3>1. Head(todo) = OnPath("recreate", f)
        BY <2>2, <2>5, Acting
    <3> QED
        BY <3>1, RecreateComesFirst
  <2>6. CASE CopyArtifacts /\ f = Head(todo).folder /\ folders'[f].state = folders[f].state
    <3>1. Head(todo) = OnPath("copy", f)
        BY <2>2, <2>6, Acting
    <3>2. Head(todo) # OnPath("manifest", f)
        BY <3>1 DEF OnPath
    <3> QED
        BY <2>6, <3>1, <3>2
  <2>7. CASE WriteManifest /\ folders'[f].state = "exported"
             /\ folders'[f].files = folders[f].files
      BY <2>7
  <2>8. CASE ViewOfRun /\ folders'[f].state = folders[f].state
             /\ folders'[f].files = folders[f].files
    <3>1. Head(todo) # OnPath("manifest", f)
        BY <2>8, Acting DEF OnPath
    <3> QED
        BY <2>8, <3>1
  <2> QED
      BY <2>1, <2>4, <2>5, <2>6, <2>7, <2>8, FolderSteps
<1> QED
    BY <1>2, <1>3

\* What has been copied into the folder of a run stays there.
LEMMA CopiesLast ==
    ASSUME TypeInv, TodoInOrder, SnapshotsTaken, FilesAreCopied, Advance, Planned',
           NEW d \in Legs(settings), NEW n \in Evaluated(settings),
           OnPath("copy", Run(d)) \notin Remaining'
    PROVE  NothingToCompare(n)' \/ folders'[Run(d)].files[n] # None
<1>1. Planned /\ Remaining = {Head(todo)} \cup Remaining'
    BY Passing
<1>2. n \in Names /\ d \in Devices
    BY FileTypes
<1>3. NothingToCompare(n) => NothingToCompare(n)'
  <2>1. ~ (TrainAdapter \/ AdoptAdapter)
      BY TrainingComesFirst
  <2> QED
      BY <2>1, Changes DEF NothingToCompare
<1>4. CASE Head(todo) = OnPath("copy", Run(d))
  <2>1. CopyArtifacts /\ folder = Run(d) /\ Head(todo).op = "copy"
      BY <1>4, Acting DEF OnPath, folder, step
  <2>2. Run(d) \in Folders /\ folders \in [Folders \cup {Stamped} -> FolderRecords]
      BY <1>1, <1>2, <2>1, Underway, RunsAreRunIds, FolderTypes
  <2>3. folders' = [folders EXCEPT ![Run(d)].files = [name \in Names |-> Source(name)]]
      BY <2>1 DEF CopyArtifacts
  <2>4. folders'[Run(d)].files = [name \in Names |-> Source(name)]
      BY <2>2, <2>3 DEF FolderRecords
  <2>5. folders'[Run(d)].files[n] = Source(n)
      BY <1>2, <2>4
  <2>6. NothingToCompare(n) \/ Source(n) # None
      BY <1>1, <2>1, Copying DEF folder, step
  <2> QED
      BY <1>3, <2>5, <2>6
<1>5. CASE Head(todo) # OnPath("copy", Run(d))
  <2>1. NothingToCompare(n) \/ folders[Run(d)].files[n] # None
      BY <1>1, <1>5 DEF FilesAreCopied
  <2>2. folders'[Run(d)].files = folders[Run(d)].files
      BY <1>1, <1>5, RunFolderKept
  <2> QED
      BY <1>3, <2>1, <2>2
<1> QED
    BY <1>4, <1>5

LEMMA FilesAreCopiedStep ==
    ASSUME TypeInv, TodoInOrder, SnapshotsTaken, FilesAreCopied, OnlyStamped, [Next]_vars
    PROVE  FilesAreCopied'
<1>1. CASE Launch
  <2>1. Planned' /\ Remaining' = Planning' /\ Head(todo').op \in Openers
      BY <1>1, LaunchInOrder
  <2>2. ASSUME NEW d \in Legs(settings')
        PROVE  OnPath("copy", Run(d)') \in Remaining'
      BY <2>1, <2>2, PlanExports DEF Planning, Run, ExportSteps
  <2> QED
      BY <2>1, <2>2 DEF FilesAreCopied, Openers
<1>2. CASE Idle \/ Unlink \/ UNCHANGED vars
  <2>1. UNCHANGED <<settings, invocation, folders, adapters>>
      BY <1>2, Standing
  <2> QED
      BY <1>2, <2>1, Standing DEF FilesAreCopied, NothingToCompare, Run
<1>3. CASE Advance
  <2> SUFFICES ASSUME Planned'
               PROVE  FilesAreCopied'
      BY DEF FilesAreCopied
  <2>1. ASSUME Head(todo').op = "copy"
        PROVE  folders'[Head(todo').folder].state # "exported"
    <3>1. Planned /\ Follows(Head(todo), Head(todo'))
        BY <1>3, <2>1, Passing DEF Openers
    <3>2. Head(todo).op = "recreate" /\ Head(todo').folder = Head(todo).folder
        BY <2>1, <3>1 DEF Follows, OnRun, OnName, OnPath
    <3>3. Recreate /\ folder = Head(todo).folder /\ folder \in Folders \cup {Stamped}
        BY <1>3, <3>1, <3>2, Acting, HeadTypes, FolderTypes DEF Planned, folder, step
    <3>4. folders' = [folders EXCEPT ![folder] = [Absent EXCEPT !.state = "partial"]]
        BY <3>3 DEF Recreate
    <3> QED
        BY <3>2, <3>3, <3>4, FolderTypes DEF Absent
  <2>2. ASSUME NEW d \in Legs(settings), NEW n \in Evaluated(settings),
               OnPath("copy", Run(d)) \notin Remaining'
        PROVE  NothingToCompare(n)' \/ folders'[Run(d)].files[n] # None
      BY <1>3, <2>2, CopiesLast
  <2>3. settings' = settings /\ invocation' = invocation
      BY <1>3 DEF Advance
  <2> QED
      BY <2>1, <2>2, <2>3 DEF FilesAreCopied, NothingToCompare, Run
<1> QED
    BY <1>1, <1>2, <1>3, Kinds

LEMMA ManifestsAreWrittenStep ==
    ASSUME TypeInv, TodoInOrder, ManifestsAreWritten, OnlyStamped, [Next]_vars
    PROVE  ManifestsAreWritten'
<1>1. CASE Launch
  <2>1. Planned' /\ Remaining' = Planning'
      BY <1>1, LaunchInOrder
  <2>2. ASSUME NEW d \in Legs(settings')
        PROVE  OnPath("manifest", Run(d)') \in Remaining'
      BY <2>1, <2>2, PlanExports DEF Planning, Run, ExportSteps
  <2> QED
      BY <2>1, <2>2 DEF ManifestsAreWritten
<1>2. CASE Idle \/ Unlink \/ UNCHANGED vars
  <2>1. UNCHANGED <<settings, invocation, folders>>
      BY <1>2, Standing
  <2> QED
      BY <1>2, <2>1, Standing DEF ManifestsAreWritten, Run
<1>3. CASE Advance
  <2> SUFFICES ASSUME Planned', NEW d \in Legs(settings),
                      OnPath("manifest", Run(d)) \notin Remaining'
               PROVE  folders'[Run(d)].state = "exported"
      BY <1>3 DEF ManifestsAreWritten, Advance, Run
  <2>1. Planned /\ Remaining = {Head(todo)} \cup Remaining'
      BY <1>3, Passing
  <2>2. Head(todo) # OnPath("manifest", Run(d)) => folders[Run(d)].state = "exported"
      BY <2>1 DEF ManifestsAreWritten
  <2> QED
      BY <1>3, <2>2, RunFolderKept
<1> QED
    BY <1>1, <1>2, <1>3, Kinds

LEMMA ExportsAreComparedStep ==
    ASSUME TypeInv, TodoInOrder, ComparedWithAdapter, Adopted, NoFolderIsEarly, FilesAreCopied,
           ExportsAreCompared, OnlyStamped, [Next]_vars
    PROVE  ExportsAreCompared'
<1> SUFFICES ASSUME NEW run \in RunIds, run.inv = invocation',
                    folders'[run].state = "exported", Trains(settings', run.leg)
             PROVE  folders'[run].files["comparison"] # None
    BY DEF ExportsAreCompared
<1>1. run \in Folders /\ run.inv \in Nat /\ run.leg \in Devices
    BY FolderTypes DEF RunIds, Invocations
<1>2. CASE Launch
  <2>1. folders'[run] = Absent
      BY <1>1, <1>2, FolderTypes DEF Launch, NoFolderIsEarly
  <2> QED
      BY <2>1 DEF Absent
<1>3. CASE Idle \/ Unlink \/ UNCHANGED vars
    BY <1>3, Standing DEF ExportsAreCompared
<1>4. CASE Advance
  <2>1. settings' = settings /\ invocation' = invocation
      BY <1>4 DEF Advance
  <2>2. CASE folders'[run].state = folders[run].state /\ folders'[run].files = folders[run].files
      BY <2>1, <2>2 DEF ExportsAreCompared
  <2>3. CASE Planned /\ CopyArtifacts /\ run = Head(todo).folder
             /\ folders'[run].state = folders[run].state
    <3>1. Head(todo).op = "copy"
        BY <1>4, <2>3, Acting
    <3> QED
        BY <2>3, <3>1 DEF FilesAreCopied
  <2>4. ASSUME Planned, WriteManifest, run = Head(todo).folder,
               folders'[run].files = folders[run].files, NEW d \in Legs(settings), run = Run(d)
        PROVE  folders'[run].files["comparison"] # None
    <3>1. d \in Devices /\ run.leg = d
        BY <2>4, FileTypes DEF Run, RunId
    <3>2. Head(todo) = OnPath("manifest", Run(d))
      <4>1. Head(todo).op = "manifest"
          BY <1>4, <2>4, Acting
      <4> QED
          BY <2>4, <4>1, HeadOnRun
    <3>3. OnPath("copy", Run(d)) \notin Remaining
      <4>1. OnPath("copy", Run(d)) \in Planning
          BY PlanExports DEF Planning, Run, ExportSteps
      <4>2. Rank(OnPath("copy", Run(d))) < Rank(Head(todo))
          BY <3>1, <3>2, RanksOfRun
      <4> QED
          BY <2>4, <4>1, <4>2, Before
    <3>4. OnRun("adopt", Run(d)) \notin Remaining
      <4>1. OnRun("adopt", Run(d)) \in Planning
          BY <2>1, <3>1, PlanTrains DEF Planning, Run
      <4>2. Rank(OnRun("adopt", Run(d))) < Rank(Head(todo))
          BY <3>1, <3>2, RanksOfRun
      <4> QED
          BY <2>4, <4>1, <4>2, Before
    <3>5. adapters[d] = run
        BY <2>1, <2>4, <3>1, <3>4 DEF Adopted
    <3>6. adapters["none"] # None
        BY <3>1, <3>5, ConstantsAssumption, FileTypes DEF ComparedWithAdapter
    <3>7. NothingToCompare("comparison") \/ folders[run].files["comparison"] # None
        BY <2>4, <3>3, FileTypes DEF FilesAreCopied
    <3> QED
        BY <2>4, <3>6, <3>7 DEF NothingToCompare
  <2> QED
      BY <1>1, <1>4, <2>2, <2>3, <2>4, FolderSteps
<1> QED
    BY <1>2, <1>3, <1>4, Kinds

\* What steps 8 and 9 put into a cell.
LEMMA CellIsOfItsLeg ==
    ASSUME TypeInv, TodoInOrder, ComparedWithAdapter, FilesAreOwn, FilesAreCopied,
           Planned, CombineRuns, NEW n \in Evaluated(settings), NEW d \in Devices,
           NEW file, file # None,
           file = IF folder.leg = "both"
                  THEN CombinedCell(n, d, folders[RunId(folder.inv, d)].files[n])
                  ELSE RuntimeCell(n, folders[RunId(folder.inv, d)].files[n])
    PROVE  file.run = RunId(folder.inv, d)
<1>1. \/ /\ settings.cuda /\ OnCpu(settings)
         /\ Head(todo) = OnPath("combine", [inv |-> invocation, leg |-> "both"])
      \/ Head(todo) = OnPath("combine", [inv |-> invocation, leg |-> "runtimes"])
    BY HeadOfPlan DEF CombineRuns, At
<1>2. folder.inv = invocation /\ RunId(folder.inv, d) = Run(d) /\ Head(todo).op = "combine"
    BY <1>1 DEF folder, step, OnPath, Run
<1>3. Run(d) \in RunIds /\ Run(d).inv = invocation /\ n \in Names
    BY <1>2, Underway, RunsAreRunIds, FileTypes
<1> DEFINE exported == folders[Run(d)].files[n]
<1>4. exported \in Content \cup {None}
    BY <1>3, FolderTypes DEF FolderRecords
<1>5. exported # None => exported.run = Run(d)
    BY <1>3 DEF FilesAreOwn, Own
<1> HIDE DEF exported
<1>6. CASE folder.leg = "both"
  <2>1. /\ settings.cuda /\ OnCpu(settings)
        /\ Head(todo) = OnPath("combine", [inv |-> invocation, leg |-> "both"])
      BY <1>1, <1>6 DEF folder, step, OnPath
  <2>2. d \in Legs(settings)
      BY <2>1, TwoLegs DEF Devices
  <2>3. OnPath("copy", Run(d)) \notin Remaining
    <3>1. OnPath("copy", Run(d)) \in Planning
        BY <2>2, PlanExports DEF Planning, Run, ExportSteps
    <3>2. Rank(Head(todo)) = 500
        BY <2>1, Ranks, Positions
    <3>3. Rank(OnPath("copy", Run(d))) < Rank(Head(todo))
        BY <3>2, RanksOfRun
    <3> QED
        BY <3>1, <3>3, Before
  <2>4. NothingToCompare(n) \/ exported # None
      BY <2>2, <2>3 DEF FilesAreCopied, exported
  <2>5. NothingToCompare(n) => processed[<<n, d>>] = None /\ processed[<<n, "none">>] = None
      BY FileTypes DEF NothingToCompare, ComparedWithAdapter
  <2>6. file = IF exported # None THEN exported
               ELSE IF processed[<<n, d>>] # None THEN processed[<<n, d>>]
               ELSE processed[<<n, "none">>]
      BY <1>2, <1>3, <1>4, <1>6, CellTypes DEF exported
  <2> QED
      BY <1>2, <1>5, <2>4, <2>5, <2>6
<1>7. CASE folder.leg # "both"
  <2>1. file = RuntimeCell(n, exported)
      BY <1>2, <1>7 DEF exported
  <2> QED
      BY <1>2, <1>5, <2>1 DEF RuntimeCell
<1> QED
    BY <1>6, <1>7

LEMMA CombinedCellsStep ==
    ASSUME TypeInv, TodoInOrder, ComparedWithAdapter, NoFolderIsEarly, FilesAreOwn,
           FilesAreCopied, CombinedCellsAreOfTheirLeg, OnlyStamped, [Next]_vars
    PROVE  CombinedCellsAreOfTheirLeg'
<1> SUFFICES ASSUME NEW f \in Folders \ RunIds, NEW cell \in (Names \ Skipped') \X Devices,
                    f.inv = invocation', folders'[f].cells[cell] # None
             PROVE  folders'[f].cells[cell].run = RunId(f.inv, cell[2])
    BY DEF CombinedCellsAreOfTheirLeg
<1>1. f \in Folders /\ f.inv \in Nat
    BY DEF Folders, Invocations
<1>2. CASE Launch
  <2>1. folders'[f] = Absent
      BY <1>1, <1>2, FolderTypes DEF Launch, NoFolderIsEarly
  <2> QED
      BY <2>1 DEF Absent, NoCells, Skipped
<1>3. CASE Idle \/ Unlink \/ UNCHANGED vars
    BY <1>3, Standing DEF CombinedCellsAreOfTheirLeg, Skipped
<1>4. CASE Advance
  <2>1. settings' = settings /\ invocation' = invocation /\ Skipped' = Skipped
      BY <1>4 DEF Advance, Skipped
  <2>2. CASE folders'[f] = folders[f]
      BY <2>1, <2>2 DEF CombinedCellsAreOfTheirLeg
  <2>3. CASE Planned /\ f = Head(todo).folder /\ CombineRuns
    <3>1. cell[1] \in Names /\ cell[1] \notin Skipped /\ cell[2] \in Devices
          /\ cell \in Names \X Devices
        BY <2>1
    <3>2. cell[1] \in Evaluated(settings)
        BY <3>1 DEF Skipped, Evaluated, Names
    <3> DEFINE Exported(c) == folders[RunId(folder.inv, c[2])].files[c[1]]
               cells == [c \in Names \X Devices |->
                            IF folder.leg = "both"
                            THEN CombinedCell(c[1], c[2], Exported(c))
                            ELSE RuntimeCell(c[1], Exported(c))]
    <3>3. folders' = [folders EXCEPT ![f] =
                         [Absent EXCEPT !.state = "exported", !.cells = cells]]
        BY <2>3 DEF CombineRuns, folder, step
    <3> HIDE DEF cells
    <3>4. folders'[f].cells = cells
        BY <1>1, <3>3, FolderTypes DEF Absent
    <3>5. cells[cell] = IF folder.leg = "both"
                        THEN CombinedCell(cell[1], cell[2], Exported(cell))
                        ELSE RuntimeCell(cell[1], Exported(cell))
        BY <3>1 DEF cells
    <3>6. cells[cell].run = RunId(folder.inv, cell[2])
        BY <2>3, <3>1, <3>2, <3>4, <3>5, CellIsOfItsLeg
    <3> QED
        BY <2>3, <3>4, <3>6 DEF folder, step
  <2>4. f \notin RunIds
      OBVIOUS
  <2>5. ASSUME NEW d \in Legs(settings), f = Run(d), folders'[f] # folders[f]
        PROVE  FALSE
    <3>1. Head(todo).op # "done"
        BY <1>4, <2>5, Changes, Acting
    <3>2. Planned
        BY <1>1, <1>4, <2>5, FolderSteps
    <3> QED
        BY <2>4, <2>5, <3>1, <3>2, Underway, RunsAreRunIds, FileTypes
  <2> QED
      BY <1>1, <1>4, <2>2, <2>3, <2>5, FolderSteps
<1> QED
    BY <1>2, <1>3, <1>4, Kinds

(***************************************************************************)
(* results/latest.                                                         *)
(***************************************************************************)
LEMMA EntryTypes ==
    ASSUME TypeInv, NEW entry \in latest
    PROVE  /\ entry[1] \in {"artifact", "readme"} /\ entry[2] \in Folders
           /\ entry[2].inv \in Nat /\ entry = <<entry[1], entry[2]>>
<1>1. entry \in {"artifact", "readme"} \X Folders
    BY DEF TypeInv, TypeOK
<1> QED
    BY <1>1 DEF Folders, Invocations

\* The folder results/latest is being refreshed from.
LEMMA Refreshing ==
    ASSUME TypeInv, TodoInOrder, Advance,
           Head(todo).op \in {"clear", "fill", "readme"}
    PROVE  /\ Planned /\ folder = Head(todo).folder /\ folder \in Folders
           /\ folder.inv = invocation
           /\ OnPath("recreate", folder) \notin Remaining
           /\ folders' = folders
<1>1. Planned
    BY DEF TodoInOrder, Advance
<1>2. \/ \E d \in Legs(settings) : Head(todo) = OnPath(Head(todo).op, Run(d))
      \/ Head(todo) = OnPath(Head(todo).op, [inv |-> invocation, leg |-> "both"])
      \/ Head(todo) = OnPath(Head(todo).op, [inv |-> invocation, leg |-> "runtimes"])
    BY <1>1, HeadOfPlan
<1>3. Head(todo) = OnPath(Head(todo).op, folder) /\ folder = Head(todo).folder
    BY <1>2 DEF OnPath, folder, step
<1>4. folder.inv = invocation /\ folder.leg \in Devices \cup {"both", "runtimes"}
  <2>1. CASE \E d \in Legs(settings) : Head(todo) = OnPath(Head(todo).op, Run(d))
    <3>1. PICK d \in Legs(settings) : folder = Run(d)
        BY <1>3, <2>1 DEF OnPath
    <3>2. d \in Devices /\ Run(d).inv = invocation /\ Run(d).leg = d
        BY FileTypes DEF Run, RunId
    <3> QED
        BY <3>1, <3>2
  <2>2. ASSUME NEW leg \in {"both", "runtimes"},
               Head(todo) = OnPath(Head(todo).op, [inv |-> invocation, leg |-> leg])
        PROVE  folder.inv = invocation /\ folder.leg = leg
      BY <1>3, <2>2 DEF OnPath
  <2> QED
      BY <1>2, <2>1, <2>2
<1>5. OnPath("recreate", folder) \notin Remaining
  <2>1. Rank(OnPath("recreate", folder)) = Phase(folder.leg) + 3
      BY Ranks, Positions DEF ExportSteps
  <2>2. Rank(Head(todo)) = Phase(folder.leg) + Position(Head(todo).op)
      BY <1>3, Ranks DEF ExportSteps
  <2>3. Position(Head(todo).op) \in Nat /\ Position(Head(todo).op) > 3
      BY Positions
  <2>4. Rank(OnPath("recreate", folder)) < Rank(Head(todo))
      BY <1>4, <2>1, <2>2, <2>3, PhaseIsANumber
  <2>5. OnPath("recreate", folder) \in Planning => OnPath("recreate", folder) \notin Remaining
      BY <1>1, <2>4, Before
  <2> QED
      BY <1>1, <2>5 DEF TodoInOrder
<1>6. folder \in Folders
    BY <1>3, HeadTypes DEF Advance
<1>7. folders' = folders
    BY Changes, Acting
<1> QED
    BY <1>1, <1>3, <1>4, <1>5, <1>6, <1>7

\* What each step of a refresh leaves in results/latest.
LEMMA RefreshSteps ==
    ASSUME TypeInv, TodoInOrder, LatestIsKept, Advance
    PROVE  /\ Head(todo).op = "clear" => latest' = {}
           /\ Head(todo).op = "fill" => latest' = {<<"artifact", folder>>}
           /\ Head(todo).op = "readme" =>
                 latest' = {<<"artifact", folder>>, <<"readme", folder>>}
           /\ Head(todo).op \notin {"clear", "fill", "readme"} => latest' = latest
<1>1. ASSUME Head(todo).op = "clear"
      PROVE  latest' = {}
  <2>1. todo' # todo
    <3>1. todo \in Seq(AllSteps) /\ todo # <<>>
        BY DEF TypeInv, TodoType, Advance
    <3>2. Len(Tail(todo)) # Len(todo)
        BY <3>1
    <3> QED
        BY <3>2 DEF Advance, Return
  <2>2. ClearLatest
      BY <1>1, Acting
  <2>3. {entry \in latest : StaleEntry(entry)} = {} /\ latest' = latest
      BY <2>1, <2>2 DEF ClearLatest
  <2>4. \A entry \in latest : StaleEntry(entry)
      BY EntryTypes DEF StaleEntry
  <2> QED
      BY <2>3, <2>4
<1>2. ASSUME Head(todo).op = "fill"
      PROVE  latest' = {<<"artifact", folder>>}
  <2>1. FillLatest /\ latest = {}
      BY <1>2, Acting, Refreshing DEF LatestIsKept
  <2> QED
      BY <2>1 DEF FillLatest
<1>3. ASSUME Head(todo).op = "readme"
      PROVE  latest' = {<<"artifact", folder>>, <<"readme", folder>>}
  <2>1. WriteReadme /\ latest = {<<"artifact", folder>>}
      BY <1>3, Acting, Refreshing DEF LatestIsKept
  <2>2. {entry \in latest : entry[1] # "readme"} = latest
      BY <2>1
  <2> QED
      BY <2>1, <2>2 DEF WriteReadme
<1>4. Head(todo).op \notin {"clear", "fill", "readme"} => latest' = latest
    BY Changes, Acting
<1> QED
    BY <1>1, <1>2, <1>3, <1>4

\* What results/latest shows after a step was exported to the end.
LEMMA ShownIsExported ==
    ASSUME TypeInv, TodoInOrder, LatestIsKept, Advance
    PROVE  /\ \A entry, other \in latest' :
                 entry[2] = other[2] /\ folders'[entry[2]].state = "exported"
           /\ \A entry \in latest' : entry[2].inv <= invocation
           /\ Planned => \A entry \in latest' : OnPath("recreate", entry[2]) \notin Remaining
<1>1. ASSUME NEW f \in Folders, folders[f].state = "exported",
             Planned => OnPath("recreate", f) \notin Remaining
      PROVE  folders'[f].state = "exported"
  <2>1. ASSUME Planned, f = Head(todo).folder, Recreate, NEW d \in Legs(settings), f = Run(d)
        PROVE  FALSE
    <3>1. Head(todo).op = "recreate"
        BY <2>1, Acting
    <3>2. Head(todo) = OnPath("recreate", f)
        BY <2>1, <3>1, HeadOnRun
    <3> QED
        BY <1>1, <2>1, <3>2, HeadIsPlanned
  <2> QED
      BY <1>1, <2>1, FolderSteps
<1>2. CASE Head(todo).op = "clear"
    BY <1>2, RefreshSteps
<1>3. CASE Head(todo).op \in {"fill", "readme"}
  <2>1. /\ \A entry \in latest' : entry[2] = folder
        /\ folders[folder].state = "exported"
      BY <1>3, RefreshSteps, Refreshing DEF LatestIsKept
  <2>2. /\ folder.inv = invocation /\ folders' = folders
        /\ OnPath("recreate", folder) \notin Remaining
      BY <1>3, Refreshing
  <2> QED
      BY <2>1, <2>2, FolderTypes
<1>4. CASE Head(todo).op \notin {"clear", "fill", "readme"}
  <2>1. latest' = latest
      BY <1>4, RefreshSteps
  <2>2. \A entry \in latest : entry[2] \in Folders
      BY EntryTypes
  <2>3. \A entry, other \in latest :
            entry[2] = other[2] /\ folders[entry[2]].state = "exported"
      BY DEF LatestIsKept, LatestIsOneFinishedExport
  <2>4. \A entry \in latest : folders'[entry[2]].state = "exported"
      BY <1>1, <2>2, <2>3 DEF LatestIsKept
  <2> QED
      BY <2>1, <2>3, <2>4 DEF LatestIsKept
<1> QED
    BY <1>2, <1>3, <1>4

\* A folder is exported before results/latest is refreshed from it.
LEMMA ExportedBeforeShown ==
    ASSUME TypeInv, TodoInOrder, LatestIsKept, Advance, Planned',
           Head(todo').op \in {"view", "clear", "fill", "readme"}
    PROVE  folders'[Head(todo').folder].state = "exported"
<1>1. Planned /\ Follows(Head(todo), Head(todo'))
    BY Passing DEF Openers
<1>2. Head(todo').folder = Head(todo).folder
      /\ Head(todo).op \in {"manifest", "view", "combine", "clear", "fill"}
    BY <1>1 DEF Follows, OnPath, OnName, OnRun
<1>3. folder = Head(todo).folder /\ folder \in Folders
    BY <1>2, HeadTypes, FolderTypes DEF folder, step, Advance
<1>4. CASE Head(todo).op = "manifest"
  <2>1. folders' = [folders EXCEPT ![folder].state = "exported"]
      BY <1>4, Acting DEF WriteManifest
  <2> QED
      BY <1>2, <1>3, <2>1, FolderTypes DEF FolderRecords
<1>5. CASE Head(todo).op = "view"
  <2>1. \E c : folders' = [folders EXCEPT ![folder] = [folders[folder] EXCEPT !.cells = c]]
      BY <1>5, Acting DEF ViewOfRun
  <2>2. folders[folder].state = "exported"
      BY <1>1, <1>3, <1>5 DEF LatestIsKept
  <2> QED
      BY <1>2, <1>3, <2>1, <2>2, FolderTypes DEF FolderRecords
<1>6. CASE Head(todo).op = "combine"
  <2>1. \E c : folders' = [folders EXCEPT ![folder] =
                              [Absent EXCEPT !.state = "exported", !.cells = c]]
      BY <1>6, Acting DEF CombineRuns
  <2> QED
      BY <1>2, <1>3, <2>1, FolderTypes DEF Absent
<1>7. CASE Head(todo).op \in {"clear", "fill"}
    BY <1>1, <1>2, <1>7, Refreshing DEF LatestIsKept
<1> QED
    BY <1>2, <1>4, <1>5, <1>6, <1>7

LEMMA LatestIsKeptStep ==
    ASSUME TypeInv, TodoInOrder, LatestIsKept, OnlyStamped, [Next]_vars
    PROVE  LatestIsKept'
<1>1. CASE Launch
  <2>1. /\ Planned' /\ Remaining' = Planning' /\ Head(todo').op \in Openers
        /\ latest' = latest /\ folders' = folders /\ invocation' = invocation + 1
      BY <1>1, LaunchInOrder DEF Launch
  <2>2. \A entry \in latest : entry[2].inv <= invocation /\ entry[2].inv \in Nat
      BY EntryTypes DEF LatestIsKept
  <2>3. ASSUME NEW entry \in latest, OnPath("recreate", entry[2]) \in Planning'
        PROVE  FALSE
    <3>1. OnPath("recreate", entry[2]) \in Elements(Plan(settings', invocation'))
        BY <2>3 DEF Planning
    <3>2. PICK d \in Legs(settings') :
              OnPath("recreate", entry[2]) = OnPath("recreate", RunId(invocation', d))
        BY <3>1, PlanIsOfItsLegs DEF OnPath, OnName, OnRun
    <3>3. entry[2] = RunId(invocation', d)
        BY <3>2 DEF OnPath
    <3> QED
        BY <2>1, <2>2, <3>3, FolderTypes DEF RunId
  <2>4. \A entry \in latest' : entry[2].inv <= invocation'
      BY <2>1, <2>2, FolderTypes
  <2>5. LatestIsOneFinishedExport'
      BY <2>1 DEF LatestIsKept, LatestIsOneFinishedExport
  <2> QED
      BY <2>1, <2>3, <2>4, <2>5 DEF LatestIsKept, Openers
<1>2. CASE Idle
  <2>1. ~ Planned'
      BY <1>2 DEF Idle, Planned
  <2>2. latest' = latest /\ folders' = folders /\ invocation' = invocation
      BY <1>2 DEF Idle
  <2> QED
      BY <2>1, <2>2 DEF LatestIsKept, LatestIsOneFinishedExport
<1>3. CASE Unlink
  <2>1. /\ latest' \subseteq latest /\ folders' = folders /\ invocation' = invocation
        /\ Planned' => Planned /\ todo' = todo /\ Remaining' = Remaining
        /\ todo' = todo /\ Head(todo).op = "clear"
      BY <1>3, Standing DEF Unlink, At
  <2>2. LatestIsOneFinishedExport'
      BY <2>1 DEF LatestIsKept, LatestIsOneFinishedExport
  <2> QED
      BY <2>1, <2>2 DEF LatestIsKept
<1>4. CASE UNCHANGED vars
  <2>1. /\ latest' = latest /\ folders' = folders /\ invocation' = invocation
        /\ Planned' => Planned /\ todo' = todo /\ Remaining' = Remaining
      BY <1>4, Standing DEF vars
  <2>2. LatestIsOneFinishedExport'
      BY <2>1 DEF LatestIsKept, LatestIsOneFinishedExport
  <2> QED
      BY <2>1, <2>2 DEF LatestIsKept
<1>5. CASE Advance
  <2>1. LatestIsOneFinishedExport' /\ \A entry \in latest' : entry[2].inv <= invocation'
      BY <1>5, ShownIsExported DEF LatestIsOneFinishedExport, Advance
  <2>2. ASSUME Planned'
        PROVE  /\ \A entry \in latest' : OnPath("recreate", entry[2]) \notin Remaining'
               /\ Head(todo').op \in {"view", "clear", "fill", "readme"} =>
                     folders'[Head(todo').folder].state = "exported"
               /\ Head(todo').op = "fill" => latest' = {}
               /\ Head(todo').op = "readme" => latest' = {<<"artifact", Head(todo').folder>>}
    <3>1. /\ Planned /\ Remaining = {Head(todo)} \cup Remaining'
          /\ Head(todo').op \notin Openers => Follows(Head(todo), Head(todo'))
        BY <1>5, <2>2, Passing
    <3>2. \A entry \in latest' : OnPath("recreate", entry[2]) \notin Remaining'
        BY <1>5, <3>1, ShownIsExported
    <3>3. Head(todo').op = "fill" => Head(todo).op = "clear"
        BY <3>1 DEF Openers, Follows, OnPath, OnName, OnRun
    <3>4. Head(todo').op = "readme" =>
             Head(todo).op = "fill" /\ Head(todo').folder = Head(todo).folder
        BY <3>1 DEF Openers, Follows, OnPath, OnName, OnRun
    <3>5. Head(todo').op = "fill" => latest' = {}
        BY <1>5, <3>3, RefreshSteps
    <3>6. Head(todo').op = "readme" => latest' = {<<"artifact", Head(todo').folder>>}
        BY <1>5, <3>4, RefreshSteps DEF folder, step
    <3> QED
        BY <1>5, <2>2, <3>2, <3>5, <3>6, ExportedBeforeShown
  <2> QED
      BY <2>1, <2>2 DEF LatestIsKept
<1> QED
    BY <1>1, <1>2, <1>3, <1>4, <1>5, Kinds

\* The banner is printed after the last export, and after its README.
LEMMA FinishIsPublished ==
    ASSUME TypeInv, TodoInOrder, ManifestsAreWritten, LatestLeads, Advance, Finish,
           invocation # 0
    PROVE  /\ \E device \in Devices :
                 folders[RunId(invocation, device)].state = "exported"
           /\ settings.cuda => folders[RunId(invocation, "cuda")].state = "exported"
           /\ ReadmeIsOfThisInvocation
<1>1. Head(todo).op = "done"
    BY Acting
<1>2. Planned
    BY <1>1 DEF TodoInOrder, Advance
<1>3. Rank(Head(todo)) = 700
    BY <1>1 DEF Rank
<1>4. ASSUME NEW d \in Legs(settings), NEW op \in {"manifest", "readme"}
      PROVE  OnPath(op, Run(d)) \notin Remaining
  <2>1. OnPath(op, Run(d)) \in Planning
      BY PlanExports DEF Planning, Run, ExportSteps
  <2>2. Rank(OnPath(op, Run(d))) < Rank(Head(todo))
      BY <1>3, FileTypes, RanksOfRun
  <2> QED
      BY <1>2, <2>1, <2>2, Before
<1>5. \A d \in Legs(settings) : folders[Run(d)].state = "exported"
    BY <1>2, <1>4 DEF ManifestsAreWritten
<1>6. PICK d \in Legs(settings) : d \in Devices
    BY TwoLegs, FileTypes
<1>7. ReadmeIsOfThisInvocation
    BY <1>1, <1>2, <1>4, <1>6 DEF LatestLeads
<1> QED
    BY <1>5, <1>6, <1>7, TwoLegs DEF Run

LEMMA LatestLeadsStep ==
    ASSUME TypeInv, TodoInOrder, ManifestsAreWritten, LatestIsKept, LatestLeads,
           OnlyStamped, [Next]_vars
    PROVE  LatestLeads'
<1>1. CASE Launch
  <2>1. /\ Planned' /\ Remaining' = Planning' /\ finished' < invocation'
      BY <1>1, LaunchInOrder DEF Launch
  <2>2. ASSUME NEW d \in Legs(settings')
        PROVE  OnPath("readme", Run(d)') \in Remaining'
      BY <2>1, <2>2, PlanExports DEF Planning, Run, ExportSteps
  <2>3. finished' # invocation'
      BY <1>1, <2>1, FolderTypes DEF TypeInv, TypeOK, Launch
  <2> QED
      BY <2>2, <2>3 DEF LatestLeads, DoneMeansPublished
<1>2. CASE Idle
  <2>1. ~ Planned'
      BY <1>2 DEF Idle, Planned
  <2>2. UNCHANGED <<settings, invocation, finished, folders, latest>>
      BY <1>2 DEF Idle
  <2> QED
      BY <2>1, <2>2 DEF LatestLeads, DoneMeansPublished
<1>3. CASE Unlink
  <2>1. Head(todo).op = "clear" /\ todo' = todo /\ todo # <<>>
        /\ finished' = finished /\ invocation' = invocation
      BY <1>3 DEF Unlink, At
  <2>2. Planned
      BY <2>1 DEF TodoInOrder
  <2>3. finished' # invocation'
      BY <2>1, <2>2, Underway
  <2> QED
      BY <2>1, <2>3 DEF LatestLeads, DoneMeansPublished
<1>4. CASE UNCHANGED vars
    BY <1>4, Standing DEF LatestLeads, DoneMeansPublished, ReadmeIsOfThisInvocation, Run, vars
<1>5. CASE Advance
  <2>1. settings' = settings /\ invocation' = invocation
      BY <1>5 DEF Advance
  <2>2. ASSUME Planned', Head(todo').op \notin {"clear", "fill", "readme"},
               NEW d \in Legs(settings), OnPath("readme", Run(d)) \notin Remaining'
        PROVE  ReadmeIsOfThisInvocation'
    <3>1. /\ Planned /\ Remaining = {Head(todo)} \cup Remaining'
          /\ Head(todo).op \notin Closers => Follows(Head(todo), Head(todo'))
        BY <1>5, <2>2, Passing
    <3>2. CASE Head(todo).op = "readme"
      <4>1. <<"readme", folder>> \in latest' /\ folder \in Folders /\ folder.inv = invocation
          BY <1>5, <3>2, RefreshSteps, Refreshing
      <4> QED
          BY <2>1, <4>1 DEF ReadmeIsOfThisInvocation
    <3>3. Head(todo).op \notin {"clear", "fill"}
        BY <2>2, <3>1 DEF Closers, Follows, OnPath, OnName, OnRun
    <3>4. CASE Head(todo).op \notin {"clear", "fill", "readme"}
      <4>1. OnPath("readme", Run(d)) \notin Remaining
          BY <2>2, <3>1, <3>4 DEF OnPath
      <4>2. ReadmeIsOfThisInvocation
          BY <3>1, <3>4, <4>1 DEF LatestLeads
      <4>3. latest' = latest
          BY <1>5, <3>4, RefreshSteps
      <4> QED
          BY <2>1, <4>2, <4>3 DEF ReadmeIsOfThisInvocation
    <3> QED
        BY <3>2, <3>3, <3>4
  <2>3. DoneMeansPublished'
    <3>1. SUFFICES ASSUME finished' # 0, finished' = invocation
                   PROVE  /\ \E device \in Devices :
                                folders'[RunId(invocation, device)].state = "exported"
                          /\ settings.cuda => folders'[RunId(invocation, "cuda")].state = "exported"
                          /\ \E f \in Folders : f.inv = invocation /\ <<"readme", f>> \in latest'
        BY <2>1 DEF DoneMeansPublished
    <3>2. CASE Head(todo).op = "done"
      <4>1. Finish /\ folders' = folders /\ latest' = latest
          BY <1>5, <3>2, Acting, Changes
      <4> QED
          BY <1>5, <3>1, <4>1, FinishIsPublished DEF ReadmeIsOfThisInvocation
    <3>3. CASE Head(todo).op # "done"
      <4>1. finished' = finished
          BY <1>5, <3>3, Acting, Changes
      <4>2. ~ Planned
          BY <3>1, <3>3, <4>1, Underway
      <4>3. latest' = latest
          BY <1>5, <4>2, Refreshing, RefreshSteps
      <4>4. \A f \in Folders : folders'[f] = folders[f]
          BY <1>5, <4>2, FolderSteps
      <4>5. \A d \in Devices : RunId(invocation, d) \in Folders
          BY <3>1, RunsAreRunIds DEF Run
      <4> QED
          BY <3>1, <4>1, <4>3, <4>4, <4>5 DEF LatestLeads, DoneMeansPublished, Devices
    <3> QED
        BY <3>2, <3>3
  <2> QED
      BY <2>1, <2>2, <2>3 DEF LatestLeads, Run
<1> QED
    BY <1>1, <1>2, <1>3, <1>4, <1>5, Kinds
-----------------------------------------------------------------------------
(***************************************************************************)
(* The theorems.                                                           *)
(***************************************************************************)
LEMMA InitInvariant == Init => IInv
<1> SUFFICES ASSUME Init
             PROVE  IInv
    OBVIOUS
<1>1. TypeInv
    BY InitType
<1>2. ~ Planned /\ todo = <<>> /\ latest = {} /\ finished = 0
    BY DEF Init, Planned
<1>3. \A f \in Folders : folders[f] = Absent
    BY DEF Init
<1>4. \A tag \in Tags : adapters[tag] = None /\ processed[<<"comparison", tag>>] = None
    BY DEF Init, Names
<1>5. \A f \in Folders : folders[f].state # "exported" /\ folders[f].files = NoFiles
                         /\ folders[f].cells = NoCells
    BY <1>3 DEF Absent
<1>6. TodoInOrder /\ Adopted /\ SnapshotsTaken /\ FilesAreCopied /\ ManifestsAreWritten
    BY <1>2 DEF TodoInOrder, Adopted, SnapshotsTaken, FilesAreCopied, ManifestsAreWritten
<1>7. LatestIsKept /\ LatestLeads
    BY <1>2 DEF LatestIsKept, LatestIsOneFinishedExport, LatestLeads, DoneMeansPublished
<1>8. FilesAreOwn /\ ExportsAreCompared
    BY <1>5, FolderTypes, <1>1, FileTypes DEF FilesAreOwn, ExportsAreCompared, NoFiles
<1>9. CombinedCellsAreOfTheirLeg
    BY <1>5 DEF CombinedCellsAreOfTheirLeg, NoCells
<1> QED
    BY <1>1, <1>3, <1>4, <1>6, <1>7, <1>8, <1>9 DEF IInv, ComparedWithAdapter, NoFolderIsEarly

LEMMA InvariantStep == IInv /\ OnlyStamped /\ [Next]_vars => IInv'
<1> SUFFICES ASSUME IInv, OnlyStamped, [Next]_vars
             PROVE  IInv'
    OBVIOUS
<1>1. /\ TypeInv /\ TodoInOrder /\ ComparedWithAdapter /\ Adopted /\ SnapshotsTaken
      /\ NoFolderIsEarly /\ FilesAreOwn /\ FilesAreCopied /\ ExportsAreCompared
      /\ CombinedCellsAreOfTheirLeg /\ ManifestsAreWritten /\ LatestIsKept /\ LatestLeads
    BY DEF IInv
<1>2. TypeInv' /\ TodoInOrder' /\ ComparedWithAdapter' /\ Adopted' /\ SnapshotsTaken'
    BY <1>1, TypeStep, TodoInOrderStep, ComparedWithAdapterStep, AdoptedStep, SnapshotsTakenStep
<1>3. NoFolderIsEarly' /\ FilesAreOwn' /\ FilesAreCopied' /\ ExportsAreCompared'
    BY <1>1, NoFolderIsEarlyStep, FilesAreOwnStep, FilesAreCopiedStep, ExportsAreComparedStep
<1>4. CombinedCellsAreOfTheirLeg' /\ ManifestsAreWritten' /\ LatestIsKept' /\ LatestLeads'
    BY <1>1, CombinedCellsStep, ManifestsAreWrittenStep, LatestIsKeptStep, LatestLeadsStep
<1> QED
    BY <1>2, <1>3, <1>4 DEF IInv

LEMMA Invariant ==
    ASSUME OnlyStamped
    PROVE  Spec => []IInv
<1>1. IInv /\ [Next]_vars => IInv'
    BY InvariantStep
<1> QED
    BY <1>1, InitInvariant, PTL DEF Spec

\* run_results.export_run with --run-id: an answer file in the exported folder of a
\* run was produced by that run, whatever an earlier invocation or the other device
\* left in data/processed, and whatever was killed before.
THEOREM RunFolders ==
    ASSUME OnlyStamped
    PROVE  Spec => []RunFolderIsOfItsRun
<1>1. Names \ Skipped = Evaluated(settings)
    BY DEF Names, Skipped, Evaluated
<1>2. IInv => RunFolderIsOfItsRun
    BY <1>1 DEF IInv, FilesAreOwn, Own, RunFolderIsOfItsRun
<1> QED
    BY <1>2, Invariant, PTL

\* run_pipeline.sh, steps 5 to 7: the exported comparison of a run that trained an
\* adapter is there, and was taken with that adapter, not with the other device's or
\* an earlier invocation's.
THEOREM OwnAdapters ==
    ASSUME OnlyStamped
    PROVE  Spec => []ComparisonUsesItsOwnAdapter
<1>1. IInv => ComparisonUsesItsOwnAdapter
  <2> SUFFICES ASSUME IInv, NEW run \in RunIds, run.inv = invocation,
                      folders[run].state = "exported",
                      run.leg = "cuda" \/ ~ settings.skipCpuFinetune
               PROVE  /\ folders[run].files["comparison"] # None
                      /\ folders[run].files["comparison"].adapter = run
      BY DEF ComparisonUsesItsOwnAdapter
  <2>1. Trains(settings, run.leg) /\ "comparison" \in Evaluated(settings)
      BY DEF Trains, Evaluated, Names
  <2>2. folders[run].files["comparison"] # None
      BY <2>1 DEF IInv, ExportsAreCompared
  <2>3. Own(folders[run].files["comparison"], "comparison", run)
      BY <2>1, <2>2 DEF IInv, FilesAreOwn
  <2> QED
      BY <2>1, <2>2, <2>3 DEF Own
<1> QED
    BY <1>1, Invariant, PTL

\* Scripts 08 and 09: a cell of the comparison of two devices, or of the runtimes,
\* holds an answer of the leg it is named after, of this invocation.
THEOREM CombinedCells ==
    ASSUME OnlyStamped
    PROVE  Spec => []CombinedCellsAreOfTheirLeg
<1>1. IInv => CombinedCellsAreOfTheirLeg
    BY DEF IInv
<1> QED
    BY <1>1, Invariant, PTL

\* snapshot.refresh_latest: results/latest never shows files of two exports, at no
\* point of a refresh that may be killed, and what it shows was exported to the end.
THEOREM LatestIsOne ==
    ASSUME OnlyStamped
    PROVE  Spec => []LatestIsOneFinishedExport
<1>1. IInv => LatestIsOneFinishedExport
    BY DEF IInv, LatestIsKept
<1> QED
    BY <1>1, Invariant, PTL

\* The banner of run_pipeline.sh: once it is printed, a folder of every device the
\* pipeline ran on has been exported, and the README of results/latest is of this
\* invocation.
THEOREM DonePublished ==
    ASSUME OnlyStamped
    PROVE  Spec => []DoneMeansPublished
<1>1. IInv => DoneMeansPublished
    BY DEF IInv, LatestLeads
<1> QED
    BY <1>1, Invariant, PTL

\* results/runs/<run id> is the record of a finished run: no step, of the plan or by
\* hand without a run id, changes the exported folder of an earlier invocation.
THEOREM ExportsKept ==
    ASSUME OnlyStamped
    PROVE  Spec => ExportsAreKept
<1>1. IInv /\ [Next]_vars =>
          [\A f \in Folders :
              folders[f].state = "exported" /\ folders'[f] # folders[f] => f.inv = invocation]_vars
  <2> SUFFICES ASSUME IInv, [Next]_vars, NEW f \in Folders, folders'[f] # folders[f]
               PROVE  f.inv = invocation
      OBVIOUS
  <2>1. TypeInv /\ TodoInOrder
      BY DEF IInv
  <2>2. Advance
      BY <2>1, Kinds, Standing DEF Launch
  <2> QED
      BY <2>1, <2>2, ChangedFolderIsOfInvocation
<1> QED
    BY <1>1, Invariant, PTL DEF Spec, ExportsAreKept
=============================================================================
