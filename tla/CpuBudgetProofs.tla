-------------------------- MODULE CpuBudgetProofs --------------------------
(***************************************************************************)
(* Proofs about CpuBudget, for all grants, overrides and faults.           *)
(***************************************************************************)
EXTENDS CpuBudget, TLAPS

(***************************************************************************)
(* The inductive invariant.  Whichever call of cpu_budget is the first of  *)
(* a process, what it answers is a function of the container and the cache *)
(* unless it may measure, and only python -m src.cpu_runtime may: in every *)
(* other process detect_hardware asks first.                               *)
(***************************************************************************)

\* What a call that may not measure answers in this container.
Reported ==
    IF override # 0 THEN override
    ELSE IF Measurable /\ Cached # 0 THEN Min({Cached, Ceiling(grant)})
    ELSE Heuristic(grant)

\* What is left of the calls of a process.
Remaining == [none   |-> {<<>>},
              step   |-> {<<>>, <<"configure">>, <<"detect", "configure">>},
              gguf   |-> {<<>>, <<"llama">>, <<"configure", "llama">>,
                          <<"detect", "configure", "llama">>},
              report |-> {<<>>, <<"detect">>},
              module |-> {<<>>, <<"main">>}]

\* What PoolWithinTheGrant says of the memo.
Granted(n) == n <= grant.allowed /\ (n > 1 /\ grant.quota # 0 => n * 10 <= grant.quota)

Sources == {"unmeasured", "override", "cached", "measured", "heuristic"}

\* TypeOK in two halves: the flags, and everything else.
FlagsOK == calibrate \in BOOLEAN /\ cuda \in BOOLEAN

PlacesOK ==
    /\ grant \in Grants
    /\ override \in Overrides
    /\ cache \in [Signatures -> Threads]
    /\ kind \in DOMAIN Calls \cup {"none"}
    /\ {memo, recorded, pool, ran} \subseteq Threads
    /\ source \in Sources
    /\ memo = 0 <=> source = "unmeasured"

\* A process has an answer from its first call on.
CallsInOrder ==
    /\ todo \in Remaining[kind]
    /\ kind # "none" => (memo = 0 <=> todo = Calls[kind])

\* As long as a process runs, its container and the cache stay what they are.
AnswersAgree ==
    kind \in {"step", "gguf", "report"} /\ memo # 0 =>
        /\ recorded = memo
        /\ todo # <<>> \/ (kind = "report" /\ ran # 0) => memo = Reported

PoolsAgree ==
    /\ pool # 0 => pool = memo /\ kind \in {"step", "gguf"}
    /\ kind \in {"step", "gguf"} /\ (todo = <<>> \/ todo = <<"llama">>) => pool = memo

\* The pool of the last step is what the next process will report.
RanIsReported == ran # 0 => ran = Reported

IInv == FlagsOK /\ PlacesOK /\ CallsInOrder /\ AnswersAgree /\ PoolsAgree
            /\ RanIsReported /\ PoolWithinTheGrant
-----------------------------------------------------------------------------
(***************************************************************************)
(* The operators.                                                          *)
(***************************************************************************)

LEMMA MinOfTwo ==
    ASSUME NEW a \in Nat, NEW b \in Nat
    PROVE  Min({a, b}) = IF a <= b THEN a ELSE b
<1>1. \E x \in {a, b} : \A y \in {a, b} : x <= y
    OBVIOUS
<1>2. /\ Min({a, b}) \in {a, b}
      /\ \A y \in {a, b} : Min({a, b}) <= y
    BY <1>1 DEF Min
<1> QED
    BY <1>2

LEMMA MaxOfTwo ==
    ASSUME NEW a \in Nat, NEW b \in Nat
    PROVE  Max({a, b}) = IF a >= b THEN a ELSE b
<1>1. \E x \in {a, b} : \A y \in {a, b} : x >= y
    OBVIOUS
<1>2. /\ Max({a, b}) \in {a, b}
      /\ \A y \in {a, b} : Max({a, b}) >= y
    BY <1>1 DEF Max
<1> QED
    BY <1>2

LEMMA GrantType ==
    ASSUME NEW g \in Grants
    PROVE  g.allowed \in Nat \ {0} /\ g.quota \in Nat /\ g.cores \in Nat
BY ConstantsAssumption

\* cpu_ceiling: at least one thread, and no more than the cpuset and the quota
\* allow; under a quota of less than one CPU, one.
LEMMA CeilingIsGranted ==
    ASSUME NEW g \in Grants
    PROVE  /\ Ceiling(g) \in 1 .. g.allowed
           /\ Ceiling(g) > 1 /\ g.quota # 0 => Ceiling(g) * 10 <= g.quota
<1>0. g.allowed \in Nat \ {0} /\ g.quota \in Nat
    BY GrantType
<1>1. CASE g.quota = 0
    BY <1>0, <1>1 DEF Ceiling
<1>2. CASE g.quota # 0
    <2> DEFINE whole == g.quota \div 10
               least == Max({1, whole})
    <2>1. whole \in Nat /\ whole * 10 <= g.quota
        BY <1>0
    <2> HIDE DEF whole
    <2>2. least = IF 1 >= whole THEN 1 ELSE whole
        BY <2>1, MaxOfTwo
    <2> HIDE DEF least
    <2>3. least \in Nat \ {0} /\ (least > 1 => least = whole)
        BY <2>1, <2>2
    <2>4. Ceiling(g) = Min({g.allowed, least})
        BY <1>2 DEF Ceiling, least, whole
    <2>5. Min({g.allowed, least}) = IF g.allowed <= least THEN g.allowed ELSE least
        BY <1>0, <2>3, MinOfTwo
    <2> QED
        BY <1>0, <2>1, <2>3, <2>4, <2>5
<1> QED
    BY <1>1, <1>2

\* heuristic_budget is within the ceiling.
LEMMA HeuristicIsGranted ==
    ASSUME NEW g \in Grants
    PROVE  Heuristic(g) \in 1 .. Ceiling(g)
<1>0. g.cores \in Nat /\ Ceiling(g) \in Nat \ {0}
    BY GrantType, CeilingIsGranted
<1>1. CASE g.cores = 0
    BY <1>0, <1>1 DEF Heuristic
<1>2. CASE g.cores # 0
    <2>1. Min({Ceiling(g), g.cores}) = IF Ceiling(g) <= g.cores THEN Ceiling(g) ELSE g.cores
        BY <1>0, MinOfTwo
    <2> QED
        BY <1>0, <1>2, <2>1 DEF Heuristic
<1> QED
    BY <1>1, <1>2

\* Every thread count that calibrate may find the best one is within the ceiling.
LEMMA CandidatesAreGranted ==
    ASSUME NEW ceiling \in Nat \ {0}, NEW best \in Candidates(ceiling)
    PROVE  best \in 1 .. ceiling
<1>1. CASE ceiling < 8
    BY <1>1 DEF Candidates, MinCoresToCalibrate
<1>2. CASE ceiling >= 8
    <2>1. best \in {ceiling, ceiling - 2, ceiling - 4, (ceiling * 3) \div 4, ceiling \div 2}
        BY <1>2 DEF Candidates, MinCoresToCalibrate
    <2>2. (ceiling * 3) \div 4 \in 1 .. ceiling /\ ceiling \div 2 \in 1 .. ceiling
        BY <1>2
    <2> QED
        BY <1>2, <2>1, <2>2
<1> QED
    BY <1>1, <1>2

\* A thread count within the ceiling of a grant is one a process may be given.
LEMMA WithinTheCeiling ==
    ASSUME NEW g \in Grants, NEW n \in 1 .. Ceiling(g)
    PROVE  /\ n \in Threads \ {0}
           /\ n <= g.allowed
           /\ n > 1 /\ g.quota # 0 => n * 10 <= g.quota
<1>1. /\ Ceiling(g) \in 1 .. g.allowed
      /\ Ceiling(g) > 1 /\ g.quota # 0 => Ceiling(g) * 10 <= g.quota
    BY CeilingIsGranted
<1>2. g.allowed \in Nat \ {0} /\ g.quota \in Nat
    BY GrantType
<1>3. n \in Nat \ {0} /\ n <= g.allowed
    BY <1>1, <1>2
<1>4. n > 1 /\ g.quota # 0 => n * 10 <= g.quota
    BY <1>1, <1>2
<1> QED
    BY <1>3, <1>4 DEF Threads

\* An answer from the cache is within the ceiling of the container that reads it.
LEMMA CachedIsCut ==
    ASSUME NEW g \in Grants, NEW n \in Threads \ {0}
    PROVE  Min({n, Ceiling(g)}) \in 1 .. Ceiling(g)
<1>1. n \in Nat \ {0} /\ Ceiling(g) \in Nat \ {0}
    BY CeilingIsGranted, GrantType DEF Threads
<1>2. Min({n, Ceiling(g)}) = IF n <= Ceiling(g) THEN n ELSE Ceiling(g)
    BY <1>1, MinOfTwo
<1> QED
    BY <1>1, <1>2

\* The order in which a process asks.
LEMMA EveryCall ==
    ASSUME NEW k \in DOMAIN Calls
    PROVE  Calls[k] \in Remaining[k] /\ Calls[k] # <<>> /\ Calls[k] # <<"llama">>
BY DEF Calls, Remaining

LEMMA NextCall ==
    ASSUME NEW k \in DOMAIN Calls, NEW calls \in Remaining[k], calls # <<>>
    PROVE  /\ Tail(calls) \in Remaining[k] \ {Calls[k]}
           /\ Head(calls) = "detect" <=> calls = Calls[k] /\ k # "module"
           /\ Head(calls) = "main" <=> k = "module"
           /\ Head(calls) \in {"configure", "llama"} => k \in {"step", "gguf"}
           /\ k \in {"step", "gguf"} /\ (Tail(calls) = <<>> \/ Tail(calls) = <<"llama">>) =>
                  Head(calls) \in {"configure", "llama"}
<1>1. k \in {"step", "gguf", "report", "module"}
    BY DEF Calls
<1>2. CASE k = "step"
    <2>1. /\ Calls[k] = <<"detect", "configure">>
          /\ Remaining[k] = {<<>>, <<"configure">>, <<"detect", "configure">>}
        BY <1>2 DEF Calls, Remaining
    <2>2. CASE calls = <<"configure">>
        <3>1. Head(calls) = "configure" /\ Tail(calls) = <<>>
            BY <2>2
        <3> QED
            BY <1>2, <2>1, <2>2, <3>1
    <2>3. CASE calls = <<"detect", "configure">>
        <3>1. Head(calls) = "detect" /\ Tail(calls) = <<"configure">>
            BY <2>3
        <3> QED
            BY <1>2, <2>1, <2>3, <3>1
    <2> QED
        BY <2>1, <2>2, <2>3
<1>3. CASE k = "gguf"
    <2>1. /\ Calls[k] = <<"detect", "configure", "llama">>
          /\ Remaining[k] = {<<>>, <<"llama">>, <<"configure", "llama">>, <<"detect", "configure", "llama">>}
        BY <1>3 DEF Calls, Remaining
    <2>2. CASE calls = <<"llama">>
        <3>1. Head(calls) = "llama" /\ Tail(calls) = <<>>
            BY <2>2
        <3> QED
            BY <1>3, <2>1, <2>2, <3>1
    <2>3. CASE calls = <<"configure", "llama">>
        <3>1. Head(calls) = "configure" /\ Tail(calls) = <<"llama">>
            BY <2>3
        <3> QED
            BY <1>3, <2>1, <2>3, <3>1
    <2>4. CASE calls = <<"detect", "configure", "llama">>
        <3>1. Head(calls) = "detect" /\ Tail(calls) = <<"configure", "llama">>
            BY <2>4
        <3> QED
            BY <1>3, <2>1, <2>4, <3>1
    <2> QED
        BY <2>1, <2>2, <2>3, <2>4
<1>4. CASE k = "report"
    <2>1. /\ Calls[k] = <<"detect">>
          /\ Remaining[k] = {<<>>, <<"detect">>}
        BY <1>4 DEF Calls, Remaining
    <2>2. CASE calls = <<"detect">>
        <3>1. Head(calls) = "detect" /\ Tail(calls) = <<>>
            BY <2>2
        <3> QED
            BY <1>4, <2>1, <2>2, <3>1
    <2> QED
        BY <2>1, <2>2
<1>5. CASE k = "module"
    <2>1. /\ Calls[k] = <<"main">>
          /\ Remaining[k] = {<<>>, <<"main">>}
        BY <1>5 DEF Calls, Remaining
    <2>2. CASE calls = <<"main">>
        <3>1. Head(calls) = "main" /\ Tail(calls) = <<>>
            BY <2>2
        <3> QED
            BY <1>5, <2>1, <2>2, <3>1
    <2> QED
        BY <2>1, <2>2
<1> QED
    BY <1>1, <1>2, <1>3, <1>4, <1>5
-----------------------------------------------------------------------------
(***************************************************************************)
(* Every step.                                                             *)
(***************************************************************************)

LEMMA TypeHalves == TypeOK <=> FlagsOK /\ PlacesOK /\ todo \in Seq({"detect", "configure", "llama", "main"})
BY DEF TypeOK, FlagsOK, PlacesOK, Sources

LEMMA TodoIsASequence ==
    ASSUME NEW k \in DOMAIN Calls \cup {"none"}, NEW calls \in Remaining[k]
    PROVE  calls \in Seq({"detect", "configure", "llama", "main"})
<1> DEFINE Asked == {"detect", "configure", "llama", "main"}
<1>1. k \in {"none", "step", "gguf", "report", "module"}
    BY DEF Calls
<1>2. <<>> \in Seq(Asked)
    OBVIOUS
<1>3. <<"configure">> \in Seq(Asked) /\ <<"llama">> \in Seq(Asked)
    OBVIOUS
<1>4. <<"detect">> \in Seq(Asked) /\ <<"main">> \in Seq(Asked)
    OBVIOUS
<1>5. <<"detect", "configure">> \in Seq(Asked) /\ <<"configure", "llama">> \in Seq(Asked)
    OBVIOUS
<1>6. <<"detect", "configure", "llama">> \in Seq(Asked)
    OBVIOUS
<1> HIDE DEF Asked
<1>7. calls \in {<<>>, <<"configure">>, <<"detect", "configure">>, <<"llama">>,
                <<"configure", "llama">>, <<"detect", "configure", "llama">>,
                <<"detect">>, <<"main">>}
    BY <1>1 DEF Remaining
<1>8. calls \in Seq(Asked)
    BY <1>2, <1>3, <1>4, <1>5, <1>6, <1>7, Zenon
<1> QED
    BY <1>8 DEF Asked

\* What a call that may not measure answers is a thread count of the grant, or the
\* override.
LEMMA ReportedIsGranted ==
    ASSUME PlacesOK
    PROVE  /\ Reported \in Threads \ {0}
           /\ override = 0 => Granted(Reported)
<1>1. grant \in Grants /\ override \in Overrides
    BY DEF PlacesOK
<1>2. Cached \in Threads
    BY DEF PlacesOK, Cached, Signatures
<1>3. override # 0 => override \in Threads \ {0}
    BY <1>1, ConstantsAssumption DEF Threads
<1>4. Heuristic(grant) \in 1 .. Ceiling(grant)
    BY <1>1, HeuristicIsGranted
<1>5. Cached # 0 => Min({Cached, Ceiling(grant)}) \in 1 .. Ceiling(grant)
    BY <1>1, <1>2, CachedIsCut
<1>6. \A n \in 1 .. Ceiling(grant) : n \in Threads \ {0} /\ Granted(n)
    BY <1>1, WithinTheCeiling DEF Granted
<1> QED
    BY <1>3, <1>4, <1>5, <1>6 DEF Reported

LEMMA FlagsStep ==
    ASSUME FlagsOK, [Next]_vars
    PROVE  FlagsOK'
<1> USE DEF FlagsOK
<1>1. CASE Reconfigure
    BY <1>1 DEF Reconfigure
<1>2. CASE LoseCache
    BY <1>2 DEF LoseCache, container
<1>3. CASE Start
    BY <1>3 DEF Start, container
<1>4. CASE UNCHANGED <<container, cuda>>
    BY <1>4 DEF container
<1> QED
    BY <1>1, <1>2, <1>3, <1>4
       DEF Next, vars, Remember, TakeOverride, TakeCached, Measure, TakeHeuristic, Answer

\* A call is answered: with what was reported before, unless by a measurement.
LEMMA AnswerStep ==
    ASSUME IInv, todo # <<>>,
           NEW budget \in Threads \ {0}, NEW from \in Sources \ {"unmeasured"},
           Answer(budget, from),
           cache' \in [Signatures -> Threads],
           from # "override" => Granted(budget),
           memo # 0 => budget = memo,
           kind # "module" => budget = Reported /\ UNCHANGED cache
    PROVE  /\ PlacesOK' /\ CallsInOrder' /\ AnswersAgree' /\ PoolsAgree'
           /\ RanIsReported' /\ PoolWithinTheGrant'
<1>1. /\ memo' = budget /\ source' = from
      /\ UNCHANGED <<grant, override, kind>>
      /\ todo' = Tail(todo)
    BY DEF Answer, container
<1>2. /\ recorded' = IF Head(todo) = "detect" THEN budget ELSE recorded
      /\ pool' = IF Head(todo) \in {"configure", "llama"} THEN budget ELSE pool
    BY DEF Answer
<1>3. ran' = CASE kind \in {"step", "gguf"} /\ todo' = <<>> -> pool'
              [] kind = "module" -> 0
              [] OTHER -> ran
    BY DEF Answer
<1>4. /\ kind \in DOMAIN Calls
      /\ todo \in Remaining[kind]
      /\ memo = 0 <=> todo = Calls[kind]
    <2>1. kind = "none" => todo = <<>>
        BY DEF IInv, CallsInOrder, Remaining
    <2> QED
        BY <2>1 DEF IInv, CallsInOrder, PlacesOK
<1>5. /\ Tail(todo) \in Remaining[kind] \ {Calls[kind]}
      /\ Head(todo) = "detect" <=> todo = Calls[kind] /\ kind # "module"
      /\ Head(todo) = "main" <=> kind = "module"
      /\ Head(todo) \in {"configure", "llama"} => kind \in {"step", "gguf"}
      /\ kind \in {"step", "gguf"} /\ (Tail(todo) = <<>> \/ Tail(todo) = <<"llama">>) =>
             Head(todo) \in {"configure", "llama"}
    BY <1>4, NextCall
<1>6. kind # "module" => Reported' = Reported
    BY <1>1 DEF Reported, Measurable, Cached
<1>7. kind \in {"step", "gguf", "report", "module"}
    BY <1>4 DEF Calls
<1>8. {memo, recorded, pool, ran} \subseteq Threads /\ 0 \in Threads
    BY DEF IInv, PlacesOK, Threads
<1>9. budget \in Threads /\ budget # 0
    OBVIOUS
<1>10. PlacesOK'
    <2>1. {memo', recorded', pool', ran'} \subseteq Threads
        BY <1>1, <1>2, <1>3, <1>8, <1>9
    <2>2. memo' = 0 <=> source' = "unmeasured"
        BY <1>1
    <2>3. source' \in Sources
        BY <1>1
    <2> QED
        BY <1>1, <2>1, <2>2, <2>3 DEF IInv, PlacesOK
<1>11. CallsInOrder'
    BY <1>1, <1>5, <1>9 DEF CallsInOrder
<1>12. AnswersAgree'
    <2>1. memo # 0 /\ kind # "module" => recorded = memo
        BY <1>7 DEF IInv, AnswersAgree
    <2>2. kind # "module" => recorded' = budget
        BY <1>2, <1>4, <1>5, <2>1
    <2> QED
        BY <1>1, <1>6, <2>2 DEF AnswersAgree
<1>13. PoolsAgree'
    <2>1. pool' # 0 => pool' = memo' /\ kind' \in {"step", "gguf"}
        BY <1>1, <1>2, <1>5 DEF IInv, PoolsAgree
    <2>2. kind \in {"step", "gguf"} /\ (todo' = <<>> \/ todo' = <<"llama">>) => pool' = memo'
        BY <1>1, <1>2, <1>5
    <2> QED
        BY <1>1, <2>1, <2>2 DEF PoolsAgree
<1>14. RanIsReported'
    <2>1. CASE kind \in {"step", "gguf"} /\ todo' = <<>>
        <3>1. ran' = budget
            BY <1>1, <1>2, <1>3, <1>5, <2>1
        <3> QED
            BY <1>6, <2>1, <3>1 DEF RanIsReported
    <2>2. CASE kind = "module"
        BY <1>3, <2>2 DEF RanIsReported
    <2>3. CASE ~ (kind \in {"step", "gguf"} /\ todo' = <<>>) /\ kind # "module"
        <3>1. ran' = ran
            BY <1>3, <2>3
        <3> QED
            BY <1>6, <2>3, <3>1 DEF IInv, RanIsReported
    <2> QED
        BY <2>1, <2>2, <2>3
<1>15. PoolWithinTheGrant'
    BY <1>1 DEF PoolWithinTheGrant, Granted
<1> QED
    BY <1>10, <1>11, <1>12, <1>13, <1>14, <1>15
LEMMA CallStep ==
    ASSUME IInv, Remember \/ TakeOverride \/ TakeCached \/ Measure \/ TakeHeuristic
    PROVE  /\ PlacesOK' /\ CallsInOrder' /\ AnswersAgree' /\ PoolsAgree'
           /\ RanIsReported' /\ PoolWithinTheGrant'
<1>1. /\ grant \in Grants /\ override \in Overrides
      /\ cache \in [Signatures -> Threads]
      /\ memo \in Threads /\ source \in Sources
      /\ memo = 0 <=> source = "unmeasured"
    BY DEF IInv, PlacesOK
<1>2. /\ todo # <<>> /\ kind \in DOMAIN Calls
      /\ memo = 0 <=> todo = Calls[kind]
    <2>1. todo # <<>>
        BY DEF Remember, TakeOverride, TakeCached, Measure, TakeHeuristic, AskedFirst
    <2>2. kind # "none"
        BY <2>1 DEF IInv, CallsInOrder, Remaining
    <2> QED
        BY <2>1, <2>2 DEF IInv, PlacesOK, CallsInOrder
<1>3. Reported \in Threads \ {0} /\ (override = 0 => Granted(Reported))
    BY ReportedIsGranted DEF IInv
<1>4. CASE Remember
    <2>1. memo # 0 /\ Answer(memo, source) /\ UNCHANGED cache
        BY <1>4 DEF Remember, Remembered
    <2>2. kind # "module" => memo = Reported
        BY <1>2, <2>1 DEF IInv, AnswersAgree, Calls
    <2>3. source # "override" => Granted(memo)
        BY DEF IInv, PoolWithinTheGrant, Granted
    <2> QED
        BY <1>1, <1>2, <2>1, <2>2, <2>3, AnswerStep
<1>5. CASE TakeOverride
    <2>1. memo = 0 /\ Answer(Reported, "override") /\ UNCHANGED cache
        BY <1>5 DEF TakeOverride, AskedFirst, Remembered, Reported
    <2> QED
        BY <1>1, <1>2, <1>3, <2>1, AnswerStep DEF Sources
<1>6. CASE TakeCached
    <2>1. memo = 0 /\ override = 0 /\ Answer(Reported, "cached") /\ UNCHANGED cache
        BY <1>6 DEF TakeCached, AskedFirst, Remembered, Reported, Measurable
    <2> QED
        BY <1>1, <1>2, <1>3, <2>1, AnswerStep DEF Sources
<1>7. CASE Measure
    <2>1. /\ memo = 0 /\ Allowed
          /\ Ceiling(grant) \in Nat \ {0}
        BY <1>1, <1>7, CeilingIsGranted, GrantType DEF Measure, AskedFirst, Remembered
    <2>2. PICK best \in Candidates(Ceiling(grant)) :
              /\ Answer(best, "measured")
              /\ cache' = [cache EXCEPT ![Signature(grant)] = best] \/ UNCHANGED cache
        BY <1>7 DEF Measure
    <2>3. best \in Threads \ {0} /\ Granted(best)
        BY <1>1, <2>1, CandidatesAreGranted, WithinTheCeiling DEF Granted
    <2>4. cache' \in [Signatures -> Threads]
        BY <1>1, <2>2, <2>3
    <2>5. kind = "module"
        <3>1. todo = Calls[kind] /\ todo \in Remaining[kind]
            BY <1>2, <2>1 DEF IInv, CallsInOrder
        <3>2. kind # "module" => Head(todo) = "detect"
            BY <1>2, <3>1, NextCall
        <3> QED
            BY <2>1, <3>2 DEF Allowed
    <2> QED
        BY <1>2, <2>1, <2>2, <2>3, <2>4, <2>5, AnswerStep DEF Sources
<1>8. CASE TakeHeuristic
    <2>1. /\ memo = 0 /\ override = 0 /\ Answer(Heuristic(grant), "heuristic")
          /\ UNCHANGED cache /\ (Measurable => Cached = 0)
        BY <1>8 DEF TakeHeuristic, AskedFirst, Remembered
    <2>2. Reported = Heuristic(grant)
        BY <2>1 DEF Reported
    <2> QED
        BY <1>1, <1>2, <1>3, <2>1, <2>2, AnswerStep DEF Sources
<1> QED
    BY <1>4, <1>5, <1>6, <1>7, <1>8

\* The steps between processes: a process begins with nothing, and what changes
\* what it would report forgets the pool of the last step.
LEMMA BetweenStep ==
    ASSUME IInv, Reconfigure \/ LoseCache \/ Start
    PROVE  /\ PlacesOK' /\ CallsInOrder' /\ AnswersAgree' /\ PoolsAgree'
           /\ RanIsReported' /\ PoolWithinTheGrant'
<1>0. 0 \in Threads /\ todo = <<>> /\ {memo, recorded, pool, ran} \subseteq Threads
    BY DEF IInv, PlacesOK, Threads, Reconfigure, LoseCache, Start
<1>1. CASE Reconfigure
    <2>1. /\ memo' = 0 /\ recorded' = 0 /\ pool' = 0 /\ ran' = 0
          /\ source' = "unmeasured" /\ kind' = "none" /\ todo' = <<>>
          /\ grant' \in Grants /\ override' \in Overrides /\ UNCHANGED cache
        BY <1>0, <1>1 DEF Reconfigure, NewProcess
    <2>2. 0 <= grant'.allowed
        BY <2>1, GrantType
    <2> QED
        BY <1>0, <2>1, <2>2 DEF IInv, PlacesOK, CallsInOrder, AnswersAgree, PoolsAgree, RanIsReported,
           PoolWithinTheGrant, Remaining, Sources
<1>2. CASE LoseCache
    <2>1. /\ ran' = 0 /\ cache' = [sig \in Signatures |-> 0]
          /\ UNCHANGED <<grant, override, kind, todo, memo, source, recorded, pool>>
        BY <1>2 DEF LoseCache, container
    <2>2. PlacesOK'
        BY <1>0, <2>1 DEF IInv, PlacesOK
    <2> QED
        BY <1>0, <2>1, <2>2 DEF IInv, CallsInOrder, AnswersAgree, PoolsAgree, RanIsReported,
           PoolWithinTheGrant
<1>3. CASE Start
    <2>1. /\ memo' = 0 /\ recorded' = 0 /\ pool' = 0
          /\ source' = "unmeasured" /\ kind' \in DOMAIN Calls /\ todo' = Calls[kind']
          /\ UNCHANGED <<grant, override, cache, ran>>
        BY <1>3 DEF Start, NewProcess, container
    <2>2. todo' \in Remaining[kind'] /\ todo' # <<>> /\ todo' # <<"llama">>
        BY <2>1, EveryCall
    <2>3. 0 <= grant.allowed
        BY GrantType DEF IInv, PlacesOK
    <2>4. RanIsReported'
        BY <2>1 DEF IInv, RanIsReported, Reported, Measurable, Cached
    <2>5. PlacesOK'
        BY <1>0, <2>1 DEF IInv, PlacesOK, Sources
    <2>6. CallsInOrder' /\ AnswersAgree' /\ PoolsAgree'
        BY <2>1, <2>2 DEF CallsInOrder, AnswersAgree, PoolsAgree
    <2>7. PoolWithinTheGrant'
        BY <2>1, <2>3 DEF PoolWithinTheGrant
    <2> QED
        BY <2>4, <2>5, <2>6, <2>7
<1> QED
    BY <1>1, <1>2, <1>3

LEMMA InitIInv == Init => IInv
<1> SUFFICES ASSUME Init PROVE IInv
    OBVIOUS
<1>1. FlagsOK
    BY DEF Init, FlagsOK
<1>2. 0 \in Threads /\ 0 <= grant.allowed
    BY GrantType DEF Init, Threads
<1>3. PlacesOK
    BY <1>2 DEF Init, PlacesOK, Sources
<1>4. CallsInOrder /\ AnswersAgree /\ PoolsAgree /\ RanIsReported
    BY DEF Init, CallsInOrder, AnswersAgree, PoolsAgree, RanIsReported, Remaining
<1>5. PoolWithinTheGrant
    BY <1>2 DEF Init, PoolWithinTheGrant
<1> QED
    BY <1>1, <1>3, <1>4, <1>5 DEF IInv

LEMMA NextIInv == IInv /\ [Next]_vars => IInv'
<1> SUFFICES ASSUME IInv, [Next]_vars PROVE IInv'
    OBVIOUS
<1>1. FlagsOK'
    BY FlagsStep DEF IInv
<1>2. CASE UNCHANGED vars
    <2>1. UNCHANGED <<grant, override, cache, kind, todo, memo, source, recorded, pool, ran>>
        BY <1>2 DEF vars, container
    <2>2. PlacesOK' /\ CallsInOrder' /\ PoolsAgree'
        BY <2>1 DEF IInv, PlacesOK, CallsInOrder, PoolsAgree
    <2>3. AnswersAgree' /\ RanIsReported'
        BY <2>1 DEF IInv, AnswersAgree, RanIsReported, Reported, Measurable, Cached
    <2>4. PoolWithinTheGrant'
        BY <2>1 DEF IInv, PoolWithinTheGrant
    <2> QED
        BY <1>1, <2>2, <2>3, <2>4 DEF IInv
<1>3. CASE Reconfigure \/ LoseCache \/ Start
    BY <1>1, <1>3, BetweenStep DEF IInv
<1>4. CASE Remember \/ TakeOverride \/ TakeCached \/ Measure \/ TakeHeuristic
    BY <1>1, <1>4, CallStep DEF IInv
<1> QED
    BY <1>2, <1>3, <1>4 DEF Next

LEMMA BudgetInvariant == Spec => []IInv
BY InitIInv, NextIInv, PTL DEF Spec
-----------------------------------------------------------------------------
\* Every variable keeps its type: in particular every thread count is 0, an
\* override, or within the cpuset of some container.
THEOREM TypeCorrect == Spec => []TypeOK
<1>1. IInv => TypeOK
    BY TypeHalves, TodoIsASequence DEF IInv, PlacesOK, CallsInOrder
<1> QED
    BY <1>1, BudgetInvariant, PTL

\* cpu_budget: whatever an earlier container left in data/processed/cpu_budget.json,
\* no process gets more threads than its container was granted, unless APP_CPUS
\* says so.
THEOREM WithinTheGrant == Spec => []PoolWithinTheGrant
<1>1. IInv => PoolWithinTheGrant
    BY DEF IInv
<1> QED
    BY <1>1, BudgetInvariant, PTL

\* detect_hardware: the cpu_threads of a measurement are the threads its engine ran
\* with, and a process that only reports finds the same number again.
THEOREM RecordedAreUsed == Spec => []RecordedThreadsAreUsed
<1>1. IInv => RecordedThreadsAreUsed
    <2> SUFFICES ASSUME IInv PROVE RecordedThreadsAreUsed
        OBVIOUS
    <2>1. pool # 0 => recorded = pool
        BY DEF IInv, PoolsAgree, AnswersAgree
    <2>2. ASSUME kind = "report", todo = <<>>, ran # 0
          PROVE  recorded = ran
        <3>1. Calls["report"] # <<>>
            BY DEF Calls
        <3>2. memo # 0
            BY <2>2, <3>1 DEF IInv, CallsInOrder
        <3> QED
            BY <2>2, <3>2 DEF IInv, AnswersAgree, RanIsReported
    <2> QED
        BY <2>1, <2>2 DEF RecordedThreadsAreUsed
<1> QED
    BY <1>1, BudgetInvariant, PTL

\* calibrate and _store_cached: no step replaces the measurement of a grant.
THEOREM MeasurementsStay == Spec => MeasuredOnce
<1> DEFINE Kept == \A sig \in Signatures :
                      cache[sig] # 0 /\ cache'[sig] # cache[sig] => cache'[sig] = 0
<1>1. IInv /\ [Next]_vars => [Kept]_vars
    <2> SUFFICES ASSUME IInv, Next PROVE Kept
        OBVIOUS
    <2>1. cache \in [Signatures -> Threads]
        BY DEF IInv, PlacesOK
    <2>2. \/ UNCHANGED cache
          \/ cache' = [sig \in Signatures |-> 0]
          \/ /\ cache[Signature(grant)] = 0
             /\ \E best : cache' = [cache EXCEPT ![Signature(grant)] = best]
        BY DEF Next, Reconfigure, LoseCache, Start, Remember, TakeOverride, TakeCached, Measure,
           TakeHeuristic, Cached
    <2> QED
        BY <2>1, <2>2
<1> QED
    BY <1>1, BudgetInvariant, PTL DEF Spec, MeasuredOnce
=============================================================================
