---------------------------- MODULE DialingProofs ---------------------------
(***************************************************************************)
(* Theorems about Dialing, for every list of rules, every host, every list *)
(* of DNS nodes and every record: the rule matchRule chooses (the scores   *)
(* are recursive functions), the records sendRecords makes, the lookup     *)
(* with its races and its two appending goroutines, and the candidates.    *)
(* And about CFPool, the pool some of the candidates come from.            *)
(*                                                                         *)
(* The operators recurse over sequences.  What such a function computes is *)
(* proved from FunctionByRecursion, which takes the step as a function and *)
(* not as an operator, and InductionUpTo, which takes a set; both follow   *)
(* from LeastElement.                                                      *)
(***************************************************************************)
EXTENDS Dialing, CFPool, TLAPS, WellFoundedInduction, FiniteSetTheorems

\* A set of numbers that is not empty has a least one.
LEMMA LeastElement ==
  ASSUME NEW T \in SUBSET Nat, T # {}
  PROVE  \E x \in T : \A y \in T : x <= y
<1>1. PICK x \in T : \A y \in T : ~(<<y, x>> \in OpToRel(<, Nat))
  BY NatLessThanWellFounded, WFMin
<1>2. \A y \in T : ~(y < x)
  BY <1>1 DEF OpToRel
<1> QED
  BY <1>2

\* Induction over 0 .. n, with a set in the place of a predicate.
LEMMA InductionUpTo ==
  ASSUME NEW n \in Nat, NEW S, 0 \in S, \A i \in 1..n : i - 1 \in S => i \in S
  PROVE  \A i \in 0..n : i \in S
<1> SUFFICES ASSUME NEW j \in 0..n, j \notin S PROVE FALSE
  OBVIOUS
<1> DEFINE T == {i \in 0..n : i \notin S}
<1>1. T \in SUBSET Nat /\ T # {}
  OBVIOUS
<1>2. PICK x \in T : \A y \in T : x <= y
  BY <1>1, LeastElement
<1>3. x \in 1..n /\ x - 1 \in 0..n
  BY <1>2
<1>4. x - 1 \in S
  BY <1>2, <1>3
<1> QED
  BY <1>2, <1>3, <1>4

\* A recursion of n steps over D that starts from base.
StepOn(step, n, D) == step \in [1..n -> [D -> D]]
Recursion(f, n, D, base, step) ==
  /\ f \in [0..n -> D]
  /\ f[0] = base /\ \A i \in 1..n : f[i] = step[i][f[i - 1]]

\* There is a function that n steps of a recursion define.
LEMMA FunctionByRecursion ==
  ASSUME NEW n \in Nat, NEW D, NEW base \in D, NEW step, StepOn(step, n, D)
  PROVE  \E f : Recursion(f, n, D, base, step)
<1> USE DEF StepOn
<1> DEFINE Upto(m, f) == f[0] = base /\ \A i \in 1..m : f[i] = step[i][f[i - 1]]
           S == {m \in 0..n : \E f \in [0..n -> D] : Upto(m, f)}
<1>1. 0 \in S
  <2> DEFINE g == [i \in 0..n |-> base]
  <2>1. g \in [0..n -> D] /\ Upto(0, g)
    OBVIOUS
  <2> HIDE DEF g, Upto
  <2> QED
    BY <2>1
<1>2. ASSUME NEW m \in 1..n, m - 1 \in S PROVE m \in S
  <2>1. PICK f \in [0..n -> D] : Upto(m - 1, f)
    BY <1>2
  <2> DEFINE g == [f EXCEPT ![m] = step[m][f[m - 1]]]
  <2>2. m - 1 \in 0..n /\ f[m - 1] \in D
    OBVIOUS
  <2>3. g \in [0..n -> D]
    BY <2>2
  <2>4. g[0] = base
    BY <2>1
  <2>5. ASSUME NEW i \in 1..m PROVE g[i] = step[i][g[i - 1]]
    <3>1. g[i - 1] = f[i - 1]
      OBVIOUS
    <3>2. CASE i = m
      <4>1. g[m] = step[m][f[m - 1]]
        OBVIOUS
      <4> HIDE DEF g
      <4> QED
        BY <3>1, <3>2, <4>1
    <3>3. CASE i \in 1..m - 1
      <4>1. g[i] = f[i]
        BY <3>3
      <4> HIDE DEF g
      <4> QED
        BY <2>1, <3>1, <3>3, <4>1
    <3> QED
      BY <3>2, <3>3
  <2> HIDE DEF g
  <2>6. Upto(m, g)
    BY <2>4, <2>5
  <2> HIDE DEF Upto
  <2> QED
    BY <2>3, <2>6
<1>3. \A i \in 1..n : i - 1 \in S => i \in S
  BY <1>2
<1> HIDE DEF S
<1>4. \A i \in 0..n : i \in S
  BY <1>1, <1>3, InductionUpTo
<1>5. n \in S
  BY <1>4
<1> QED
  BY <1>5 DEF S, Recursion


-----------------------------------------------------------------------------
\* A name of at least one character has a positive length.
LEMMA CharsPositive ==
  ASSUME NEW name, NameOK(name)
  PROVE  Chars(name) \in Int /\ Chars(name) >= 1
<1> DEFINE n == Len(name)
           Rec(f) == f = [i \in 0..n |-> IF i = 0 THEN -1 ELSE f[i - 1] + 1 + LabelLen(name[i])]
           upTo == CHOOSE f : Rec(f)
<1>0. n \in Nat /\ n >= 1 /\ (n = 1 => LabelLen(name[1]) > 0)
      /\ \A i \in 1..n : LabelLen(name[i]) \in Nat
  BY DEF NameOK
<1>1. \E f : Rec(f)
  <2> DEFINE D == Int
             first == -1
             step == [i \in 1..n |-> [v \in D |-> v + 1 + LabelLen(name[i])]]
  <2>1. first \in D /\ StepOn(step, n, D)
    BY <1>0 DEF StepOn
  <2>2. \A i \in 1..n, v \in D : step[i][v] = v + 1 + LabelLen(name[i])
    OBVIOUS
  <2> HIDE DEF n, D, first, step
  <2>3. PICK f : Recursion(f, n, D, first, step)
    BY <1>0, <2>1, FunctionByRecursion
  <2> USE DEF Recursion
  <2>4. \A i \in 1..n : f[i - 1] \in D
    BY <1>0, <2>3
  <2>5. \A i \in 1..n : f[i] = f[i - 1] + 1 + LabelLen(name[i])
    BY <2>2, <2>3, <2>4
  <2>6. Rec(f)
    BY <1>0, <2>3, <2>5 DEF first
  <2> QED
    BY <2>6
<1>2. Rec(upTo)
  BY <1>1
<1>3. Chars(name) = upTo[n]
  BY DEF Chars
<1> HIDE DEF upTo
<1>4. upTo[0] = -1 /\ \A i \in 1..n : upTo[i] = upTo[i - 1] + 1 + LabelLen(name[i])
  BY <1>0, <1>2, SMTT(30)
<1> DEFINE S == {i \in 0..n : upTo[i] \in Int /\ upTo[i] >= i - 1}
<1>5. 0 \in S
  BY <1>0, <1>4
<1>6. ASSUME NEW i \in 1..n, i - 1 \in S PROVE i \in S
  BY <1>0, <1>4, <1>6, SMTT(30)
<1>7. n \in S
  <2>1. \A i \in 1..n : i - 1 \in S => i \in S
    BY <1>6
  <2> HIDE DEF S, n
  <2>2. \A i \in 0..n : i \in S
    BY <1>0, <1>5, <2>1, InductionUpTo
  <2> QED
    BY <1>0, <2>2
<1>8. CASE n = 1
  BY <1>0, <1>3, <1>4, <1>8
<1>9. CASE n # 1
  <2>1. upTo[n] \in Int /\ upTo[n] >= n - 1
    BY <1>7
  <2> HIDE DEF n
  <2> QED
    BY <1>0, <1>3, <1>9, <2>1
<1> QED
  BY <1>8, <1>9

ScoreOf(rules, host, i) == IF i = 0 THEN -1 ELSE domainMatchScore(host, rules[i].domain)

\* b is the first of the best among the first k rules.
FirstBest(rules, host, k, b) ==
    /\ b \in 0..k
    /\ b = 0 => \A j \in 1..k : rules[j].enabled => ScoreOf(rules, host, j) <= -1
    /\ b # 0 => /\ rules[b].enabled /\ ScoreOf(rules, host, b) >= 0
                /\ \A j \in 1..k : rules[j].enabled =>
                      /\ ScoreOf(rules, host, j) <= ScoreOf(rules, host, b)
                      /\ j < b => ScoreOf(rules, host, j) < ScoreOf(rules, host, b)

\* matchRule's loop ends at the first of the rules with the highest
\* score.
LEMMA BestRuleIsFirstBest ==
  ASSUME NEW R, NEW rules \in Seq(R), NEW host,
         \A i \in 1..Len(rules) : ScoreOf(rules, host, i) \in Int
  PROVE  FirstBest(rules, host, Len(rules), BestRule(rules, host))
<1> DEFINE n == Len(rules)
           Score(i) == ScoreOf(rules, host, i)
           Take(i, b) == IF rules[i].enabled /\ Score(i) > Score(b) THEN i ELSE b
           Rec(f) == f = [i \in 0..n |-> IF i = 0 THEN 0 ELSE Take(i, f[i - 1])]
           best == CHOOSE f : Rec(f)
<1>0. n \in Nat /\ \A i \in 0..n : Score(i) \in Int /\ Score(0) = -1
  BY DEF ScoreOf
<1>1. \E f : Rec(f)
  <2> DEFINE D == 0..n
             first == 0
             step == [i \in 1..n |-> [v \in D |-> Take(i, v)]]
  <2>1. first \in D /\ StepOn(step, n, D)
    BY <1>0 DEF StepOn
  <2>2. \A i \in 1..n, v \in D : step[i][v] = Take(i, v)
    OBVIOUS
  <2> HIDE DEF n, D, first, step, Take
  <2>3. PICK f : Recursion(f, n, D, first, step)
    BY <1>0, <2>1, FunctionByRecursion
  <2> USE DEF Recursion
  <2>4. \A i \in 1..n : f[i - 1] \in D
    BY <1>0, <2>3
  <2>5. \A i \in 1..n : f[i] = Take(i, f[i - 1])
    BY <2>2, <2>3, <2>4
  <2>6. Rec(f)
    BY <1>0, <2>3, <2>5 DEF first
  <2> QED
    BY <2>6
<1>2. Rec(best)
  BY <1>1, Zenon
<1>3. BestRule(rules, host) = best[n]
  BY DEF BestRule, ScoreOf
<1> HIDE DEF best
<1>4. best[0] = 0 /\ \A i \in 1..n : best[i] = Take(i, best[i - 1])
  <2> HIDE DEF Take, n
  <2> QED
    BY <1>0, <1>2, SMTT(30)
<1> DEFINE S == {i \in 0..n : FirstBest(rules, host, i, best[i])}
<1>5. 0 \in S
  BY <1>0, <1>4 DEF FirstBest
<1>6. ASSUME NEW i \in 1..n, i - 1 \in S PROVE i \in S
  <2> DEFINE b == best[i - 1]
  <2>1. FirstBest(rules, host, i - 1, b) /\ b \in 0..i - 1
    BY <1>6 DEF FirstBest
  <2>2. best[i] = Take(i, b)
    BY <1>4
  <2>3. Score(i) \in Int /\ Score(b) \in Int
    BY <1>0, <2>1
  <2> HIDE DEF b, n
  <2>4. CASE rules[i].enabled /\ Score(i) > Score(b)
    <3>1. best[i] = i
      BY <2>2, <2>4
    <3>2. Score(i) >= 0
      BY <1>0, <2>1, <2>3, <2>4 DEF FirstBest
    <3>3. ASSUME NEW j \in 1..i, rules[j].enabled
          PROVE  Score(j) <= Score(i) /\ (j < i => Score(j) < Score(i))
      <4>1. CASE j = i
        BY <2>3, <4>1
      <4>2. CASE j \in 1..i - 1
        <5>1. Score(j) <= Score(b)
          BY <1>0, <2>1, <3>3, <4>2 DEF FirstBest
        <5> QED
          BY <1>0, <2>3, <2>4, <4>2, <5>1
      <4> QED
        BY <4>1, <4>2
    <3> QED
      BY <1>0, <2>4, <3>1, <3>2, <3>3 DEF FirstBest
  <2>5. CASE ~(rules[i].enabled /\ Score(i) > Score(b))
    <3>1. best[i] = b
      BY <2>2, <2>5
    <3>2. rules[i].enabled => Score(i) <= Score(b)
      BY <2>3, <2>5
    <3>3. ASSUME NEW j \in 1..i, rules[j].enabled
          PROVE  Score(j) <= Score(b) /\ (j < b => Score(j) < Score(b))
      <4>1. CASE j = i
        BY <2>1, <3>2, <3>3, <4>1
      <4>2. CASE j \in 1..i - 1
        BY <1>0, <2>1, <3>3, <4>2 DEF FirstBest
      <4> QED
        BY <4>1, <4>2
    <3>4. b = 0 => \A j \in 1..i : rules[j].enabled => Score(j) <= -1
      BY <1>0, <3>3
    <3>5. b # 0 => rules[b].enabled /\ Score(b) >= 0
      BY <2>1 DEF FirstBest
    <3>6. b \in 0..i
      BY <2>1
    <3> HIDE DEF Score
    <3> QED
      BY <3>1, <3>3, <3>4, <3>5, <3>6 DEF FirstBest, Score
  <2> QED
    BY <2>4, <2>5
<1>7. n \in S
  <2>1. \A i \in 1..n : i - 1 \in S => i \in S
    BY <1>6
  <2> HIDE DEF S, n
  <2>2. \A i \in 0..n : i \in S
    BY <1>0, <1>5, <2>1, InductionUpTo
  <2> QED
    BY <1>0, <2>2
<1> QED
  BY <1>3, <1>7

\* What a score says of the class of a pattern.
LEMMA ScoreOfClass ==
  ASSUME NEW host, NEW d, DomainOK(d)
  PROVE  LET s == domainMatchScore(host, d)
             c == Class(host, d)
         IN  /\ s \in Int
             /\ s >= 0 => \/ c = <<3, 0>> /\ d.name = host /\ s = 1000 + Chars(host) /\ Chars(host) \in Nat \ {0}
                          \/ c = <<2, d.len>> /\ s = 900 + d.len /\ d.len \in Nat \ {0}
                          \/ c = <<1, Chars(d.name)>> /\ s = Chars(d.name)
                          \/ c = <<0, 0>> /\ s = 1
<1>1. CASE d.kind = "regex"
  BY <1>1 DEF DomainOK, domainMatchScore, Class
<1>2. CASE d.kind = "any"
  BY <1>2 DEF domainMatchScore, Class
<1>3. CASE d.kind = "base"
  <2>1. Chars(d.name) \in Int /\ Chars(d.name) >= 1
    BY <1>3, CharsPositive DEF DomainOK
  <2>2. Class(host, d) = <<1, Chars(d.name)>>
    BY <1>3 DEF Class
  <2>3. domainMatchScore(host, d) \in {Chars(d.name), -1}
    BY <1>3 DEF domainMatchScore
  <2> QED
    BY <2>1, <2>2, <2>3
<1>4. CASE d.kind = "name"
  <2>1. Chars(d.name) \in Int /\ Chars(d.name) >= 1
    BY <1>4, CharsPositive DEF DomainOK
  <2>2. CASE host = d.name
    <3>1. Class(host, d) = <<3, 0>>
      BY <1>4, <2>2 DEF Class
    <3>2. domainMatchScore(host, d) = 1000 + Chars(host)
      BY <1>4, <2>2 DEF domainMatchScore
    <3> QED
      BY <2>1, <2>2, <3>1, <3>2
  <2>3. CASE host # d.name
    <3>1. Class(host, d) = <<1, Chars(d.name)>>
      BY <1>4, <2>3 DEF Class
    <3>2. domainMatchScore(host, d) \in {Chars(d.name), -1}
      BY <1>4, <2>3 DEF domainMatchScore
    <3> QED
      BY <2>1, <3>1, <3>2
  <2> QED
    BY <2>2, <2>3
<1> QED
  BY <1>1, <1>2, <1>3, <1>4 DEF DomainOK

\* Where the sums of two classes do not meet, they order as the classes do.
Apart(c) == (c[1] = 2 => c[2] <= 100) /\ (c[1] = 1 => c[2] \in 2 .. 900)

\* Within the lengths a name can have, the scores order the kinds of
\* patterns.
LEMMA ScoresOrderClasses ==
  ASSUME NEW host, NEW d, NEW e, DomainOK(d), DomainOK(e),
         domainMatchScore(host, d) >= 0, domainMatchScore(host, e) >= 0,
         Apart(Class(host, d)), Apart(Class(host, e))
  PROVE  /\ domainMatchScore(host, d) <= domainMatchScore(host, e)
              => ~Above(Class(host, d), Class(host, e))
         /\ domainMatchScore(host, d) < domainMatchScore(host, e)
              => Class(host, d) # Class(host, e)
<1> DEFINE s == domainMatchScore(host, d)
           t == domainMatchScore(host, e)
           c == Class(host, d)
           f == Class(host, e)
<1>1. /\ s \in Int /\ s >= 0 /\ Apart(c)
      /\ \/ c = <<3, 0>> /\ d.name = host /\ s = 1000 + Chars(host) /\ Chars(host) \in Nat \ {0}
         \/ c = <<2, d.len>> /\ s = 900 + d.len /\ d.len \in Nat \ {0}
         \/ c = <<1, Chars(d.name)>> /\ s = Chars(d.name)
         \/ c = <<0, 0>> /\ s = 1
  BY ScoreOfClass
<1>2. /\ t \in Int /\ t >= 0 /\ Apart(f)
      /\ \/ f = <<3, 0>> /\ e.name = host /\ t = 1000 + Chars(host) /\ Chars(host) \in Nat \ {0}
         \/ f = <<2, e.len>> /\ t = 900 + e.len /\ e.len \in Nat \ {0}
         \/ f = <<1, Chars(e.name)>> /\ t = Chars(e.name)
         \/ f = <<0, 0>> /\ t = 1
  BY ScoreOfClass
<1> HIDE DEF s, t, c, f
<1>3. /\ c[1] \in 0 .. 3
      /\ c[1] = 3 => s >= 1001
      /\ c[1] = 2 => s = 900 + c[2] /\ c[2] \in 1 .. 100
      /\ c[1] = 1 => s = c[2] /\ c[2] \in 2 .. 900
      /\ c[1] = 0 => s = 1
      /\ c[1] \in {0, 3} => c[2] = 0
  BY <1>1, SMTT(30) DEF Apart
<1>4. /\ f[1] \in 0 .. 3
      /\ f[1] = 3 => t >= 1001
      /\ f[1] = 2 => t = 900 + f[2] /\ f[2] \in 1 .. 100
      /\ f[1] = 1 => t = f[2] /\ f[2] \in 2 .. 900
      /\ f[1] = 0 => t = 1
      /\ f[1] \in {0, 3} => f[2] = 0
  BY <1>2, SMTT(30) DEF Apart
<1>5. c[1] = 3 /\ f[1] = 3 => s = t
  BY <1>1, <1>2
<1>6. s <= t => ~Above(c, f)
  <2>0. s \in Int /\ t \in Int
    BY <1>1, <1>2
  <2>1. /\ c[1] = 3 => s >= 1001
        /\ c[1] = 2 => 901 <= s /\ s <= 1000
        /\ c[1] = 1 => 2 <= s /\ s <= 900
        /\ c[1] = 0 => s = 1
    BY <1>3, SMTT(30)
  <2>2. /\ f[1] = 3 => t >= 1001
        /\ f[1] = 2 => 901 <= t /\ t <= 1000
        /\ f[1] = 1 => 2 <= t /\ t <= 900
        /\ f[1] = 0 => t = 1
    BY <1>4, SMTT(30)
  <2>3. s <= t => ~(c[1] > f[1])
    BY <1>3, <1>4, <2>0, <2>1, <2>2
  <2>4. c[1] = f[1] /\ s <= t => ~(c[2] > f[2])
    <3>1. CASE c[1] \in {0, 3}
      BY <1>3, <1>4, <3>1
    <3>2. CASE c[1] = 2
      BY <1>3, <1>4, <2>0, <3>2, SMTT(30)
    <3>3. CASE c[1] = 1
      BY <1>3, <1>4, <2>0, <3>3
    <3> QED
      BY <1>3, <3>1, <3>2, <3>3
  <2> QED
    BY <2>3, <2>4 DEF Above
<1>7. s < t => c # f
  BY <1>1, <1>2, <1>3, <1>4, <1>5
<1> QED
  BY <1>6, <1>7 DEF s, t, c, f

\* A request keeps its rules until matchRule has chosen one, and the record
\* that was sent is a first record that did not panic.
Arrived ==
    /\ pc = "match" => req \in Requests
    /\ pc = "sent" => hello \in Hellos /\ ~Panics(hello)

LEMMA ArrivedAlways == Spec => []Arrived
<1>1. Init => Arrived
  BY DEF Init, Arrived
<1>2. Arrived /\ [Next]_vars => Arrived'
  <2> SUFFICES ASSUME Arrived, [Next]_vars PROVE Arrived'
    OBVIOUS
  <2> USE DEF Arrived
  <2>1. CASE matchRule
    BY <2>1 DEF matchRule, Matched
  <2>2. CASE IsCloudflareAsks
    BY <2>2 DEF IsCloudflareAsks
  <2>3. CASE IsCloudflareKnows
    BY <2>3 DEF IsCloudflareKnows, Matched
  <2>4. CASE buildDialCandidates
    BY <2>4 DEF buildDialCandidates, Ready
  <2>5. CASE CandidatesAsk
    BY <2>5 DEF CandidatesAsk
  <2>6. CASE CandidatesResolved
    BY <2>6 DEF CandidatesResolved, Ready
  <2>7. CASE CandidatesFallBack
    BY <2>7 DEF CandidatesFallBack, Ready
  <2>8. CASE handleTLSFragment
    <3>1. PICK h \in Hellos : hello' = h /\ pc' = IF Panics(h) THEN "panic" ELSE "sent"
      BY <2>8 DEF handleTLSFragment
    <3> QED
      BY <3>1
  <2>9. CASE Close
    BY <2>9 DEF Close
  <2>10. CASE CacheExpires \/ Deadline \/ Lookup \/ StoreECH
    BY <2>10 DEF CacheExpires, Deadline, Lookup, StoreECH, dvars
  <2>11. CASE UNCHANGED vars
    BY <2>11 DEF vars, dvars
  <2>12. CASE Stage2Asks \/ Stage2Knows
    BY <2>12 DEF Stage2Asks, Stage2Knows
  <2> HIDE DEF Arrived
  <2> QED
    BY <2>1, <2>2, <2>3, <2>4, <2>5, <2>6, <2>7, <2>8, <2>9, <2>10, <2>11, <2>12
       DEF Next, DecideStep
<1> QED
  BY <1>1, <1>2, PTL DEF Spec

\* So the chosen rule is of the best kind that applies, and the first of
\* it.
LEMMA MostSpecificHolds == Arrived => MostSpecific
<1> SUFFICES ASSUME req \in Requests,
                    \A i \in {j \in DOMAIN req.rules : Applies(req.host, req.rules[j])} :
                        Apart(Class(req.host, req.rules[i].domain))
             PROVE  LET rs == req.rules
                        on == {i \in DOMAIN rs : Applies(req.host, rs[i])}
                        C(i) == Class(req.host, rs[i].domain)
                        b == BestRule(rs, req.host)
                    IN  IF on = {} THEN b = 0
                        ELSE /\ b \in on
                             /\ \A i \in on : ~Above(C(i), C(b))
                             /\ \A i \in on : i < b => C(i) # C(b)
  BY Zenon DEF Arrived, MostSpecific, Apart
<1> DEFINE rs == req.rules
           host == req.host
           n == Len(rs)
           on == {i \in DOMAIN rs : Applies(host, rs[i])}
           C(i) == Class(host, rs[i].domain)
           Score(i) == domainMatchScore(host, rs[i].domain)
           b == BestRule(rs, host)
<1>1. rs \in Seq(Range(rs)) /\ n \in Nat /\ DOMAIN rs = 1 .. n
  BY DialAssumption
<1>2. \A i \in 1 .. n : rs[i].enabled \in BOOLEAN /\ DomainOK(rs[i].domain)
  BY <1>1, DialAssumption DEF RuleOK
<1>3. \A i \in 1 .. n : Score(i) \in Int /\ Score(i) = ScoreOf(rs, host, i)
  BY <1>1, <1>2, ScoreOfClass DEF ScoreOf
<1>4. FirstBest(rs, host, n, b)
  BY <1>1, <1>3, BestRuleIsFirstBest
<1>5. \A i \in 1 .. n : i \in on <=> rs[i].enabled /\ Score(i) >= 0
  BY <1>1 DEF Applies
<1>6. \A i \in on : i \in 1 .. n /\ Apart(C(i))
  BY <1>1
<1> HIDE DEF rs, host, n, on, C, Score, b
<1>7. b \in 0 .. n
  BY <1>4 DEF FirstBest
<1>8. CASE b = 0
  <2>1. \A i \in 1 .. n : rs[i].enabled => Score(i) <= -1
    BY <1>3, <1>4, <1>8 DEF FirstBest
  <2>2. on = {}
    BY <1>3, <1>5, <1>6, <2>1
  <2> QED
    BY <1>8, <2>2 DEF rs, host, n, on, C, b
<1>9. CASE b # 0
  <2>1. b \in 1 .. n
    BY <1>1, <1>7, <1>9
  <2>2. b \in on
    BY <1>3, <1>4, <1>5, <1>9, <2>1 DEF FirstBest
  <2>3. ASSUME NEW i \in on
        PROVE  Score(i) <= Score(b) /\ (i < b => Score(i) < Score(b))
    BY <1>3, <1>4, <1>5, <1>6, <1>9, <2>1 DEF FirstBest
  <2>4. ASSUME NEW i \in on
        PROVE  /\ Score(i) <= Score(b) => ~Above(C(i), C(b))
               /\ Score(i) < Score(b) => C(i) # C(b)
    <3>1. DomainOK(rs[i].domain) /\ DomainOK(rs[b].domain)
      BY <1>2, <1>6, <2>1
    <3>2. Score(i) >= 0 /\ Score(b) >= 0
      BY <1>5, <1>6, <2>1, <2>2
    <3>3. Apart(C(i)) /\ Apart(C(b))
      BY <1>6, <2>2
    <3> QED
      BY <3>1, <3>2, <3>3, ScoresOrderClasses DEF Score, C
  <2>5. \A i \in on : ~Above(C(i), C(b)) /\ (i < b => C(i) # C(b))
    BY <2>3, <2>4
  <2>6. on # {}
    BY <2>2
  <2> QED
    BY <2>2, <2>5, <2>6 DEF rs, host, n, on, C, b
<1> QED
  BY <1>8, <1>9

(* matchRule's loop over the rules picks the first of the most specific     *)
(* ones that apply, in the order the comments of domainMatchScore promise, *)
(* for every list of rules and every host.                                 *)
THEOREM MatchRuleIsMostSpecific == Spec => []MostSpecific
  BY ArrivedAlways, MostSpecificHolds, PTL

-----------------------------------------------------------------------------
\* splitAndAppend with the two parts sendRecords asks for.
Halves(from, to, s) ==
    \/ s = <<<<from, to>>>>
    \/ \E m \in Nat : from < m /\ m < to /\ s = <<<<from, m>>, <<m, to>>>>

\* splitAndAppend with two parts cuts once, strictly inside.
LEMMA SplitHalves ==
  ASSUME NEW from \in Nat, NEW to \in Nat, from < to
  PROVE  Halves(from, to, splitAndAppend(from, to, 2))
<1>1. CASE to - from < 2
  BY <1>1 DEF Halves, splitAndAppend
<1>2. CASE ~(to - from < 2)
  <2> DEFINE base == (to - from) \div 2
             m == from + base
             s == splitAndAppend(from, to, 2)
  <2>1. base \in Nat /\ base >= 1 /\ base < to - from
    BY <1>2
  <2>2. s = [i \in 1 .. 2 |-> <<from + (i - 1) * base, IF i = 2 THEN to ELSE from + i * base>>]
    BY <1>2 DEF splitAndAppend
  <2> HIDE DEF base, s
  <2>3. s[1] = <<from, m>> /\ s[2] = <<m, to>>
    BY <2>1, <2>2
  <2>4. s \in Seq(Nat \X Nat) /\ Len(s) = 2
    BY <2>1, <2>2
  <2>5. s = <<<<from, m>>, <<m, to>>>>
    BY <2>3, <2>4
  <2>6. m \in Nat /\ from < m /\ m < to
    BY <2>1
  <2> QED
    BY <2>5, <2>6 DEF Halves, s
<1> QED
  BY <1>1, <1>2

\* The record is cut inside the server name or at its edge, and strictly
\* inside unless the cut misses the name.
LEMMA CutInName ==
  ASSUME NEW h, HelloOK(h)
  PROVE  LET cut == findLastDot(h)
         IN  /\ cut \in Nat /\ h.pos <= cut /\ cut <= h.pos + h.name
             /\ ~Missed(h) => (h.pos < cut /\ cut < h.pos + h.name)
<1> USE DEF HelloOK
<1>1. CASE LastDot(h) = {}
  <2>1. ~Missed(h) => h.name > 1
    BY <1>1 DEF LastDot, Missed
  <2> QED
    BY <1>1, <2>1 DEF findLastDot
<1>2. CASE LastDot(h) # {}
  <2> DEFINE top == h.pos + h.name
             T == {top - i : i \in LastDot(h)}
  <2>1. T \in SUBSET Nat /\ T # {}
    BY <1>2 DEF LastDot
  <2>2. PICK x \in T : \A y \in T : x <= y
    BY <2>1, LeastElement
  <2>3. PICK i \in LastDot(h) : x = top - i
    BY <2>2
  <2>4. \A j \in LastDot(h) : i >= j
    <3> TAKE j \in LastDot(h)
    <3>1. top - i <= top - j
      BY <2>2, <2>3
    <3> QED
      BY <3>1 DEF LastDot
  <2>5. Max(LastDot(h)) \in LastDot(h)
    BY <2>3, <2>4 DEF Max
  <2>6. findLastDot(h) \in LastDot(h) /\ \A j \in LastDot(h) : findLastDot(h) >= j
    BY <1>2, <2>3, <2>4, <2>5 DEF findLastDot, Max
  <2> DEFINE cut == findLastDot(h)
  <2> HIDE DEF cut
  <2>7. cut \in Nat /\ h.pos <= cut /\ cut <= top /\ cut \in h.dots
    BY <2>6 DEF LastDot, cut
  <2>8. cut = top => Missed(h)
    BY <2>7 DEF Missed
  <2>9. cut = h.pos /\ cut # top => Missed(h)
    <3> SUFFICES ASSUME cut = h.pos, cut # top PROVE h.dots \cap (h.pos .. top - 1) = {h.pos}
      BY DEF Missed
    <3>1. \A j \in h.dots \cap (h.pos .. top - 1) : j = h.pos
      BY <2>6 DEF LastDot, cut
    <3>2. h.pos \in h.dots \cap (h.pos .. top - 1)
      BY <2>7
    <3> QED
      BY <3>1, <3>2
  <2> QED
    BY <2>7, <2>8, <2>9 DEF cut
<1> QED
  BY <1>1, <1>2

\* rs carries the bytes from .. to - 1 in order and once, none empty.
Carries(rs, from, to) ==
    /\ rs[1][1] = from /\ rs[Len(rs)][2] = to
    /\ \A i \in 1 .. Len(rs) - 1 : rs[i][2] = rs[i + 1][1]
    /\ \A i \in DOMAIN rs : rs[i][1] < rs[i][2]
Between(rs, from, to) ==
    /\ rs \in Seq(Nat \X Nat) /\ rs # <<>>
    /\ \A i \in DOMAIN rs : from <= rs[i][1] /\ rs[i][2] <= to

\* No record has the whole of first .. last - 1.
NoneHolds(rs, first, last) ==
    \A i \in DOMAIN rs : ~(rs[i][1] <= first /\ last <= rs[i][2])

\* Two halves carry the bytes of their range once and in order.
LEMMA HalvesCarry ==
  ASSUME NEW from \in Nat, NEW to \in Nat, from < to, NEW s, Halves(from, to, s)
  PROVE  Carries(s, from, to) /\ Between(s, from, to)
<1>1. CASE s = <<<<from, to>>>>
  <2>1. Len(s) = 1 /\ DOMAIN s = {1} /\ s[1][1] = from /\ s[1][2] = to /\ s \in Seq(Nat \X Nat)
    BY <1>1
  <2> QED
    BY <2>1 DEF Carries, Between
<1>2. ASSUME NEW m \in Nat, from < m, m < to, s = <<<<from, m>>, <<m, to>>>>
      PROVE  Carries(s, from, to) /\ Between(s, from, to)
  <2>1. /\ Len(s) = 2 /\ DOMAIN s = {1, 2} /\ s \in Seq(Nat \X Nat)
        /\ s[1][1] = from /\ s[1][2] = m /\ s[2][1] = m /\ s[2][2] = to
    BY <1>2
  <2>2. Carries(s, from, to)
    BY <1>2, <2>1 DEF Carries
  <2>3. Between(s, from, to)
    BY <1>2, <2>1 DEF Between
  <2> QED
    BY <2>2, <2>3
<1> QED
  BY <1>1, <1>2 DEF Halves

\* So do the four parts on the two sides of a cut, none of which holds
\* the name.
LEMMA RecordsCarry ==
  ASSUME NEW from \in Nat, NEW cut \in Nat, NEW to \in Nat, from < cut, cut < to,
         NEW s, NEW t, Carries(s, from, cut), Carries(t, cut, to),
         Between(s, from, cut), Between(t, cut, to)
  PROVE  /\ Carries(s \o t, from, to)
         /\ \A first \in Nat, last \in Nat :
               first < cut /\ cut < last => NoneHolds(s \o t, first, last)
<1> DEFINE rs == s \o t
           n == Len(s)
           k == Len(t)
<1>1. /\ s \in Seq(Nat \X Nat) /\ n \in Nat /\ n >= 1 /\ DOMAIN s = 1 .. n
      /\ t \in Seq(Nat \X Nat) /\ k \in Nat /\ k >= 1 /\ DOMAIN t = 1 .. k
  BY DEF Between
<1>2. /\ rs \in Seq(Nat \X Nat) /\ Len(rs) = n + k /\ DOMAIN rs = 1 .. n + k
      /\ \A i \in 1 .. n : rs[i] = s[i]
      /\ \A i \in n + 1 .. n + k : rs[i] = t[i - n]
  BY <1>1
<1>3. /\ \A i \in 1 .. n : from <= s[i][1] /\ s[i][2] <= cut /\ s[i][1] < s[i][2]
      /\ \A i \in 1 .. k : cut <= t[i][1] /\ t[i][2] <= to /\ t[i][1] < t[i][2]
      /\ s[1][1] = from /\ s[n][2] = cut /\ t[1][1] = cut /\ t[k][2] = to
      /\ \A i \in 1 .. n - 1 : s[i][2] = s[i + 1][1]
      /\ \A i \in 1 .. k - 1 : t[i][2] = t[i + 1][1]
  BY <1>1 DEF Carries, Between
<1>4. /\ \A i \in 1 .. n : s[i][1] \in Nat /\ s[i][2] \in Nat
      /\ \A i \in 1 .. k : t[i][1] \in Nat /\ t[i][2] \in Nat
  <2>1. ASSUME NEW p \in Nat \X Nat PROVE p[1] \in Nat /\ p[2] \in Nat
    OBVIOUS
  <2>2. (\A i \in 1 .. n : s[i] \in Nat \X Nat) /\ \A i \in 1 .. k : t[i] \in Nat \X Nat
    BY <1>1, SMTT(30)
  <2> HIDE DEF n, k
  <2> QED
    BY <2>1, <2>2
<1> HIDE DEF rs, n, k
<1>0. n \in Nat /\ k \in Nat /\ n >= 1 /\ k >= 1
  BY <1>1
<1>5. rs[1][1] = from /\ rs[n + k][2] = to
  BY <1>1, <1>2, <1>3
<1>6. ASSUME NEW i \in 1 .. n + k - 1 PROVE rs[i][2] = rs[i + 1][1]
  <2>1. CASE i \in 1 .. n - 1
    BY <1>1, <1>2, <1>3, <2>1
  <2>2. CASE i = n
    BY <1>1, <1>2, <1>3, <2>2
  <2>3. CASE i \in n + 1 .. n + k - 1
    <3>1. i - n \in 1 .. k - 1 /\ i + 1 \in n + 1 .. n + k /\ (i + 1) - n = (i - n) + 1
      BY <1>0, <2>3
    <3>2. rs[i] = t[i - n] /\ rs[i + 1] = t[(i - n) + 1]
      BY <1>0, <1>2, <2>3, <3>1, SMTT(30)
    <3> QED
      BY <1>3, <3>1, <3>2
  <2> QED
    BY <1>1, <2>1, <2>2, <2>3
<1>7. ASSUME NEW i \in 1 .. n + k
      PROVE  /\ rs[i][1] \in Nat /\ rs[i][2] \in Nat
             /\ rs[i][1] < rs[i][2] /\ (rs[i][2] <= cut \/ cut <= rs[i][1])
  <2>1. CASE i \in 1 .. n
    BY <1>2, <1>3, <1>4, <2>1
  <2>2. CASE i \in n + 1 .. n + k
    <3>1. i - n \in 1 .. k
      BY <1>0, <2>2
    <3>2. rs[i] = t[i - n]
      BY <1>2, <2>2
    <3> QED
      BY <1>3, <1>4, <3>1, <3>2
  <2> QED
    BY <1>1, <2>1, <2>2
<1>8. Carries(rs, from, to)
  <2>1. Len(rs) = n + k /\ DOMAIN rs = 1 .. n + k
    BY <1>2
  <2>2. rs[1][1] = from /\ rs[Len(rs)][2] = to
    BY <1>5, <2>1
  <2>3. \A i \in 1 .. Len(rs) - 1 : rs[i][2] = rs[i + 1][1]
    BY <1>0, <1>6, <2>1
  <2>4. \A i \in DOMAIN rs : rs[i][1] < rs[i][2]
    BY <1>7, <2>1
  <2> QED
    BY <2>2, <2>3, <2>4 DEF Carries
<1>9. ASSUME NEW first \in Nat, NEW last \in Nat, first < cut, cut < last
      PROVE  NoneHolds(rs, first, last)
  <2>1. DOMAIN rs = 1 .. n + k
    BY <1>2
  <2>2. ASSUME NEW i \in 1 .. n + k PROVE ~(rs[i][1] <= first /\ last <= rs[i][2])
    BY <1>7, <1>9
  <2> QED
    BY <2>1, <2>2 DEF NoneHolds
<1> QED
  BY <1>8, <1>9 DEF rs

\* Both ways sendRecords can take are cuts of that form.
LEMMA HelloSplitHolds == Arrived => HelloSplit
<1> SUFFICES ASSUME Arrived, pc = "sent" PROVE HelloSplit
  BY DEF HelloSplit
<1>1. HelloOK(hello) /\ ~Panics(hello)
  BY DialAssumption DEF Arrived
<1> DEFINE cut == findLastDot(hello)
           s == splitAndAppend(HeaderLen, cut, 2)
           t == splitAndAppend(cut, hello.len, 2)
           rs == sendRecords(hello)
<1>2. /\ cut \in Nat /\ hello.pos <= cut /\ cut <= hello.pos + hello.name
      /\ ~Missed(hello) => (hello.pos < cut /\ cut < hello.pos + hello.name)
  BY <1>1, CutInName
<1>3. HeaderLen \in Nat /\ hello.len \in Nat /\ hello.pos \in Nat /\ hello.pos + hello.name \in Nat
      /\ HeaderLen < hello.pos /\ hello.pos + hello.name < hello.len
  BY <1>1 DEF HelloOK, Panics, HeaderLen
<1> HIDE DEF cut
<1>4. HeaderLen < cut /\ cut < hello.len
  BY <1>2, <1>3 DEF HeaderLen
<1>5. Halves(HeaderLen, cut, s) /\ Halves(cut, hello.len, t)
  BY <1>2, <1>3, <1>4, SplitHalves
<1>6. rs = s \o t
  BY DEF sendRecords, cut
<1> HIDE DEF s, t, rs
<1>7. Carries(rs, HeaderLen, hello.len)
      /\ (~Missed(hello) => NoneHolds(rs, hello.pos, hello.pos + hello.name))
  <2>1. /\ Carries(s, HeaderLen, cut) /\ Between(s, HeaderLen, cut)
        /\ Carries(t, cut, hello.len) /\ Between(t, cut, hello.len)
    BY <1>2, <1>3, <1>4, <1>5, HalvesCarry
  <2> QED
    BY <1>2, <1>3, <1>4, <1>6, <2>1, RecordsCarry
<1> QED
  BY <1>7 DEF HelloSplit, Carries, NoneHolds, rs

(* sendRecords loses, repeats and reorders no byte of a ClientHello and     *)
(* leaves the server name in no record whole unless the cut misses it (a   *)
(* dot behind the name, or its only dot first, or one byte without a dot); *)
(* for every length and place of the name that has a byte behind it.       *)
THEOREM ClientHelloIsSplit == Spec => []HelloSplit
  BY ArrivedAlways, HelloSplitHolds, PTL

-----------------------------------------------------------------------------
\* What the two filters of the candidates return.
LEMMA AppendElement ==
  ASSUME NEW R, NEW o \in Seq(R), NEW e \in R
  PROVE  /\ Append(o, e) \in Seq(R) /\ Append(o, e) # <<>>
         /\ Range(Append(o, e)) = Range(o) \cup {e}
         /\ o # <<>> => Append(o, e)[1] = o[1]
         /\ o = <<>> => Append(o, e)[1] = e
         /\ IsInjective(o) /\ e \notin Range(o) => IsInjective(Append(o, e))
<1> DEFINE a == Append(o, e)
           n == Len(o)
<1>1. /\ a \in Seq(R) /\ n \in Nat /\ DOMAIN o = 1 .. n /\ DOMAIN a = 1 .. n + 1
      /\ a[n + 1] = e /\ \A i \in 1 .. n : a[i] = o[i]
  OBVIOUS
<1>2. n + 1 \in 1 .. n + 1 /\ \A i \in 1 .. n + 1 : i = n + 1 \/ i \in 1 .. n
  BY <1>1
<1>3. o # <<>> => 1 \in 1 .. n
  BY <1>1
<1>4. o = <<>> => n = 0
  OBVIOUS
<1>5. a # <<>>
  <2>1. Len(a) = n + 1 /\ n + 1 # 0
    BY <1>1
  <2> HIDE DEF a, n
  <2> QED
    BY <2>1
<1> HIDE DEF a, n
<1>6. Range(a) = Range(o) \cup {e}
  <2>1. ASSUME NEW y \in Range(a) PROVE y \in Range(o) \cup {e}
    BY <1>1, <1>2 DEF Range
  <2>2. ASSUME NEW y \in Range(o) \cup {e} PROVE y \in Range(a)
    BY <1>1, <1>2 DEF Range
  <2> QED
    BY <2>1, <2>2
<1>7. IsInjective(o) /\ e \notin Range(o) => IsInjective(a)
  BY <1>1, <1>2 DEF IsInjective, Range
<1>8. (o # <<>> => a[1] = o[1]) /\ (o = <<>> => a[1] = e)
  BY <1>1, <1>3, <1>4
<1> QED
  BY <1>1, <1>5, <1>6, <1>7, <1>8 DEF a

\* A filter: the elements one by one, each dropped or appended.
Kept(s, i) == {s[j] : j \in 1 .. i}

\* The first i elements, one at a time.
LEMMA KeptGrows ==
  ASSUME NEW R, NEW s \in Seq(R), NEW i \in 1 .. Len(s)
  PROVE  s[i] \in R /\ Kept(s, i) = Kept(s, i - 1) \cup {s[i]}
  BY DEF Kept

\* dedupeDialCandidates keeps every address once and the first in front.
LEMMA DedupeResult ==
  ASSUME NEW R, NEW s \in Seq(R)
  PROVE  LET d == dedupeDialCandidates(s)
         IN  /\ d \in Seq(R) /\ Range(d) = Range(s) /\ IsInjective(d)
             /\ s # <<>> => d # <<>> /\ d[1] = s[1]
<1> DEFINE n == Len(s)
           Take(i, o) == IF s[i] \in Range(o) THEN o ELSE Append(o, s[i])
           Rec(f) == f = [i \in 0..n |-> IF i = 0 THEN <<>> ELSE Take(i, f[i - 1])]
           out == CHOOSE f : Rec(f)
<1>0. n \in Nat /\ \A i \in 1 .. n : s[i] \in R
  OBVIOUS
<1>1. \E f : Rec(f)
  <2> DEFINE D == Seq(R)
             first == <<>>
             step == [i \in 1..n |-> [v \in D |-> Take(i, v)]]
  <2>1. first \in D /\ StepOn(step, n, D)
    <3>1. \A i \in 1 .. n, v \in D : Take(i, v) \in D
      BY <1>0
    <3> HIDE DEF Take, D, n
    <3>2. StepOn(step, n, D)
      BY <3>1 DEF StepOn
    <3>3. first \in D
      BY DEF D
    <3> QED
      BY <3>2, <3>3
  <2>2. \A i \in 1..n, v \in D : step[i][v] = Take(i, v)
    OBVIOUS
  <2> HIDE DEF n, D, first, step, Take
  <2>3. PICK f : Recursion(f, n, D, first, step)
    BY <1>0, <2>1, FunctionByRecursion
  <2> USE DEF Recursion
  <2>4. \A i \in 1..n : f[i - 1] \in D
    BY <1>0, <2>3
  <2>5. \A i \in 1..n : f[i] = Take(i, f[i - 1])
    BY <2>2, <2>3, <2>4
  <2>6. Rec(f)
    BY <1>0, <2>3, <2>5 DEF first
  <2> QED
    BY <2>6
<1>2. Rec(out)
  BY <1>1, Zenon
<1>3. dedupeDialCandidates(s) = out[n]
  BY DEF dedupeDialCandidates
<1> HIDE DEF out
<1>4. out[0] = <<>> /\ \A i \in 1..n : out[i] = Take(i, out[i - 1])
  <2> HIDE DEF Take, n
  <2> QED
    BY <1>0, <1>2
<1> DEFINE Good(i, o) == /\ o \in Seq(R) /\ Range(o) = Kept(s, i) /\ IsInjective(o)
                         /\ i > 0 => o # <<>> /\ o[1] = s[1]
           S == {i \in 0..n : Good(i, out[i])}
<1>5. 0 \in S
  <2>1. Good(0, <<>>)
    BY DEF Range, Kept, IsInjective
  <2>2. 0 \in 0 .. n /\ out[0] = <<>>
    BY <1>0, <1>4
  <2> HIDE DEF Good, n
  <2> QED
    BY <2>1, <2>2
<1>6. ASSUME NEW i \in 1..n, i - 1 \in S PROVE i \in S
  <2> DEFINE o == out[i - 1]
  <2>1. Good(i - 1, o)
    BY <1>6
  <2>2. out[i] = Take(i, o)
    BY <1>4
  <2>3. s[i] \in R /\ Kept(s, i) = Kept(s, i - 1) \cup {s[i]}
    BY KeptGrows
  <2> HIDE DEF o
  <2>4. i - 1 > 0 \/ i = 1
    BY <1>0
  <2>5. i = 1 => o = <<>>
    BY <1>4 DEF o
  <2>6. CASE s[i] \in Range(o)
    <3>1. i # 1
      BY <2>5, <2>6 DEF Range
    <3>2. out[i] = o /\ Kept(s, i) = Kept(s, i - 1)
      BY <2>1, <2>2, <2>3, <2>6
    <3>3. Good(i, out[i])
      BY <2>1, <2>4, <3>1, <3>2
    <3> QED
      BY <3>3
  <2>7. CASE s[i] \notin Range(o)
    <3>1. out[i] = Append(o, s[i])
      BY <2>2, <2>7
    <3>2. /\ Append(o, s[i]) \in Seq(R) /\ Append(o, s[i]) # <<>>
          /\ Range(Append(o, s[i])) = Range(o) \cup {s[i]} /\ IsInjective(Append(o, s[i]))
          /\ o # <<>> => Append(o, s[i])[1] = o[1]
          /\ o = <<>> => Append(o, s[i])[1] = s[i]
      BY <2>1, <2>3, <2>7, AppendElement
    <3>3. Append(o, s[i])[1] = s[1]
      BY <2>1, <2>4, <2>5, <3>2
    <3>4. Good(i, out[i])
      BY <2>1, <2>3, <3>1, <3>2, <3>3
    <3> QED
      BY <3>4
  <2> QED
    BY <2>6, <2>7
<1>7. n \in S
  <2>1. \A i \in 1..n : i - 1 \in S => i \in S
    BY <1>6
  <2> HIDE DEF S, n
  <2>2. \A i \in 0..n : i \in S
    BY <1>0, <1>5, <2>1, InductionUpTo
  <2> QED
    BY <1>0, <2>2
<1>8. Kept(s, n) = Range(s) /\ (s # <<>> => n > 0)
  BY DEF Kept, Range
<1> QED
  BY <1>3, <1>7, <1>8

\* A filter of a list keeps the wanted addresses and no other.
LEMMA OnlyResult ==
  ASSUME NEW R, NEW s \in Seq(R), NEW W
  PROVE  /\ Only(s, W) \in Seq(R) /\ Range(Only(s, W)) = Range(s) \cap W
         /\ IsInjective(s) => IsInjective(Only(s, W))
<1> DEFINE n == Len(s)
           Take(i, o) == IF s[i] \in W THEN Append(o, s[i]) ELSE o
           Rec(f) == f = [i \in 0..n |-> IF i = 0 THEN <<>> ELSE Take(i, f[i - 1])]
           out == CHOOSE f : Rec(f)
<1>0. n \in Nat /\ \A i \in 1 .. n : s[i] \in R
  OBVIOUS
<1>1. \E f : Rec(f)
  <2> DEFINE D == Seq(R)
             first == <<>>
             step == [i \in 1..n |-> [v \in D |-> Take(i, v)]]
  <2>1. first \in D /\ StepOn(step, n, D)
    <3>1. \A i \in 1 .. n, v \in D : Take(i, v) \in D
      BY <1>0
    <3> HIDE DEF Take, D, n
    <3>2. StepOn(step, n, D)
      BY <3>1 DEF StepOn
    <3>3. first \in D
      BY DEF D
    <3> QED
      BY <3>2, <3>3
  <2>2. \A i \in 1..n, v \in D : step[i][v] = Take(i, v)
    OBVIOUS
  <2> HIDE DEF n, D, first, step, Take
  <2>3. PICK f : Recursion(f, n, D, first, step)
    BY <1>0, <2>1, FunctionByRecursion
  <2> USE DEF Recursion
  <2>4. \A i \in 1..n : f[i - 1] \in D
    BY <1>0, <2>3
  <2>5. \A i \in 1..n : f[i] = Take(i, f[i - 1])
    BY <2>2, <2>3, <2>4
  <2>6. Rec(f)
    BY <1>0, <2>3, <2>5 DEF first
  <2> QED
    BY <2>6
<1>2. Rec(out)
  BY <1>1, Zenon
<1>3. Only(s, W) = out[n]
  BY DEF Only
<1> HIDE DEF out
<1>4. out[0] = <<>> /\ \A i \in 1..n : out[i] = Take(i, out[i - 1])
  <2> HIDE DEF Take, n
  <2> QED
    BY <1>0, <1>2
<1> DEFINE Good(i, o) == /\ o \in Seq(R) /\ Range(o) = Kept(s, i) \cap W
                         /\ IsInjective(s) => IsInjective(o)
           S == {i \in 0..n : Good(i, out[i])}
<1>5. 0 \in S
  <2>1. Good(0, <<>>)
    BY DEF Range, Kept, IsInjective
  <2>2. 0 \in 0 .. n /\ out[0] = <<>>
    BY <1>0, <1>4
  <2> HIDE DEF Good, n
  <2> QED
    BY <2>1, <2>2
<1>6. ASSUME NEW i \in 1..n, i - 1 \in S PROVE i \in S
  <2> DEFINE o == out[i - 1]
  <2>1. Good(i - 1, o)
    BY <1>6
  <2>2. out[i] = Take(i, o)
    BY <1>4
  <2>3. s[i] \in R /\ Kept(s, i) = Kept(s, i - 1) \cup {s[i]}
    BY KeptGrows
  <2> HIDE DEF o
  <2>4. CASE s[i] \notin W
    BY <2>1, <2>2, <2>3, <2>4
  <2>5. CASE s[i] \in W
    <3>1. out[i] = Append(o, s[i])
      BY <2>2, <2>5
    <3>2. Append(o, s[i]) \in Seq(R) /\ Range(Append(o, s[i])) = Range(o) \cup {s[i]}
      BY <2>1, <2>3, AppendElement
    <3>3. (Kept(s, i - 1) \cap W) \cup {s[i]} = Kept(s, i) \cap W
      BY <2>3, <2>5
    <3>4. IsInjective(s) => s[i] \notin Range(o)
      <4>1. IsInjective(s) => s[i] \notin Kept(s, i - 1)
        BY DEF IsInjective, Kept
      <4> QED
        BY <2>1, <4>1
    <3>5. IsInjective(s) => IsInjective(out[i])
      BY <2>1, <2>3, <3>1, <3>4, AppendElement
    <3>6. Good(i, out[i])
      BY <2>1, <3>1, <3>2, <3>3, <3>5
    <3> QED
      BY <3>6
  <2> QED
    BY <2>4, <2>5
<1>7. n \in S
  <2>1. \A i \in 1..n : i - 1 \in S => i \in S
    BY <1>6
  <2> HIDE DEF S, n
  <2>2. \A i \in 0..n : i \in S
    BY <1>0, <1>5, <2>1, InductionUpTo
  <2> QED
    BY <1>0, <2>2
<1>8. Kept(s, n) = Range(s)
  BY DEF Kept, Range
<1> QED
  BY <1>3, <1>7, <1>8

-----------------------------------------------------------------------------
\* The resolver's own state.
Addrs == {V4, V6}
QueryStates == {"off", "primary", "race", "system", "append", "write", "done", "err"}
TaskStates == {"off", "query", "lock", "retry", "cancel", "answered", "failed", "late", "stopped"}
Unsent == {"query", "lock", "retry"}
Results == [ok : BOOLEAN, reply : {<<>>, <<V4>>, <<V6>>}]

TypeControl ==
    /\ nodes \in NodeLists /\ ctx \in {"live", "done"}
    /\ call \in {"none", "self", "wait", "returned"}
    /\ st \in [Queries -> QueryStates]
TypeRace ==
    /\ task \in [Queries -> [AllNodes -> TaskStates]]
    /\ stop \in [Queries -> BOOLEAN]
    /\ resChan \in [Queries -> Seq(Results)]
TypeAppend ==
    /\ ans \in [Queries -> Seq(Addrs)]
    /\ added \in [Queries -> Nat]
    /\ slice \in [Queries -> Seq(Addrs \cup {Junk})]
    /\ ips \in Seq(Addrs \cup {Junk})

\* Outside a call no query is under way.
Calls ==
    \A q \in Queries :
        /\ call \in {"none", "self"} => st[q] = "off"
        /\ call = "returned" => st[q] \in {"off", "done", "err"}
        /\ st[q] \in {"primary", "race"} => nodes # <<>>

\* Before its race a query has no racer, so nothing can have cancelled it.
Quiet ==
    \A q \in Queries :
        /\ call = "self" => ~stop[q] /\ \A n \in AllNodes : task[q][n] = "off"
        /\ st[q] = "primary" => ~stop[q] /\ \A n \in AllNodes : n # Primary => task[q][n] = "off"
        /\ st[q] = "primary" => task[q][Primary] \in Unsent
        /\ st[q] # "race" => resChan[q] = <<>>

\* A winner's answer is in the channel before its cancel can end the others.
HasOk(q) == \E i \in DOMAIN resChan[q] : resChan[q][i].ok
Won(q) == stop[q] \/ \E n \in AllNodes : task[q][n] \in {"cancel", "answered", "stopped"}
WinnerSent == \A q \in Queries : st[q] = "race" /\ Won(q) => HasOk(q)

\* What is left of the nodes that have failed.
Failures ==
    \A q \in Queries :
        /\ st[q] \in {"race", "system"} /\ ctx = "live" /\ nodes # <<>> => task[q][Primary] = "failed"
        /\ st[q] = "race" => \A n \in Racers : task[q][n] # "off"
        /\ st[q] = "race" /\ ctx = "live" => \A n \in Racers : task[q][n] # "late"
        /\ st[q] = "system" /\ ctx = "live" => \A n \in Racers : task[q][n] = "failed"

\* A racer sends once.
Sent(q) == {n \in Racers : task[q][n] \notin Unsent}
Counted == \A q \in Queries : st[q] = "race" => Len(resChan[q]) <= Cardinality(Sent(q))

\* What a query has answered and appended.
Appends ==
    \A q \in Queries :
        /\ st[q] \in {"off", "primary", "race", "system", "err"} => ans[q] = <<>>
        /\ added[q] <= Len(ans[q])
        /\ st[q] = "write" => added[q] < Len(ans[q])
        /\ st[q] = "done" => added[q] = Len(ans[q])

\* The lookup is at work, or over and not yet taken.
Working == call = "wait" \/ \A q \in Queries : st[q] \in {"done", "err"}

\* As long as its peer has found nothing, a query alone writes the slice.
Prefix(s, q) == Len(s) = added[q] /\ \A i \in 1 .. added[q] : s[i] = ans[q][i]
Alone ==
    \A q \in Queries :
        ans[Other(q)] = <<>> => Prefix(ips, q) /\ (st[q] = "write" => slice[q] = ips)

\* Nothing is in the slice that no query answered, but a torn write.
Comes(x) == x = Junk \/ \E q \in Queries : x \in Range(ans[q])
Origin ==
    /\ \A q \in Queries : added[q] > 0 => ips # <<>>
    /\ \A i \in DOMAIN ips : Comes(ips[i])
    /\ \A q \in Queries : \A i \in DOMAIN slice[q] : Comes(slice[q][i])
TornOnlyByBoth ==
    (Junk \in Range(ips) \/ \E q \in Queries : Junk \in Range(slice[q]))
        => \A q \in Queries : ans[q] # <<>>

Fresh == call = "self" => ips = <<>> /\ \A q \in Queries : added[q] = 0 /\ slice[q] = <<>>
SliceInv == Fresh /\ (Working => Alone /\ Origin /\ TornOnlyByBoth)

\* A step of the resolver, or of the connection beside it.
RStep ==
    \/ \E self \in BOOLEAN : ResolveIPAddrs(self)
    \/ Taken \/ ContextDone \/ ResolverStep \/ UNCHANGED rvars
    \/ \E q \in Queries, n \in AllNodes : UpdateECHProfileConfig(q, n)

\* A refresh, and the store of its profile: the node comes nearer to its retry.
Advances(q, n) ==
    /\ task[q][n] \in {"query", "lock"}
    /\ \E next \in {"lock", "retry"} : task' = [task EXCEPT ![q][n] = next]
    /\ UNCHANGED <<nodes, ctx, call, st, resChan, stop, ans, added, slice, ips>>

LEMMA RefreshAdvances ==
  \A q, n : Refresh(q, n) \/ UpdateECHProfileConfig(q, n) => Advances(q, n)
  BY DEF Refresh, CanRefresh, UpdateECHProfileConfig, Advances

\* What a node or the system can answer.
LEMMA Replies ==
  /\ \A q : NodeReply(q) \subseteq {<<>>, <<V4>>, <<V6>>} /\ NodeReply(q) \subseteq Seq(Addrs)
  /\ SystemFinds \subseteq Seq(Addrs) /\ {<<>>, <<V4>>, <<V6>>} \subseteq Seq(Addrs)
  /\ \A q : \A found \in SystemFinds : SystemReply(q, found) \in Seq(Addrs)
<1>1. <<>> \in Seq(Addrs) /\ <<V4>> \in Seq(Addrs) /\ <<V6>> \in Seq(Addrs) /\ <<V4, V6>> \in Seq(Addrs)
      /\ <<V4, V4>> \in Seq(Addrs) /\ <<V6, V6>> \in Seq(Addrs)
  BY DEF Addrs
<1>2. SystemFinds \subseteq Seq(Addrs)
  BY <1>1 DEF SystemFinds
<1>3. \A found \in SystemFinds : Only(found, {V4}) \in Seq(Addrs)
  BY <1>2, OnlyResult
<1> QED
  BY <1>1, <1>2, <1>3 DEF NodeReply, SystemReply

LEMMA FailureKinds == \A q : Failure(q) \in {"stopped", "late", "failed"}
  BY DEF Failure

\* Each part of the invariant is kept by a step that starts in it and in
\* the parts it names.
LEMMA StepTypeControl ==
  ASSUME TypeControl, RStep
  PROVE  TypeControl'
<1>1. ASSUME NEW self \in BOOLEAN, ResolveIPAddrs(self) PROVE TypeControl'
  BY <1>1 DEF ResolveIPAddrs, StartQueries, TypeControl, QueryStates
<1>2. CASE SystemKnowsSelf
  BY <1>2 DEF SystemKnowsSelf, StartQueries, TypeControl, QueryStates
<1>3. CASE ContextDone
  BY <1>3 DEF ContextDone, TypeControl, QueryStates
<1>4. CASE LookupReturns
  BY <1>4 DEF LookupReturns, TypeControl, QueryStates
<1>5. CASE Taken
  BY <1>5 DEF Taken, TypeControl, QueryStates
<1>6. ASSUME NEW q \in Queries, PrimaryFails(q) PROVE TypeControl'
  BY <1>6 DEF PrimaryFails, TypeControl, QueryStates
<1>7. ASSUME NEW q \in Queries, PrimaryAnswers(q) PROVE TypeControl'
  BY <1>7 DEF PrimaryAnswers, TypeControl, QueryStates
<1>8. ASSUME NEW q \in Queries, RaceReceives(q) PROVE TypeControl'
  BY <1>8 DEF RaceReceives, Leave, TypeControl, QueryStates
<1>9. ASSUME NEW q \in Queries, RaceGivesUp(q) PROVE TypeControl'
  BY <1>9 DEF RaceGivesUp, Leave, TypeControl, QueryStates
<1>10. ASSUME NEW q \in Queries, SystemDNS(q) PROVE TypeControl'
  BY <1>10 DEF SystemDNS, Leave, TypeControl, QueryStates
<1>11. ASSUME NEW q \in Queries, AppendReads(q) PROVE TypeControl'
  BY <1>11 DEF AppendReads, TypeControl, QueryStates
<1>12. ASSUME NEW q \in Queries, AppendWrites(q) PROVE TypeControl'
  BY <1>12 DEF AppendWrites, TypeControl, QueryStates
<1>13. ASSUME NEW q \in Queries, AppendEnds(q) PROVE TypeControl'
  BY <1>13 DEF AppendEnds, TypeControl, QueryStates
<1>14. ASSUME NEW q \in Queries, NEW n \in AllNodes, Advances(q, n) PROVE TypeControl'
  BY <1>14 DEF Advances, TypeControl, QueryStates
<1>15. ASSUME NEW q \in Queries, NEW n \in AllNodes, RacerAnswers(q, n) PROVE TypeControl'
  BY <1>15 DEF RacerAnswers, Send, TypeControl, QueryStates
<1>16. ASSUME NEW q \in Queries, NEW n \in AllNodes, RacerCancels(q, n) PROVE TypeControl'
  BY <1>16 DEF RacerCancels, Ended, TypeControl, QueryStates
<1>17. ASSUME NEW q \in Queries, NEW n \in AllNodes, RacerFails(q, n) PROVE TypeControl'
  BY <1>17 DEF RacerFails, Send, Ended, TypeControl, QueryStates
<1>18. CASE UNCHANGED rvars
  BY <1>18 DEF rvars, TypeControl, QueryStates
<1> QED
  BY <1>1, <1>2, <1>3, <1>4, <1>5, <1>6, <1>7, <1>8, <1>9,
     <1>10, <1>11, <1>12, <1>13, <1>14, <1>15, <1>16, <1>17, <1>18, RefreshAdvances
     DEF RStep, ResolverStep, QueryStep

LEMMA StepCalls ==
  ASSUME TypeControl, Calls, RStep
  PROVE  Calls'
<1>1. ASSUME NEW self \in BOOLEAN, ResolveIPAddrs(self) PROVE Calls'
  BY <1>1 DEF ResolveIPAddrs, StartQueries, TypeControl, QueryStates, Calls
<1>2. CASE SystemKnowsSelf
  BY <1>2 DEF SystemKnowsSelf, StartQueries, TypeControl, QueryStates, Calls
<1>3. CASE ContextDone
  BY <1>3 DEF ContextDone, TypeControl, QueryStates, Calls
<1>4. CASE LookupReturns
  BY <1>4 DEF LookupReturns, TypeControl, QueryStates, Calls
<1>5. CASE Taken
  BY <1>5 DEF Taken, TypeControl, QueryStates, Calls
<1>6. ASSUME NEW p \in Queries, PrimaryFails(p) PROVE Calls'
  BY <1>6 DEF PrimaryFails, TypeControl, QueryStates, Calls
<1>7. ASSUME NEW p \in Queries, PrimaryAnswers(p) PROVE Calls'
  BY <1>7 DEF PrimaryAnswers, TypeControl, QueryStates, Calls
<1>8. ASSUME NEW p \in Queries, RaceReceives(p) PROVE Calls'
  BY <1>8 DEF RaceReceives, Leave, TypeControl, QueryStates, Calls
<1>9. ASSUME NEW p \in Queries, RaceGivesUp(p) PROVE Calls'
  BY <1>9 DEF RaceGivesUp, Leave, TypeControl, QueryStates, Calls
<1>10. ASSUME NEW p \in Queries, SystemDNS(p) PROVE Calls'
  BY <1>10 DEF SystemDNS, Leave, TypeControl, QueryStates, Calls
<1>11. ASSUME NEW p \in Queries, AppendReads(p) PROVE Calls'
  BY <1>11 DEF AppendReads, TypeControl, QueryStates, Calls
<1>12. ASSUME NEW p \in Queries, AppendWrites(p) PROVE Calls'
  BY <1>12 DEF AppendWrites, TypeControl, QueryStates, Calls
<1>13. ASSUME NEW p \in Queries, AppendEnds(p) PROVE Calls'
  BY <1>13 DEF AppendEnds, TypeControl, QueryStates, Calls
<1>14. ASSUME NEW p \in Queries, NEW n \in AllNodes, Advances(p, n) PROVE Calls'
  BY <1>14 DEF Advances, TypeControl, QueryStates, Calls
<1>15. ASSUME NEW p \in Queries, NEW n \in AllNodes, RacerAnswers(p, n) PROVE Calls'
  BY <1>15 DEF RacerAnswers, Send, TypeControl, QueryStates, Calls
<1>16. ASSUME NEW p \in Queries, NEW n \in AllNodes, RacerCancels(p, n) PROVE Calls'
  BY <1>16 DEF RacerCancels, Ended, TypeControl, QueryStates, Calls
<1>17. ASSUME NEW p \in Queries, NEW n \in AllNodes, RacerFails(p, n) PROVE Calls'
  BY <1>17 DEF RacerFails, Send, Ended, TypeControl, QueryStates, Calls
<1>18. CASE UNCHANGED rvars
  BY <1>18 DEF rvars, TypeControl, QueryStates, Calls
<1> QED
  BY <1>1, <1>2, <1>3, <1>4, <1>5, <1>6, <1>7, <1>8, <1>9,
     <1>10, <1>11, <1>12, <1>13, <1>14, <1>15, <1>16, <1>17, <1>18, RefreshAdvances
     DEF RStep, ResolverStep, QueryStep

LEMMA StepTypeRace ==
  ASSUME TypeControl, TypeRace, RStep
  PROVE  TypeRace'
<1>1. ASSUME NEW self \in BOOLEAN, ResolveIPAddrs(self) PROVE TypeRace'
  BY <1>1 DEF ResolveIPAddrs, StartQueries, TypeControl, TypeRace, TaskStates, Queries
<1>2. CASE SystemKnowsSelf
  BY <1>2 DEF SystemKnowsSelf, StartQueries, TypeControl, TypeRace, TaskStates, Queries
<1>3. CASE ContextDone
  BY <1>3 DEF ContextDone, TypeControl, TypeRace, TaskStates, Queries
<1>4. CASE LookupReturns
  BY <1>4 DEF LookupReturns, TypeControl, TypeRace, TaskStates, Queries
<1>5. CASE Taken
  BY <1>5 DEF Taken, TypeControl, TypeRace, TaskStates, Queries
<1>6. ASSUME NEW q \in Queries, PrimaryFails(q) PROVE TypeRace'
  <2>1. task' \in [Queries -> [AllNodes -> TaskStates]]
    BY <1>6, FailureKinds DEF PrimaryFails, TypeRace, TaskStates
  <2> QED
    BY <1>6, <2>1 DEF PrimaryFails, TypeRace
<1>7. ASSUME NEW q \in Queries, PrimaryAnswers(q) PROVE TypeRace'
  BY <1>7 DEF PrimaryAnswers, TypeControl, TypeRace, TaskStates, Queries
<1>8. ASSUME NEW q \in Queries, RaceReceives(q) PROVE TypeRace'
  <2> DEFINE res == Head(resChan[q])
             rest == Tail(resChan[q])
  <2>1. resChan[q] \in Seq(Results) /\ resChan[q] # <<>>
    BY <1>8 DEF RaceReceives, TypeRace
  <2>2. rest \in Seq(Results)
    BY <2>1
  <2> HIDE DEF res, rest
  <2>3. CASE res.ok
    <3>1. resChan' = [resChan EXCEPT ![q] = <<>>] /\ Leave(q)
      BY <1>8, <2>3 DEF RaceReceives, res
    <3>2. task' \in [Queries -> [AllNodes -> TaskStates]] /\ stop' \in [Queries -> BOOLEAN]
      BY <3>1 DEF Leave, TypeRace, TaskStates
    <3>3. resChan' \in [Queries -> Seq(Results)]
      BY <3>1 DEF TypeRace
    <3> QED
      BY <3>2, <3>3 DEF TypeRace
  <2>4. CASE ~res.ok
    <3>1. resChan' = [resChan EXCEPT ![q] = rest] /\ UNCHANGED <<task, stop>>
      BY <1>8, <2>4 DEF RaceReceives, res, rest
    <3> QED
      BY <2>2, <3>1 DEF TypeRace
  <2> QED
    BY <2>3, <2>4
<1>9. ASSUME NEW q \in Queries, RaceGivesUp(q) PROVE TypeRace'
  BY <1>9 DEF RaceGivesUp, Leave, TypeControl, TypeRace, TaskStates, Queries
<1>10. ASSUME NEW q \in Queries, SystemDNS(q) PROVE TypeRace'
  BY <1>10 DEF SystemDNS, Leave, TypeControl, TypeRace, TaskStates, Queries
<1>11. ASSUME NEW q \in Queries, AppendReads(q) PROVE TypeRace'
  BY <1>11 DEF AppendReads, TypeControl, TypeRace, TaskStates, Queries
<1>12. ASSUME NEW q \in Queries, AppendWrites(q) PROVE TypeRace'
  BY <1>12 DEF AppendWrites, TypeControl, TypeRace, TaskStates, Queries
<1>13. ASSUME NEW q \in Queries, AppendEnds(q) PROVE TypeRace'
  BY <1>13 DEF AppendEnds, TypeControl, TypeRace, TaskStates, Queries
<1>14. ASSUME NEW q \in Queries, NEW n \in AllNodes, Advances(q, n) PROVE TypeRace'
  BY <1>14 DEF Advances, TypeControl, TypeRace, TaskStates, Queries
<1>15. ASSUME NEW q \in Queries, NEW n \in AllNodes, RacerAnswers(q, n) PROVE TypeRace'
  <2>1. PICK r \in NodeReply(q) : Send(q, [ok |-> TRUE, reply |-> r])
    BY <1>15 DEF RacerAnswers
  <2> DEFINE res == [ok |-> TRUE, reply |-> r]
  <2>2. res \in Results
    BY Replies DEF Results
  <2> HIDE DEF res
  <2>3. resChan' \in [Queries -> Seq(Results)]
    BY <2>1, <2>2 DEF Send, TypeRace, res
  <2> QED
    BY <1>15, <2>3 DEF RacerAnswers, TypeRace, TaskStates
<1>16. ASSUME NEW q \in Queries, NEW n \in AllNodes, RacerCancels(q, n) PROVE TypeRace'
  BY <1>16 DEF RacerCancels, Ended, TypeControl, TypeRace, TaskStates, Queries
<1>17. ASSUME NEW q \in Queries, NEW n \in AllNodes, RacerFails(q, n) PROVE TypeRace'
  <2> DEFINE res == [ok |-> FALSE, reply |-> <<>>]
  <2>2. res \in Results
    BY DEF Results
  <2> HIDE DEF res
  <2>3. resChan' \in [Queries -> Seq(Results)]
    BY <1>17, <2>2 DEF RacerFails, Send, TypeRace, res
  <2>4. task' \in [Queries -> [AllNodes -> TaskStates]]
    BY <1>17, FailureKinds DEF RacerFails, Ended, TypeRace, TaskStates
  <2> QED
    BY <1>17, <2>3, <2>4 DEF RacerFails, TypeRace
<1>18. CASE UNCHANGED rvars
  BY <1>18 DEF rvars, TypeControl, TypeRace, TaskStates, Queries
<1> QED
  BY <1>1, <1>2, <1>3, <1>4, <1>5, <1>6, <1>7, <1>8, <1>9,
     <1>10, <1>11, <1>12, <1>13, <1>14, <1>15, <1>16, <1>17, <1>18, RefreshAdvances
     DEF RStep, ResolverStep, QueryStep

LEMMA StepTypeAppend ==
  ASSUME TypeControl, TypeRace, TypeAppend, Appends, RStep
  PROVE  TypeAppend'
<1>1. ASSUME NEW self \in BOOLEAN, ResolveIPAddrs(self) PROVE TypeAppend'
  BY <1>1 DEF ResolveIPAddrs, StartQueries, TypeControl, TypeAppend, Addrs, Queries
<1>2. CASE SystemKnowsSelf
  <2>1. ips' \in Seq(Addrs \cup {Junk})
    BY <1>2, Replies DEF SystemKnowsSelf, TypeAppend
  <2> QED
    BY <1>2, <2>1 DEF SystemKnowsSelf, TypeAppend
<1>3. CASE ContextDone
  BY <1>3 DEF ContextDone, TypeControl, TypeAppend, Addrs, Queries
<1>4. CASE LookupReturns
  BY <1>4 DEF LookupReturns, TypeControl, TypeAppend, Addrs, Queries
<1>5. CASE Taken
  BY <1>5 DEF Taken, TypeControl, TypeAppend, Addrs, Queries
<1>6. ASSUME NEW q \in Queries, PrimaryFails(q) PROVE TypeAppend'
  BY <1>6 DEF PrimaryFails, TypeControl, TypeAppend, Addrs, Queries
<1>7. ASSUME NEW q \in Queries, PrimaryAnswers(q) PROVE TypeAppend'
  <2>1. ans' \in [Queries -> Seq(Addrs)]
    BY <1>7, Replies DEF PrimaryAnswers, TypeAppend
  <2> QED
    BY <1>7, <2>1 DEF PrimaryAnswers, TypeAppend
<1>8. ASSUME NEW q \in Queries, RaceReceives(q) PROVE TypeAppend'
  <2> DEFINE res == Head(resChan[q])
  <2>1. resChan[q] \in Seq(Results) /\ resChan[q] # <<>>
    BY <1>8 DEF RaceReceives, TypeRace
  <2>2. res \in Results
    BY <2>1
  <2>3. res.reply \in Seq(Addrs)
    BY <2>2, Replies DEF Results
  <2> HIDE DEF res
  <2>4. ans' = ans \/ ans' = [ans EXCEPT ![q] = res.reply]
    BY <1>8 DEF RaceReceives, res
  <2>5. ans' \in [Queries -> Seq(Addrs)]
    BY <2>3, <2>4 DEF TypeAppend
  <2> QED
    BY <1>8, <2>5 DEF RaceReceives, TypeAppend
<1>9. ASSUME NEW q \in Queries, RaceGivesUp(q) PROVE TypeAppend'
  BY <1>9 DEF RaceGivesUp, Leave, TypeControl, TypeAppend, Addrs, Queries
<1>10. ASSUME NEW q \in Queries, SystemDNS(q) PROVE TypeAppend'
  <2>1. ans' \in [Queries -> Seq(Addrs)]
    <3>1. CASE UNCHANGED ans
      BY <3>1 DEF TypeAppend
    <3>2. ASSUME NEW found \in SystemFinds, ans' = [ans EXCEPT ![q] = SystemReply(q, found)]
          PROVE  ans' \in [Queries -> Seq(Addrs)]
      BY <3>2, Replies DEF TypeAppend
    <3> QED
      BY <1>10, <3>1, <3>2 DEF SystemDNS
  <2> QED
    BY <1>10, <2>1 DEF SystemDNS, TypeAppend
<1>11. ASSUME NEW q \in Queries, AppendReads(q) PROVE TypeAppend'
  BY <1>11 DEF AppendReads, TypeControl, TypeAppend, Addrs, Queries
<1>12. ASSUME NEW q \in Queries, AppendWrites(q) PROVE TypeAppend'
  <2>1. added[q] \in Nat /\ ans[q] \in Seq(Addrs) /\ slice[q] \in Seq(Addrs \cup {Junk})
        /\ added[q] < Len(ans[q])
    BY <1>12 DEF AppendWrites, TypeAppend, Appends
  <2>2. ans[q][added[q] + 1] \in Addrs
    BY <2>1
  <2>3. PICK a \in Addrs \cup {Junk} : ips' = Append(slice[q], a)
    BY <1>12, <2>2 DEF AppendWrites
  <2>4. ips' \in Seq(Addrs \cup {Junk})
    BY <2>1, <2>3
  <2> QED
    BY <1>12, <2>4, SMTT(30) DEF AppendWrites, TypeAppend
<1>13. ASSUME NEW q \in Queries, AppendEnds(q) PROVE TypeAppend'
  BY <1>13 DEF AppendEnds, TypeControl, TypeAppend, Addrs, Queries
<1>14. ASSUME NEW q \in Queries, NEW n \in AllNodes, Advances(q, n) PROVE TypeAppend'
  BY <1>14 DEF Advances, TypeControl, TypeAppend, Addrs, Queries
<1>15. ASSUME NEW q \in Queries, NEW n \in AllNodes, RacerAnswers(q, n) PROVE TypeAppend'
  BY <1>15 DEF RacerAnswers, Send, TypeControl, TypeAppend, Addrs, Queries
<1>16. ASSUME NEW q \in Queries, NEW n \in AllNodes, RacerCancels(q, n) PROVE TypeAppend'
  BY <1>16 DEF RacerCancels, Ended, TypeControl, TypeAppend, Addrs, Queries
<1>17. ASSUME NEW q \in Queries, NEW n \in AllNodes, RacerFails(q, n) PROVE TypeAppend'
  BY <1>17 DEF RacerFails, Send, Ended, TypeControl, TypeAppend, Addrs, Queries
<1>18. CASE UNCHANGED rvars
  BY <1>18 DEF rvars, TypeControl, TypeAppend, Addrs, Queries
<1> QED
  BY <1>1, <1>2, <1>3, <1>4, <1>5, <1>6, <1>7, <1>8, <1>9,
     <1>10, <1>11, <1>12, <1>13, <1>14, <1>15, <1>16, <1>17, <1>18, RefreshAdvances
     DEF RStep, ResolverStep, QueryStep

\* The first node and the others.
LEMMA NodesKept ==
  ASSUME RStep
  PROVE  nodes' = nodes /\ Primary' = Primary /\ Racers' = Racers
<1>1. nodes' = nodes
  BY DEF RStep, ResolveIPAddrs, Taken, ContextDone, ResolverStep, QueryStep, SystemKnowsSelf, LookupReturns,
         PrimaryFails, PrimaryAnswers, RaceReceives, RaceGivesUp, SystemDNS, AppendReads, AppendWrites,
         AppendEnds, Refresh, UpdateECHProfileConfig, RacerAnswers, RacerCancels, RacerFails, rvars
<1> QED
  BY <1>1 DEF Primary, Racers

\* The first node is not one of the racers.
LEMMA NodesOK ==
  ASSUME TypeControl
  PROVE  /\ Racers \subseteq AllNodes
         /\ nodes # <<>> => Primary \in AllNodes /\ Primary \notin Racers
         /\ nodes = <<>> => Racers = {}
         /\ Range(nodes) = IF nodes = <<>> THEN {} ELSE {Primary} \cup Racers
<1>1. nodes \in NodeLists /\ nodes \in Seq(Range(nodes)) /\ IsInjective(nodes)
  BY ResolverAssumption DEF TypeControl
<1>2. DOMAIN nodes = 1 .. Len(nodes) /\ Len(nodes) \in Nat /\ (nodes # <<>> => 1 \in DOMAIN nodes)
  BY <1>1
<1>3. Range(nodes) = {nodes[i] : i \in 1 .. Len(nodes)}
  BY <1>2 DEF Range
<1>4. Range(nodes) \subseteq AllNodes
  BY <1>1 DEF AllNodes
<1>5. nodes # <<>> => Primary \notin Racers
  BY <1>1, <1>2 DEF Primary, Racers, IsInjective
<1>6. nodes = <<>> => Range(nodes) = {} /\ Racers = {}
  BY <1>2, <1>3 DEF Racers
<1>7. nodes # <<>> => Range(nodes) = {Primary} \cup Racers
  BY <1>2, <1>3 DEF Primary, Racers
<1> QED
  BY <1>4, <1>5, <1>6, <1>7

LEMMA StepQuiet ==
  ASSUME TypeControl, TypeRace, Calls, Quiet, RStep
  PROVE  Quiet'
<1>1. ASSUME NEW self \in BOOLEAN, ResolveIPAddrs(self) PROVE Quiet'
  <2>1. call' \in {"self", "wait"} /\ ~(\E q \in Queries : stop'[q] \/ resChan'[q] # <<>>)
    BY <1>1 DEF ResolveIPAddrs, StartQueries
  <2>2. CASE self
    BY <1>1, <2>1, <2>2, NodesKept DEF ResolveIPAddrs, Quiet
  <2>3. CASE ~self
    BY <1>1, <2>1, <2>3, NodesKept, NodesOK DEF ResolveIPAddrs, StartQueries, Quiet, Unsent
  <2> QED
    BY <2>2, <2>3
<1>2. CASE SystemKnowsSelf
  <2>1. \A q \in Queries : ~stop'[q] /\ resChan'[q] = <<>>
    BY <1>2 DEF SystemKnowsSelf, Calls, Quiet
  <2>2. CASE call' = "returned" /\ UNCHANGED st
    BY <1>2, <2>1, <2>2 DEF SystemKnowsSelf, Calls, Quiet
  <2>3. CASE StartQueries
    BY <1>2, <2>1, <2>3, NodesKept, NodesOK DEF StartQueries, Quiet, Unsent
  <2> QED
    BY <1>2, <2>2, <2>3 DEF SystemKnowsSelf
<1>3. CASE ContextDone
  BY <1>3, NodesKept DEF ContextDone, TypeControl, TypeRace, QueryStates, Calls, Quiet
<1>4. CASE LookupReturns
  BY <1>4, NodesKept DEF LookupReturns, TypeControl, TypeRace, QueryStates, Calls, Quiet
<1>5. CASE Taken
  BY <1>5, NodesKept DEF Taken, TypeControl, TypeRace, QueryStates, Calls, Quiet
<1>6. ASSUME NEW p \in Queries, PrimaryFails(p) PROVE Quiet'
  BY <1>6, NodesKept DEF PrimaryFails, TypeControl, TypeRace, QueryStates, Calls, Quiet
<1>7. ASSUME NEW p \in Queries, PrimaryAnswers(p) PROVE Quiet'
  BY <1>7, NodesKept DEF PrimaryAnswers, TypeControl, TypeRace, QueryStates, Calls, Quiet
<1>8. ASSUME NEW p \in Queries, RaceReceives(p) PROVE Quiet'
  <2>1. st[p] = "race" /\ call = "wait" /\ UNCHANGED call /\ \A q \in Queries \ {p} : UNCHANGED <<st[q], task[q], stop[q], resChan[q]>>
    BY <1>8 DEF RaceReceives, Leave, TypeControl, TypeRace
  <2>2. st'[p] \in {"race", "append", "system"} /\ (st'[p] # "race" => resChan'[p] = <<>>)
    BY <1>8 DEF RaceReceives, AllReceived, TypeControl, TypeRace
  <2> QED
    BY <2>1, <2>2, NodesKept DEF Quiet
<1>9. ASSUME NEW p \in Queries, RaceGivesUp(p) PROVE Quiet'
  BY <1>9, NodesKept DEF RaceGivesUp, Leave, TypeControl, TypeRace, QueryStates, Calls, Quiet
<1>10. ASSUME NEW p \in Queries, SystemDNS(p) PROVE Quiet'
  BY <1>10, NodesKept DEF SystemDNS, Leave, TypeControl, TypeRace, QueryStates, Calls, Quiet
<1>11. ASSUME NEW p \in Queries, AppendReads(p) PROVE Quiet'
  BY <1>11, NodesKept DEF AppendReads, TypeControl, TypeRace, QueryStates, Calls, Quiet
<1>12. ASSUME NEW p \in Queries, AppendWrites(p) PROVE Quiet'
  BY <1>12, NodesKept DEF AppendWrites, TypeControl, TypeRace, QueryStates, Calls, Quiet
<1>13. ASSUME NEW p \in Queries, AppendEnds(p) PROVE Quiet'
  BY <1>13, NodesKept DEF AppendEnds, TypeControl, TypeRace, QueryStates, Calls, Quiet
<1>14. ASSUME NEW p \in Queries, NEW m \in AllNodes, Advances(p, m) PROVE Quiet'
  <2>1. PICK next \in {"lock", "retry"} :
          /\ UNCHANGED <<call, st, stop, resChan>> /\ task[p][m] # "off"
          /\ \A q \in Queries, n \in AllNodes :
                task'[q][n] = IF q = p /\ n = m THEN next ELSE task[q][n]
    BY <1>14 DEF Advances, TypeRace
  <2>2. ASSUME NEW q \in Queries, st[q] = "primary"
        PROVE  /\ \A n \in AllNodes : n # Primary => task'[q][n] = "off"
               /\ task'[q][Primary] \in Unsent
    <3>1. Primary \in AllNodes
      BY <2>2, NodesOK DEF Calls
    <3>2. q = p => m = Primary
      BY <2>1, <2>2 DEF Quiet
    <3> QED
      BY <2>1, <2>2, <3>1, <3>2 DEF Quiet, Unsent
  <2> QED
    BY <2>1, <2>2, NodesKept DEF Quiet
<1>15. ASSUME NEW p \in Queries, NEW m \in AllNodes, RacerAnswers(p, m) PROVE Quiet'
  <2>1. /\ UNCHANGED <<call, st, stop>> /\ Running(p, m)
        /\ \A q \in Queries : (st[q] # "race" \/ q # p) => UNCHANGED resChan[q]
        /\ \A q \in Queries, n \in AllNodes : (q # p \/ n # m) => UNCHANGED task[q][n]
    BY <1>15 DEF RacerAnswers, Send, TypeRace
  <2>2. st[p] # "primary" /\ call # "self"
    BY <2>1, NodesOK DEF Running, Quiet, Calls
  <2> QED
    BY <2>1, <2>2, NodesKept, NodesOK DEF Quiet, Calls
<1>16. ASSUME NEW p \in Queries, NEW m \in AllNodes, RacerCancels(p, m) PROVE Quiet'
  BY <1>16, NodesKept DEF RacerCancels, Ended, TypeControl, TypeRace, QueryStates, Calls, Quiet, Unsent
<1>17. ASSUME NEW p \in Queries, NEW m \in AllNodes, RacerFails(p, m) PROVE Quiet'
  <2>1. /\ UNCHANGED <<call, st, stop>> /\ Running(p, m)
        /\ \A q \in Queries : (st[q] # "race" \/ q # p) => UNCHANGED resChan[q]
        /\ \A q \in Queries, n \in AllNodes : (q # p \/ n # m) => UNCHANGED task[q][n]
    BY <1>17 DEF RacerFails, Send, TypeRace
  <2>2. st[p] # "primary" /\ call # "self"
    BY <2>1, NodesOK DEF Running, Quiet, Calls
  <2> QED
    BY <2>1, <2>2, NodesKept, NodesOK DEF Quiet, Calls
<1>18. CASE UNCHANGED rvars
  BY <1>18, NodesKept DEF rvars, TypeControl, TypeRace, QueryStates, Calls, Quiet
<1> QED
  BY <1>1, <1>2, <1>3, <1>4, <1>5, <1>6, <1>7, <1>8, <1>9,
     <1>10, <1>11, <1>12, <1>13, <1>14, <1>15, <1>16, <1>17, <1>18, RefreshAdvances
     DEF RStep, ResolverStep, QueryStep

LEMMA StepWinnerSent ==
  ASSUME TypeControl, TypeRace, Calls, Quiet, WinnerSent, RStep
  PROVE  WinnerSent'
<1>1. ASSUME NEW self \in BOOLEAN, ResolveIPAddrs(self) PROVE WinnerSent'
  <2>1. \A q \in Queries : st'[q] # "race"
    BY <1>1 DEF ResolveIPAddrs, StartQueries
  <2> QED
    BY <2>1 DEF WinnerSent
<1>2. CASE SystemKnowsSelf
  BY <1>2 DEF SystemKnowsSelf, StartQueries, TypeControl, TypeRace, Calls, Quiet, WinnerSent, Won, HasOk
<1>3. CASE ContextDone
  BY <1>3 DEF ContextDone, TypeControl, TypeRace, Calls, Quiet, WinnerSent, Won, HasOk
<1>4. CASE LookupReturns
  BY <1>4 DEF LookupReturns, TypeControl, TypeRace, Calls, Quiet, WinnerSent, Won, HasOk
<1>5. CASE Taken
  BY <1>5 DEF Taken, TypeControl, TypeRace, Calls, Quiet, WinnerSent, Won, HasOk
<1>6. ASSUME NEW p \in Queries, PrimaryFails(p) PROVE WinnerSent'
  <2>1. st[p] = "primary" /\ UNCHANGED <<stop, resChan>>
        /\ \A q \in Queries \ {p} : UNCHANGED <<st[q], task[q]>>
    BY <1>6 DEF PrimaryFails, TypeControl, TypeRace
  <2>2. ~stop[p] /\ Failure(p) \in {"late", "failed"}
    BY <2>1 DEF Quiet, Failure
  <2>3. \A n \in AllNodes : task'[p][n] \in {"late", "failed", "query", "off"}
    BY <1>6, <2>2 DEF PrimaryFails, TypeRace
  <2> QED
    BY <2>1, <2>2, <2>3 DEF WinnerSent, Won, HasOk
<1>7. ASSUME NEW p \in Queries, PrimaryAnswers(p) PROVE WinnerSent'
  BY <1>7 DEF PrimaryAnswers, TypeControl, TypeRace, Calls, Quiet, WinnerSent, Won, HasOk
<1>8. ASSUME NEW p \in Queries, RaceReceives(p) PROVE WinnerSent'
  <2> DEFINE c == resChan[p]
  <2>1. /\ c \in Seq(Results) /\ c # <<>>
        /\ \A q \in Queries \ {p} : UNCHANGED <<st[q], task[q], stop[q], resChan[q]>>
    BY <1>8 DEF RaceReceives, Leave, TypeControl, TypeRace
  <2>2. CASE Head(c).ok
    <3>1. st'[p] = "append"
      BY <1>8, <2>2 DEF RaceReceives, TypeControl
    <3> QED
      BY <2>1, <3>1 DEF WinnerSent, Won, HasOk
  <2>3. CASE ~Head(c).ok
    <3>1. resChan'[p] = Tail(c) /\ UNCHANGED <<task, stop>> /\ st[p] = "race"
      BY <1>8, <2>3 DEF RaceReceives, TypeRace
    <3>2. ASSUME Won(p) PROVE \E i \in DOMAIN Tail(c) : Tail(c)[i].ok
      <4>1. PICK i \in DOMAIN c : c[i].ok
        BY <3>1, <3>2 DEF WinnerSent, HasOk
      <4>2. i # 1 /\ i \in 1 .. Len(c)
        BY <2>1, <2>3, <4>1
      <4>3. i - 1 \in DOMAIN Tail(c) /\ Tail(c)[i - 1] = c[i]
        BY <2>1, <4>2
      <4> QED
        BY <4>1, <4>3
    <3> HIDE DEF c
    <3> QED
      BY <2>1, <3>1, <3>2 DEF WinnerSent, Won, HasOk
  <2> QED
    BY <2>2, <2>3
<1>9. ASSUME NEW p \in Queries, RaceGivesUp(p) PROVE WinnerSent'
  BY <1>9 DEF RaceGivesUp, Leave, TypeControl, TypeRace, Calls, Quiet, WinnerSent, Won, HasOk
<1>10. ASSUME NEW p \in Queries, SystemDNS(p) PROVE WinnerSent'
  <2>1. st'[p] \in {"append", "err"}
        /\ \A q \in Queries \ {p} : UNCHANGED <<st[q], task[q], stop[q], resChan[q]>>
    BY <1>10 DEF SystemDNS, Leave, TypeControl, TypeRace
  <2> QED
    BY <2>1 DEF WinnerSent, Won, HasOk
<1>11. ASSUME NEW p \in Queries, AppendReads(p) PROVE WinnerSent'
  BY <1>11 DEF AppendReads, TypeControl, TypeRace, Calls, Quiet, WinnerSent, Won, HasOk
<1>12. ASSUME NEW p \in Queries, AppendWrites(p) PROVE WinnerSent'
  BY <1>12 DEF AppendWrites, TypeControl, TypeRace, Calls, Quiet, WinnerSent, Won, HasOk
<1>13. ASSUME NEW p \in Queries, AppendEnds(p) PROVE WinnerSent'
  BY <1>13 DEF AppendEnds, TypeControl, TypeRace, Calls, Quiet, WinnerSent, Won, HasOk
<1>14. ASSUME NEW p \in Queries, NEW m \in AllNodes, Advances(p, m) PROVE WinnerSent'
  BY <1>14 DEF Advances, TypeControl, TypeRace, Calls, Quiet, WinnerSent, Won, HasOk
<1>15. ASSUME NEW p \in Queries, NEW m \in AllNodes, RacerAnswers(p, m) PROVE WinnerSent'
  <2>0. UNCHANGED <<st, stop>>
        /\ \A q \in Queries \ {p} : UNCHANGED <<task[q], resChan[q]>>
    BY <1>15 DEF RacerAnswers, Send, TypeRace
  <2> SUFFICES ASSUME st[p] = "race", Won(p)' PROVE HasOk(p)'
    BY <2>0 DEF WinnerSent, Won, HasOk

  <2>1. PICK r \in NodeReply(p) : resChan'[p] = Append(resChan[p], [ok |-> TRUE, reply |-> r])
    BY <1>15 DEF RacerAnswers, Send, TypeRace
  <2> DEFINE res == [ok |-> TRUE, reply |-> r]
             c == Append(resChan[p], res)
  <2>2. resChan[p] \in Seq(Results) /\ res \in Results /\ res.ok
    BY Replies DEF TypeRace, Results
  <2> HIDE DEF res
  <2>3. Len(resChan[p]) + 1 \in DOMAIN c /\ c[Len(resChan[p]) + 1] = res
    BY <2>2
  <2> QED
    BY <2>1, <2>2, <2>3 DEF HasOk, res
<1>16. ASSUME NEW p \in Queries, NEW m \in AllNodes, RacerCancels(p, m) PROVE WinnerSent'
  <2>1. /\ UNCHANGED <<st, resChan>> /\ task[p][m] = "cancel"
        /\ \A q \in Queries \ {p} : UNCHANGED <<task[q], stop[q]>>
    BY <1>16 DEF RacerCancels, TypeRace
  <2>2. Won(p)
    BY <2>1 DEF Won
  <2>3. \A q \in Queries : (Won(q)' => Won(q)) /\ HasOk(q)' = HasOk(q)
    BY <2>1, <2>2 DEF Won, HasOk
  <2> QED
    BY <2>1, <2>3 DEF WinnerSent
<1>17. ASSUME NEW p \in Queries, NEW m \in AllNodes, RacerFails(p, m) PROVE WinnerSent'
  <2>0. UNCHANGED <<st, stop>>
        /\ \A q \in Queries \ {p} : UNCHANGED <<task[q], resChan[q]>>
    BY <1>17 DEF RacerFails, Send, TypeRace
  <2> SUFFICES ASSUME st[p] = "race", Won(p)' PROVE HasOk(p)'
    BY <2>0 DEF WinnerSent, Won, HasOk

  <2>1. resChan'[p] = Append(resChan[p], [ok |-> FALSE, reply |-> <<>>])
    BY <1>17 DEF RacerFails, Send, TypeRace
  <2> DEFINE res == [ok |-> FALSE, reply |-> <<>>]
             c == Append(resChan[p], res)
  <2>2. resChan[p] \in Seq(Results) /\ res \in Results
    BY DEF TypeRace, Results
  <2>3. Won(p)
    <3>1. \A n \in AllNodes : task'[p][n] = IF n = m THEN Failure(p) ELSE task[p][n]
      BY <1>17 DEF RacerFails, Ended, TypeRace
    <3>2. Failure(p) = "stopped" => stop[p]
      BY DEF Failure
    <3>3. Failure(p) \in {"stopped", "late", "failed"}
      BY FailureKinds
    <3> QED
      BY <2>0, <3>1, <3>2, <3>3 DEF Won
  <2>4. PICK i \in DOMAIN resChan[p] : resChan[p][i].ok
    BY <2>3 DEF WinnerSent, HasOk
  <2> HIDE DEF res
  <2>5. i \in DOMAIN c /\ c[i] = resChan[p][i]
    BY <2>2
  <2> QED
    BY <2>1, <2>4, <2>5 DEF HasOk, res
<1>18. CASE UNCHANGED rvars
  BY <1>18 DEF rvars, TypeControl, TypeRace, Calls, Quiet, WinnerSent, Won, HasOk
<1> QED
  BY <1>1, <1>2, <1>3, <1>4, <1>5, <1>6, <1>7, <1>8, <1>9,
     <1>10, <1>11, <1>12, <1>13, <1>14, <1>15, <1>16, <1>17, <1>18, RefreshAdvances
     DEF RStep, ResolverStep, QueryStep

LEMMA StepFailures ==
  ASSUME TypeControl, TypeRace, Calls, Quiet, WinnerSent, Failures, RStep
  PROVE  Failures'
<1>1. ASSUME NEW self \in BOOLEAN, ResolveIPAddrs(self) PROVE Failures'
  BY <1>1, NodesKept, NodesOK DEF ResolveIPAddrs, StartQueries, TypeControl, TypeRace, Calls, Failures
<1>2. CASE SystemKnowsSelf
  BY <1>2, NodesKept, NodesOK DEF SystemKnowsSelf, StartQueries, TypeControl, TypeRace, Calls, Failures
<1>3. CASE ContextDone
  BY <1>3, NodesKept, NodesOK DEF ContextDone, TypeControl, TypeRace, Calls, Failures
<1>4. CASE LookupReturns
  BY <1>4, NodesKept, NodesOK DEF LookupReturns, TypeControl, TypeRace, Calls, Failures
<1>5. CASE Taken
  BY <1>5, NodesKept, NodesOK DEF Taken, TypeControl, TypeRace, Calls, Failures
<1>6. ASSUME NEW p \in Queries, PrimaryFails(p) PROVE Failures'
  <2>1. /\ st[p] = "primary" /\ UNCHANGED ctx
        /\ \A q \in Queries \ {p} : UNCHANGED <<st[q], task[q]>>
        /\ st'[p] = IF Racers # {} THEN "race" ELSE "system"
    BY <1>6 DEF PrimaryFails, TypeControl, TypeRace
  <2>2. ctx = "live" => Failure(p) = "failed"
    BY <2>1 DEF Quiet, Failure
  <2>3. task'[p] = [n \in AllNodes |-> CASE n = Primary -> Failure(p)
                                         [] n \in Racers -> "query" [] OTHER -> "off"]
    BY <1>6 DEF PrimaryFails, TypeRace
  <2>4. nodes # <<>>
    BY <2>1 DEF Calls
  <2>5. task'[p][Primary] = Failure(p) /\ \A n \in Racers : task'[p][n] = "query"
    BY <2>3, <2>4, NodesOK
  <2>6. ctx' = "live" => task'[p][Primary'] = "failed"
    BY <2>1, <2>2, <2>5, NodesKept
  <2>7. st'[p] # "primary" /\ \A n \in Racers' : st'[p] # "system" /\ task'[p][n] = "query"
    <3>1. \A n \in Racers : task'[p][n] = "query" /\ Racers # {}
      BY <2>5
    <3>2. st'[p] # "primary" /\ (Racers # {} => st'[p] # "system")
      BY <2>1
    <3> QED
      BY <3>1, <3>2, NodesKept
  <2>8. \A q \in Queries \ {p} : UNCHANGED <<ctx, nodes, Primary, Racers, st[q], task[q]>>
    BY <2>1, NodesKept
  <2> QED
    BY <2>6, <2>7, <2>8 DEF Failures
<1>7. ASSUME NEW p \in Queries, PrimaryAnswers(p) PROVE Failures'
  BY <1>7, NodesKept, NodesOK DEF PrimaryAnswers, TypeControl, TypeRace, Calls, Failures
<1>8. ASSUME NEW p \in Queries, RaceReceives(p) PROVE Failures'
  <2> DEFINE c == resChan[p]
  <2>1. /\ c \in Seq(Results) /\ c # <<>> /\ st[p] = "race" /\ UNCHANGED ctx
        /\ \A q \in Queries \ {p} : UNCHANGED <<st[q], task[q]>>
    BY <1>8 DEF RaceReceives, Leave, TypeControl, TypeRace
  <2>2. CASE Head(c).ok
    <3>1. st'[p] = "append"
      BY <1>8, <2>2 DEF RaceReceives, TypeControl
    <3> QED
      BY <2>1, <3>1, NodesKept DEF Failures
  <2>3. CASE ~Head(c).ok /\ ~AllReceived(p, Tail(c))
    <3>1. st'[p] = "race" /\ UNCHANGED task
      BY <1>8, <2>3 DEF RaceReceives, TypeControl
    <3> QED
      BY <2>1, <3>1, NodesKept DEF Failures
  <2>4. CASE ~Head(c).ok /\ AllReceived(p, Tail(c))
    <3>1. st'[p] = "system" /\ UNCHANGED task
      BY <1>8, <2>4 DEF RaceReceives, TypeControl
    <3>2. Tail(c) = <<>> /\ Len(c) = 1
      <4>1. Tail(c) = <<>>
        BY <2>4 DEF AllReceived
      <4>2. Len(Tail(c)) = Len(c) - 1 /\ Len(c) \in Nat
        BY <2>1
      <4> HIDE DEF c
      <4>3. Len(c) - 1 = 0
        BY <4>1, <4>2
      <4> QED
        BY <4>1, <4>2, <4>3
    <3>3. ~HasOk(p)
      BY <2>1, <2>4, <3>2 DEF HasOk
    <3>4. ~Won(p)
      BY <2>1, <3>3 DEF WinnerSent
    <3>5. ASSUME NEW n \in Racers, ctx = "live" PROVE task[p][n] = "failed"
      <4>1. task[p][n] \in TaskStates
        BY NodesOK DEF TypeRace
      <4>2. task[p][n] \notin Unsent
        BY <2>4 DEF AllReceived, Unsent
      <4>3. task[p][n] \notin {"cancel", "answered", "stopped"}
        BY <3>4, NodesOK DEF Won
      <4>4. task[p][n] \notin {"off", "late"}
        BY <2>1, <3>5 DEF Failures
      <4> QED
        BY <4>1, <4>2, <4>3, <4>4 DEF TaskStates, Unsent
    <3> QED
      BY <2>1, <3>1, <3>5, NodesKept DEF Failures
  <2> QED
    BY <2>2, <2>3, <2>4
<1>9. ASSUME NEW p \in Queries, RaceGivesUp(p) PROVE Failures'
  BY <1>9, NodesKept, NodesOK DEF RaceGivesUp, Leave, TypeControl, TypeRace, Calls, Failures
<1>10. ASSUME NEW p \in Queries, SystemDNS(p) PROVE Failures'
  BY <1>10, NodesKept, NodesOK DEF SystemDNS, Leave, TypeControl, TypeRace, Calls, Failures
<1>11. ASSUME NEW p \in Queries, AppendReads(p) PROVE Failures'
  BY <1>11, NodesKept, NodesOK DEF AppendReads, TypeControl, TypeRace, Calls, Failures
<1>12. ASSUME NEW p \in Queries, AppendWrites(p) PROVE Failures'
  BY <1>12, NodesKept, NodesOK DEF AppendWrites, TypeControl, TypeRace, Calls, Failures
<1>13. ASSUME NEW p \in Queries, AppendEnds(p) PROVE Failures'
  BY <1>13, NodesKept, NodesOK DEF AppendEnds, TypeControl, TypeRace, Calls, Failures
<1>14. ASSUME NEW p \in Queries, NEW m \in AllNodes, Advances(p, m) PROVE Failures'
  <2>1. PICK next \in {"lock", "retry"} :
          /\ UNCHANGED <<ctx, st>> /\ task[p][m] \in {"query", "lock"}
          /\ \A q \in Queries, n \in AllNodes :
                task'[q][n] = IF q = p /\ n = m THEN next ELSE task[q][n]
    BY <1>14 DEF Advances, TypeRace
  <2> QED
    BY <2>1, NodesKept, NodesOK DEF Failures
<1>15. ASSUME NEW p \in Queries, NEW m \in AllNodes, RacerAnswers(p, m) PROVE Failures'
  <2>1. UNCHANGED <<ctx, st>> /\ Running(p, m)
        /\ \A q \in Queries, n \in AllNodes :
              task'[q][n] = IF q = p /\ n = m THEN "cancel" ELSE task[q][n]
    BY <1>15 DEF RacerAnswers, TypeRace
  <2>2. st[p] # "system" \/ ctx # "live"
    BY <2>1 DEF Failures, Running
  <2> QED
    BY <2>1, <2>2, NodesKept, NodesOK DEF Failures, Running
<1>16. ASSUME NEW p \in Queries, NEW m \in AllNodes, RacerCancels(p, m) PROVE Failures'
  <2>1. UNCHANGED <<ctx, st>> /\ task[p][m] = "cancel"
        /\ \A q \in Queries, n \in AllNodes :
              task'[q][n] = IF q = p /\ n = m THEN Ended(p, "answered") ELSE task[q][n]
    BY <1>16 DEF RacerCancels, TypeRace
  <2>2. st[p] = "race" => Ended(p, "answered") = "answered"
    BY DEF Ended
  <2> HIDE DEF Ended
  <2> QED
    BY <2>1, <2>2, NodesKept, NodesOK DEF Failures
<1>17. ASSUME NEW p \in Queries, NEW m \in AllNodes, RacerFails(p, m) PROVE Failures'
  <2>1. UNCHANGED <<ctx, st>> /\ Running(p, m)
        /\ \A q \in Queries, n \in AllNodes :
              task'[q][n] = IF q = p /\ n = m THEN Ended(p, Failure(p)) ELSE task[q][n]
    BY <1>17 DEF RacerFails, TypeRace
  <2>2. st[p] # "system" \/ ctx # "live"
    BY <2>1 DEF Failures, Running
  <2>3. st[p] = "race" => Ended(p, Failure(p)) # "off" /\ (ctx = "live" => Ended(p, Failure(p)) # "late")
    BY FailureKinds DEF Ended, Failure
  <2> HIDE DEF Ended
  <2> QED
    BY <2>1, <2>2, <2>3, NodesKept, NodesOK DEF Failures, Running
<1>18. CASE UNCHANGED rvars
  BY <1>18, NodesKept, NodesOK DEF rvars, TypeControl, TypeRace, Calls, Failures
<1> QED
  BY <1>1, <1>2, <1>3, <1>4, <1>5, <1>6, <1>7, <1>8, <1>9,
     <1>10, <1>11, <1>12, <1>13, <1>14, <1>15, <1>16, <1>17, <1>18, RefreshAdvances
     DEF RStep, ResolverStep, QueryStep

LEMMA StepAppends ==
  ASSUME TypeControl, TypeRace, Calls, TypeAppend, Appends, RStep
  PROVE  Appends'
<1>1. ASSUME NEW self \in BOOLEAN, ResolveIPAddrs(self) PROVE Appends'
  <2>1. \A q \in Queries : ans'[q] = <<>> /\ added'[q] = 0 /\ st'[q] \in {"off", "system", "primary"}
    BY <1>1 DEF ResolveIPAddrs, StartQueries
  <2> QED
    BY <2>1 DEF Appends
<1>2. CASE SystemKnowsSelf
  BY <1>2 DEF SystemKnowsSelf, StartQueries, TypeControl, TypeAppend, Calls, Appends
<1>3. CASE ContextDone
  BY <1>3 DEF ContextDone, TypeControl, TypeAppend, Calls, Appends
<1>4. CASE LookupReturns
  BY <1>4 DEF LookupReturns, TypeControl, TypeAppend, Calls, Appends
<1>5. CASE Taken
  BY <1>5 DEF Taken, TypeControl, TypeAppend, Calls, Appends
<1>6. ASSUME NEW p \in Queries, PrimaryFails(p) PROVE Appends'
  BY <1>6 DEF PrimaryFails, TypeControl, TypeAppend, Calls, Appends
<1>7. ASSUME NEW p \in Queries, PrimaryAnswers(p) PROVE Appends'
  BY <1>7 DEF PrimaryAnswers, TypeControl, TypeAppend, Calls, Appends
<1>8. ASSUME NEW p \in Queries, RaceReceives(p) PROVE Appends'
  <2>1. /\ st[p] = "race" /\ added' = added /\ st'[p] \in {"race", "append", "system"}
        /\ st'[p] # "append" => UNCHANGED ans
        /\ \A q \in Queries \ {p} : UNCHANGED <<st[q], ans[q]>>
    BY <1>8 DEF RaceReceives, TypeControl, TypeAppend
  <2>2. added[p] = 0
    BY <2>1 DEF Appends, TypeAppend
  <2>3. ans' \in [Queries -> Seq(Addrs)]
    BY StepTypeAppend DEF TypeAppend
  <2>4. Len(ans'[p]) >= 0
    BY <2>3
  <2> QED
    BY <2>1, <2>2, <2>4 DEF Appends
<1>9. ASSUME NEW p \in Queries, RaceGivesUp(p) PROVE Appends'
  BY <1>9 DEF RaceGivesUp, Leave, TypeControl, TypeAppend, Calls, Appends
<1>10. ASSUME NEW p \in Queries, SystemDNS(p) PROVE Appends'
  BY <1>10 DEF SystemDNS, Leave, TypeControl, TypeAppend, Calls, Appends
<1>11. ASSUME NEW p \in Queries, AppendReads(p) PROVE Appends'
  BY <1>11 DEF AppendReads, TypeControl, TypeAppend, Calls, Appends
<1>12. ASSUME NEW p \in Queries, AppendWrites(p) PROVE Appends'
  BY <1>12 DEF AppendWrites, TypeControl, TypeAppend, Calls, Appends
<1>13. ASSUME NEW p \in Queries, AppendEnds(p) PROVE Appends'
  BY <1>13 DEF AppendEnds, TypeControl, TypeAppend, Calls, Appends
<1>14. ASSUME NEW p \in Queries, NEW m \in AllNodes, Advances(p, m) PROVE Appends'
  BY <1>14 DEF Advances, TypeControl, TypeAppend, Calls, Appends
<1>15. ASSUME NEW p \in Queries, NEW m \in AllNodes, RacerAnswers(p, m) PROVE Appends'
  BY <1>15 DEF RacerAnswers, Send, TypeControl, TypeAppend, Calls, Appends
<1>16. ASSUME NEW p \in Queries, NEW m \in AllNodes, RacerCancels(p, m) PROVE Appends'
  BY <1>16 DEF RacerCancels, Ended, TypeControl, TypeAppend, Calls, Appends
<1>17. ASSUME NEW p \in Queries, NEW m \in AllNodes, RacerFails(p, m) PROVE Appends'
  BY <1>17 DEF RacerFails, Send, Ended, TypeControl, TypeAppend, Calls, Appends
<1>18. CASE UNCHANGED rvars
  BY <1>18 DEF rvars, TypeControl, TypeAppend, Calls, Appends
<1> QED
  BY <1>1, <1>2, <1>3, <1>4, <1>5, <1>6, <1>7, <1>8, <1>9,
     <1>10, <1>11, <1>12, <1>13, <1>14, <1>15, <1>16, <1>17, <1>18, RefreshAdvances
     DEF RStep, ResolverStep, QueryStep

\* A list has finitely many racers.
LEMMA RacersFinite ==
  ASSUME TypeControl
  PROVE  /\ IsFiniteSet(Racers) /\ Cardinality(Racers) <= Len(nodes)
         /\ \A q : IsFiniteSet(Sent(q)) /\ Cardinality(Sent(q)) \in Nat
         /\ \A q : Cardinality(Sent(q)) <= Len(nodes)
<1>1. nodes \in Seq(Range(nodes)) /\ Len(nodes) \in Nat
  BY ResolverAssumption DEF TypeControl
<1> DEFINE n == Len(nodes)
           S == 2 .. n
           f == [i \in S |-> nodes[i]]
<1>2. f \in Surjection(S, Racers)
  BY DEF Surjection, Racers
<1>3. IsFiniteSet(S) /\ Cardinality(S) <= n
  BY <1>1, FS_Interval, SMTT(30)
<1> HIDE DEF S, f, n
<1>4. IsFiniteSet(Racers) /\ Cardinality(Racers) <= Cardinality(S)
  BY <1>2, <1>3, FS_Surjection
<1>5. n \in Nat /\ Cardinality(S) \in Nat /\ Cardinality(Racers) \in Nat
  BY <1>1, <1>3, <1>4, FS_CardinalityType DEF n
<1>6. Cardinality(Racers) <= n
  BY <1>3, <1>4, <1>5
<1>7. ASSUME NEW q
      PROVE  IsFiniteSet(Sent(q)) /\ Cardinality(Sent(q)) \in Nat /\ Cardinality(Sent(q)) <= n
  <2>1. Sent(q) \in SUBSET Racers
    BY DEF Sent
  <2>2. IsFiniteSet(Sent(q)) /\ Cardinality(Sent(q)) <= Cardinality(Racers)
    BY <1>4, <2>1, FS_Subset
  <2>3. Cardinality(Sent(q)) \in Nat
    BY <2>2, FS_CardinalityType
  <2> QED
    BY <1>5, <1>6, <2>2, <2>3
<1> QED
  BY <1>4, <1>6, <1>7 DEF n

\* A query whose racers run as before has counted as before.
LEMMA SentKept ==
  ASSUME RStep, NEW q,
         \A n \in Racers : task'[q][n] \in Unsent <=> task[q][n] \in Unsent
  PROVE  Sent(q)' = Sent(q)
  BY NodesKept DEF Sent

\* The racers that have sent gain m with its result.
LEMMA SentGrows ==
  ASSUME TypeControl, TypeRace, Counted, RStep, NEW q \in Queries, NEW m \in AllNodes, NEW res \in Results,
         Running(q, m), st[q] = "race", task'[q][m] \notin Unsent,
         \A n \in AllNodes : n # m => task'[q][n] = task[q][n],
         resChan'[q] = Append(resChan[q], res)
  PROVE  Len(resChan[q])' <= Cardinality(Sent(q))'
<1>1. Sent(q)' = Sent(q) \cup {m} /\ m \notin Sent(q)
  BY NodesKept, NodesOK DEF Sent, Running, Unsent
<1>2. IsFiniteSet(Sent(q)) /\ Cardinality(Sent(q)) \in Nat
  BY RacersFinite
<1>3. Cardinality(Sent(q) \cup {m}) = Cardinality(Sent(q)) + 1
  BY <1>1, <1>2, FS_AddElement
<1>4. Len(resChan'[q]) = Len(resChan[q]) + 1 /\ Len(resChan[q]) \in Nat
  BY DEF TypeRace
<1>5. Len(resChan[q]) <= Cardinality(Sent(q))
  BY DEF Counted
<1> QED
  BY <1>1, <1>2, <1>3, <1>4, <1>5

\* A racer that ends sends one result, so the channel never holds more
\* than have ended.
LEMMA StepCounted ==
  ASSUME TypeControl, TypeRace, Calls, Quiet, Counted, RStep
  PROVE  Counted'
<1>1. ASSUME NEW self \in BOOLEAN, ResolveIPAddrs(self) PROVE Counted'
  <2>1. \A q \in Queries : st'[q] # "race"
    BY <1>1 DEF ResolveIPAddrs, StartQueries
  <2> QED
    BY <2>1 DEF Counted
<1>2. CASE SystemKnowsSelf
  <2>1. \A q \in Queries : st'[q] # "race"
    BY <1>2 DEF SystemKnowsSelf, StartQueries, Calls
  <2> QED
    BY <2>1 DEF Counted
<1>3. CASE ContextDone
  <2>1. UNCHANGED <<st, resChan>> /\ \A q \in Queries, n \in Racers :
            task'[q][n] \in Unsent <=> task[q][n] \in Unsent
    BY <1>3, NodesOK DEF ContextDone, TypeRace
  <2> QED
    BY <2>1, SentKept DEF Counted
<1>4. CASE LookupReturns
  <2>1. \A q \in Queries : st'[q] # "race"
    BY <1>4 DEF LookupReturns
  <2> QED
    BY <2>1 DEF Counted
<1>5. CASE Taken
  <2>1. \A q \in Queries : st'[q] # "race"
    BY <1>5 DEF Taken
  <2> QED
    BY <2>1 DEF Counted
<1>6. ASSUME NEW p \in Queries, PrimaryFails(p) PROVE Counted'
  <2>1. /\ st[p] = "primary" /\ UNCHANGED resChan
        /\ \A q \in Queries \ {p} : UNCHANGED <<st[q], task[q]>>
    BY <1>6 DEF PrimaryFails, TypeControl, TypeRace
  <2>2. resChan'[p] = <<>> /\ Len(resChan'[p]) = 0
    BY <2>1 DEF Quiet
  <2>3. Cardinality(Sent(p)') \in Nat
    <3>1. Sent(p)' \in SUBSET Racers
      BY NodesKept DEF Sent
    <3>2. IsFiniteSet(Sent(p)')
      BY <3>1, RacersFinite, FS_Subset
    <3> QED
      BY <3>2, FS_CardinalityType
  <2> QED
    BY <2>1, <2>2, <2>3, SentKept DEF Counted
<1>7. ASSUME NEW p \in Queries, PrimaryAnswers(p) PROVE Counted'
  <2>1. /\ st'[p] # "race"
        /\ \A q \in Queries \ {p} : UNCHANGED <<st[q], task[q], resChan[q]>>
    BY <1>7 DEF PrimaryAnswers, TypeControl, TypeRace
  <2> QED
    BY <2>1, SentKept DEF Counted
<1>8. ASSUME NEW p \in Queries, RaceReceives(p) PROVE Counted'
  <2> DEFINE c == resChan[p]
  <2>1. /\ c \in Seq(Results) /\ c # <<>> /\ st[p] = "race"
        /\ \A q \in Queries \ {p} : UNCHANGED <<st[q], task[q], resChan[q]>>
    BY <1>8 DEF RaceReceives, Leave, TypeControl, TypeRace
  <2>2. CASE Head(c).ok
    <3>1. st'[p] = "append"
      BY <1>8, <2>2 DEF RaceReceives, TypeControl
    <3> QED
      BY <2>1, <3>1, SentKept DEF Counted
  <2>3. CASE ~Head(c).ok
    <3>1. UNCHANGED task /\ resChan'[p] = Tail(c)
      BY <1>8, <2>3 DEF RaceReceives, TypeRace
    <3>2. Len(Tail(c)) = Len(c) - 1 /\ Len(c) \in Nat
      BY <2>1
    <3>3. Len(c) <= Cardinality(Sent(p)) /\ Cardinality(Sent(p)) \in Nat
      BY <2>1, RacersFinite DEF Counted
    <3>4. \A q \in Queries : Sent(q)' = Sent(q)
      BY <3>1, SentKept
    <3>5. Len(Tail(c)) <= Cardinality(Sent(p))
      BY <3>2, <3>3
    <3> HIDE DEF c
    <3> QED
      BY <2>1, <3>1, <3>4, <3>5 DEF Counted
  <2> QED
    BY <2>2, <2>3
<1>9. ASSUME NEW p \in Queries, RaceGivesUp(p) PROVE Counted'
  <2>1. /\ st'[p] # "race"
        /\ \A q \in Queries \ {p} : UNCHANGED <<st[q], task[q], resChan[q]>>
    BY <1>9 DEF RaceGivesUp, Leave, TypeControl, TypeRace
  <2> QED
    BY <2>1, SentKept DEF Counted
<1>10. ASSUME NEW p \in Queries, SystemDNS(p) PROVE Counted'
  <2>1. /\ st'[p] # "race"
        /\ \A q \in Queries \ {p} : UNCHANGED <<st[q], task[q], resChan[q]>>
    BY <1>10 DEF SystemDNS, Leave, TypeControl, TypeRace
  <2> QED
    BY <2>1, SentKept DEF Counted
<1>11. ASSUME NEW p \in Queries, AppendReads(p) PROVE Counted'
  <2>1. /\ st'[p] # "race"
        /\ \A q \in Queries \ {p} : UNCHANGED <<st[q], task[q], resChan[q]>>
    BY <1>11 DEF AppendReads, TypeControl, TypeRace
  <2> QED
    BY <2>1, SentKept DEF Counted
<1>12. ASSUME NEW p \in Queries, AppendWrites(p) PROVE Counted'
  <2>1. /\ st'[p] # "race"
        /\ \A q \in Queries \ {p} : UNCHANGED <<st[q], task[q], resChan[q]>>
    BY <1>12 DEF AppendWrites, TypeControl, TypeRace
  <2> QED
    BY <2>1, SentKept DEF Counted
<1>13. ASSUME NEW p \in Queries, AppendEnds(p) PROVE Counted'
  <2>1. /\ st'[p] # "race"
        /\ \A q \in Queries \ {p} : UNCHANGED <<st[q], task[q], resChan[q]>>
    BY <1>13 DEF AppendEnds, TypeControl, TypeRace
  <2> QED
    BY <2>1, SentKept DEF Counted
<1>14. ASSUME NEW p \in Queries, NEW m \in AllNodes, Advances(p, m) PROVE Counted'
  <2>1. UNCHANGED <<st, resChan>> /\ \A q \in Queries, n \in Racers :
            task'[q][n] \in Unsent <=> task[q][n] \in Unsent
    BY <1>14, NodesOK DEF Advances, TypeRace, Unsent
  <2> QED
    BY <2>1, SentKept DEF Counted
<1>15. ASSUME NEW p \in Queries, NEW m \in AllNodes, RacerAnswers(p, m) PROVE Counted'
  <2>0. /\ UNCHANGED st /\ Running(p, m)
        /\ \A q \in Queries \ {p} : UNCHANGED <<task[q], resChan[q]>>
        /\ \A n \in AllNodes : n # m => task'[p][n] = task[p][n]
    BY <1>15 DEF RacerAnswers, Send, TypeRace
  <2>1. task'[p][m] \notin Unsent
    BY <1>15, FailureKinds DEF RacerAnswers, TypeRace, Unsent
  <2>2. st[p] = "race" => \E res \in Results : resChan'[p] = Append(resChan[p], res)
    BY <1>15, Replies DEF RacerAnswers, Send, TypeRace, Results
  <2>3. st[p] = "race" => Len(resChan[p])' <= Cardinality(Sent(p))'
    BY <2>0, <2>1, <2>2, SentGrows
  <2> QED
    BY <2>0, <2>3, SentKept DEF Counted
<1>16. ASSUME NEW p \in Queries, NEW m \in AllNodes, RacerCancels(p, m) PROVE Counted'
  <2>1. UNCHANGED <<st, resChan>> /\ \A q \in Queries, n \in Racers :
            task'[q][n] \in Unsent <=> task[q][n] \in Unsent
    BY <1>16, NodesOK DEF RacerCancels, Ended, TypeRace, Unsent
  <2> QED
    BY <2>1, SentKept DEF Counted
<1>17. ASSUME NEW p \in Queries, NEW m \in AllNodes, RacerFails(p, m) PROVE Counted'
  <2>0. /\ UNCHANGED st /\ Running(p, m)
        /\ \A q \in Queries \ {p} : UNCHANGED <<task[q], resChan[q]>>
        /\ \A n \in AllNodes : n # m => task'[p][n] = task[p][n]
    BY <1>17 DEF RacerFails, Send, TypeRace
  <2>1. task'[p][m] \notin Unsent
    BY <1>17, FailureKinds DEF RacerFails, Ended, TypeRace, Unsent
  <2>2. st[p] = "race" => \E res \in Results : resChan'[p] = Append(resChan[p], res)
    <3> DEFINE res == [ok |-> FALSE, reply |-> <<>>]
    <3>1. res \in Results
      BY DEF Results
    <3>2. st[p] = "race" => resChan'[p] = Append(resChan[p], res)
      BY <1>17 DEF RacerFails, Send, TypeRace
    <3> QED
      BY <3>1, <3>2
  <2>3. st[p] = "race" => Len(resChan[p])' <= Cardinality(Sent(p))'
    BY <2>0, <2>1, <2>2, SentGrows
  <2> QED
    BY <2>0, <2>3, SentKept DEF Counted
<1>18. CASE UNCHANGED rvars
  <2>1. UNCHANGED <<st, resChan, task>>
    BY <1>18 DEF rvars
  <2> QED
    BY <2>1, SentKept DEF Counted
<1> QED
  BY <1>1, <1>2, <1>3, <1>4, <1>5, <1>6, <1>7, <1>8, <1>9,
     <1>10, <1>11, <1>12, <1>13, <1>14, <1>15, <1>16, <1>17, <1>18, RefreshAdvances
     DEF RStep, ResolverStep, QueryStep

\* Nothing is appended: at most a query that had no answer gets one.
LEMMA SliceKept ==
  ASSUME TypeAppend, Appends, Working, SliceInv, UNCHANGED <<added, slice, ips>>, call' # "self",
         \A q \in Queries : ans[q] = <<>> \/ ans'[q] = ans[q],
         \A q \in Queries : st'[q] = "write" => st[q] = "write"
  PROVE  SliceInv'
<1>0. Alone /\ Origin /\ TornOnlyByBoth
  BY DEF SliceInv
<1>1. \A q \in Queries : Other(q) \in Queries
  BY DEF Queries, Other
<1>2. \A q \in Queries : ans[q] = <<>> => added[q] = 0
  BY DEF Appends, TypeAppend
<1>3. \A q \in Queries : Prefix(ips, q) => Prefix(ips, q)'
  <2> SUFFICES ASSUME NEW q \in Queries, Prefix(ips, q) PROVE Prefix(ips, q)'
    OBVIOUS
  <2>1. CASE ans[q] = <<>>
    BY <1>2, <2>1 DEF Prefix
  <2>2. CASE ans'[q] = ans[q]
    BY <2>2 DEF Prefix
  <2> QED
    BY <2>1, <2>2
<1>4. Alone'
  BY <1>0, <1>1, <1>3 DEF Alone
<1>5. \A x : Comes(x) => Comes(x)'
  <2>1. \A q \in Queries : ans[q] = <<>> => Range(ans[q]) = {}
    BY DEF Range
  <2> QED
    BY <2>1 DEF Comes
<1>6. Origin'
  BY <1>0, <1>5 DEF Origin
<1>7. TornOnlyByBoth'
  BY <1>0 DEF TornOnlyByBoth
<1> QED
  BY <1>4, <1>6, <1>7 DEF SliceInv, Fresh


\* A new lookup starts with an empty slice.
LEMMA FreshSlice ==
  ASSUME ips' = <<>>,
         \A q \in Queries : ans'[q] = <<>> /\ added'[q] = 0 /\ slice'[q] = <<>> /\ st'[q] # "write"
  PROVE  SliceInv'
<1>1. Alone'
  BY DEF Alone, Prefix
<1>2. Origin'
  BY DEF Origin
<1>3. TornOnlyByBoth'
  BY DEF TornOnlyByBoth, Range
<1> QED
  BY <1>1, <1>2, <1>3 DEF SliceInv, Fresh

LEMMA SliceUnchanged ==
  ASSUME SliceInv, UNCHANGED <<call, st, ans, added, slice, ips>>
  PROVE  SliceInv'
<1>1. Working' <=> Working
  BY DEF Working
<1>2. (Alone' <=> Alone) /\ (Origin' <=> Origin) /\ (TornOnlyByBoth' <=> TornOnlyByBoth)
  BY DEF Alone, Prefix, Origin, Comes, TornOnlyByBoth
<1> QED
  BY <1>1, <1>2 DEF SliceInv, Fresh

\* The unlocked appends: what a write can leave in the slice.
LEMMA StepSlice ==
  ASSUME TypeControl, TypeRace, TypeAppend, Calls, Appends, SliceInv, RStep
  PROVE  SliceInv'
<1>1. ASSUME NEW self \in BOOLEAN, ResolveIPAddrs(self) PROVE SliceInv'
  <2>1. ips' = <<>> /\ \A q \in Queries : ans'[q] = <<>> /\ added'[q] = 0 /\ slice'[q] = <<>> /\ st'[q] # "write"
    BY <1>1 DEF ResolveIPAddrs, StartQueries
  <2> QED
    BY <2>1, FreshSlice
<1>2. CASE SystemKnowsSelf
  <2>1. ips = <<>> /\ \A q \in Queries : ans[q] = <<>> /\ added[q] = 0 /\ slice[q] = <<>> /\ st[q] = "off"
    BY <1>2 DEF SystemKnowsSelf, SliceInv, Fresh, Calls, Appends
  <2>2. CASE call' = "returned" /\ UNCHANGED st
    <3>1. ~Working' /\ ~(call = "self")'
      BY <2>1, <2>2 DEF Working, Queries
    <3> QED
      BY <3>1 DEF SliceInv, Fresh
  <2>3. CASE StartQueries /\ UNCHANGED ips
    <3>1. ips' = <<>> /\ \A q \in Queries : ans'[q] = <<>> /\ added'[q] = 0 /\ slice'[q] = <<>> /\ st'[q] # "write"
      BY <1>2, <2>1, <2>3 DEF SystemKnowsSelf, StartQueries
    <3> QED
      BY <3>1, FreshSlice
  <2> QED
    BY <1>2, <2>2, <2>3 DEF SystemKnowsSelf
<1>3. CASE ContextDone
  <2>1. UNCHANGED <<call, st, ans, added, slice, ips>>
    BY <1>3 DEF ContextDone
  <2> QED
    BY <2>1, SliceUnchanged
<1>4. CASE LookupReturns
  <2>1. /\ call = "wait" /\ call' # "self" /\ UNCHANGED <<added, slice, ips>>
        /\ \A q \in Queries : ans[q] = <<>> \/ ans'[q] = ans[q]
        /\ \A q \in Queries : st'[q] = "write" => st[q] = "write"
    BY <1>4 DEF LookupReturns, TypeControl, TypeAppend, Appends
  <2> QED
    BY <2>1, SliceKept DEF Working
<1>5. CASE Taken
  <2>1. ~Working' /\ ~(call = "self")'
    BY <1>5 DEF Taken, Working, Queries
  <2> QED
    BY <2>1 DEF SliceInv, Fresh
<1>6. ASSUME NEW p \in Queries, PrimaryFails(p) PROVE SliceInv'
  <2>1. /\ call = "wait" /\ call' # "self" /\ UNCHANGED <<added, slice, ips>>
        /\ \A q \in Queries : ans[q] = <<>> \/ ans'[q] = ans[q]
        /\ \A q \in Queries : st'[q] = "write" => st[q] = "write"
    BY <1>6 DEF PrimaryFails, TypeControl, TypeAppend, Appends
  <2> QED
    BY <2>1, SliceKept DEF Working
<1>7. ASSUME NEW p \in Queries, PrimaryAnswers(p) PROVE SliceInv'
  <2>1. /\ call = "wait" /\ call' # "self" /\ UNCHANGED <<added, slice, ips>>
        /\ \A q \in Queries : ans[q] = <<>> \/ ans'[q] = ans[q]
        /\ \A q \in Queries : st'[q] = "write" => st[q] = "write"
    BY <1>7 DEF PrimaryAnswers, TypeControl, TypeAppend, Appends
  <2> QED
    BY <2>1, SliceKept DEF Working
<1>8. ASSUME NEW p \in Queries, RaceReceives(p) PROVE SliceInv'
  <2>1. /\ call = "wait" /\ call' # "self" /\ UNCHANGED <<added, slice, ips>>
        /\ \A q \in Queries : ans[q] = <<>> \/ ans'[q] = ans[q]
        /\ \A q \in Queries : st'[q] = "write" => st[q] = "write"
    BY <1>8 DEF RaceReceives, TypeControl, TypeAppend, Appends
  <2> QED
    BY <2>1, SliceKept DEF Working
<1>9. ASSUME NEW p \in Queries, RaceGivesUp(p) PROVE SliceInv'
  <2>1. /\ call = "wait" /\ call' # "self" /\ UNCHANGED <<added, slice, ips>>
        /\ \A q \in Queries : ans[q] = <<>> \/ ans'[q] = ans[q]
        /\ \A q \in Queries : st'[q] = "write" => st[q] = "write"
    BY <1>9 DEF RaceGivesUp, TypeControl, TypeAppend, Appends
  <2> QED
    BY <2>1, SliceKept DEF Working
<1>10. ASSUME NEW p \in Queries, SystemDNS(p) PROVE SliceInv'
  <2>1. /\ call = "wait" /\ call' # "self" /\ UNCHANGED <<added, slice, ips>>
        /\ \A q \in Queries : ans[q] = <<>> \/ ans'[q] = ans[q]
        /\ \A q \in Queries : st'[q] = "write" => st[q] = "write"
    BY <1>10 DEF SystemDNS, TypeControl, TypeAppend, Appends
  <2> QED
    BY <2>1, SliceKept DEF Working
<1>11. ASSUME NEW p \in Queries, AppendReads(p) PROVE SliceInv'
  <2>0. Alone /\ Origin /\ TornOnlyByBoth /\ call = "wait"
    BY <1>11 DEF AppendReads, SliceInv, Working
  <2>1. /\ UNCHANGED <<call, ans, added, ips>> /\ slice'[p] = ips
        /\ \A q \in Queries \ {p} : UNCHANGED <<st[q], slice[q]>>
    BY <1>11 DEF AppendReads, TypeControl, TypeAppend
  <2>2. Alone'
    BY <2>0, <2>1 DEF Alone, Prefix
  <2>3. Origin'
    BY <2>0, <2>1 DEF Origin, Comes
  <2>4. TornOnlyByBoth'
    BY <2>0, <2>1 DEF TornOnlyByBoth
  <2> QED
    BY <2>0, <2>1, <2>2, <2>3, <2>4 DEF SliceInv, Fresh
<1>12. ASSUME NEW p \in Queries, AppendWrites(p) PROVE SliceInv'
  <2> DEFINE k == added[p] + 1
             s == slice[p]
  <2>0. Alone /\ Origin /\ TornOnlyByBoth /\ call = "wait"
    BY <1>12 DEF AppendWrites, SliceInv, Working
  <2>1. /\ UNCHANGED <<call, ans>> /\ slice'[p] = <<>> /\ added'[p] = k /\ st'[p] = "append"
        /\ \A q \in Queries \ {p} : UNCHANGED <<st[q], added[q], slice[q]>>
    BY <1>12 DEF AppendWrites, TypeControl, TypeAppend
  <2>2. /\ st[p] = "write" /\ s \in Seq(Addrs \cup {Junk}) /\ ans[p] \in Seq(Addrs)
        /\ added[p] \in Nat /\ added[p] < Len(ans[p]) /\ Len(ans[p]) \in Nat
    BY <1>12 DEF AppendWrites, TypeAppend, Appends
  <2>3. k \in DOMAIN ans[p] /\ ans[p][k] \in Addrs /\ ans[p][k] \in Range(ans[p]) /\ ans[p] # <<>>
    BY <2>2 DEF Range
  <2>4. PICK x : /\ ips' = Append(s, x)
                 /\ x = ans[p][k] \/ (x = Junk /\ Torn(p))
    BY <1>12 DEF AppendWrites
  <2>5. Torn(p) => \A q \in Queries : ans[q] # <<>>
    <3>1. st[Other(p)] = "write" /\ Other(p) \in Queries => ans[Other(p)] # <<>>
      BY DEF Appends, TypeAppend
    <3> QED
      BY <2>3, <3>1 DEF Torn, Other, Queries
  <2>6. x \in Addrs \cup {Junk}
    BY <2>3, <2>4
  <2> HIDE DEF s, k
  <2>7. /\ ips' \in Seq(Addrs \cup {Junk}) /\ Len(ips') = Len(s) + 1 /\ ips' # <<>>
        /\ \A i \in 1 .. Len(s) : ips'[i] = s[i]
        /\ ips'[Len(s) + 1] = x /\ DOMAIN ips' = 1 .. Len(s) + 1 /\ DOMAIN s = 1 .. Len(s) /\ Len(s) \in Nat
    BY <2>2, <2>4, <2>6
  <2>8. \A i \in DOMAIN ips' : ips'[i] = x \/ \E j \in DOMAIN s : ips'[i] = s[j]
    BY <2>7
  <2>9. Alone'
    <3> SUFFICES ASSUME NEW q \in Queries, ans[Other(q)] = <<>>
                 PROVE  Prefix(ips, q)' /\ (st'[q] = "write" => slice'[q] = ips')
      BY <2>1 DEF Alone
    <3>1. q = p
      BY <2>3 DEF Other, Queries
    <3>2. ~Torn(p)
      BY <2>5 DEF Other, Queries
    <3>3. s = ips /\ Prefix(ips, p)
      BY <2>0, <2>2, <3>1 DEF Alone, s
    <3>4. Len(s) = added[p] /\ \A i \in 1 .. added[p] : s[i] = ans[p][i]
      BY <3>3 DEF Prefix
    <3>5. Len(ips') = k /\ \A i \in 1 .. k : ips'[i] = ans[p][i]
      BY <2>2, <2>4, <2>7, <3>2, <3>4 DEF k
    <3> QED
      BY <2>1, <3>1, <3>5 DEF Prefix
  <2>10. Origin'
    <3>1. Comes(x) /\ \A j \in DOMAIN s : Comes(s[j])
      BY <2>0, <2>3, <2>4 DEF Origin, Comes, s
    <3>2. \A i \in DOMAIN ips' : Comes(ips'[i])
      BY <2>8, <3>1
    <3>3. \A y : Comes(y)' <=> Comes(y)
      BY <2>1 DEF Comes
    <3>4. \A q \in Queries : \A i \in DOMAIN slice'[q] : Comes(slice'[q][i])
      BY <2>0, <2>1 DEF Origin
    <3> QED
      BY <2>7, <3>2, <3>3, <3>4 DEF Origin
  <2>11. TornOnlyByBoth'
    <3> SUFFICES ASSUME Junk \in Range(ips') \/ \E q \in Queries : Junk \in Range(slice'[q])
                 PROVE  \A q \in Queries : ans[q] # <<>>
      BY <2>1 DEF TornOnlyByBoth
    <3>1. CASE Junk \in Range(ips')
      <4>1. PICK i \in DOMAIN ips' : ips'[i] = Junk
        BY <3>1 DEF Range
      <4>2. CASE x = Junk
        BY <2>3, <2>4, <2>5, <4>2, ResolverAssumption DEF Addrs
      <4>3. CASE Junk \in Range(s)
        BY <2>0, <4>3 DEF TornOnlyByBoth, s
      <4> QED
        BY <2>8, <4>1, <4>2, <4>3 DEF Range
    <3>2. ASSUME NEW q \in Queries, Junk \in Range(slice'[q]) PROVE \A r \in Queries : ans[r] # <<>>
      <4>1. q # p
        BY <2>1, <3>2 DEF Range
      <4> QED
        BY <2>0, <2>1, <3>2, <4>1 DEF TornOnlyByBoth
    <3> QED
      BY <3>1, <3>2
  <2> QED
    BY <2>0, <2>1, <2>9, <2>10, <2>11 DEF SliceInv, Fresh
<1>13. ASSUME NEW p \in Queries, AppendEnds(p) PROVE SliceInv'
  <2>1. /\ call = "wait" /\ call' # "self" /\ UNCHANGED <<added, slice, ips>>
        /\ \A q \in Queries : ans[q] = <<>> \/ ans'[q] = ans[q]
        /\ \A q \in Queries : st'[q] = "write" => st[q] = "write"
    BY <1>13 DEF AppendEnds, TypeControl, TypeAppend, Appends
  <2> QED
    BY <2>1, SliceKept DEF Working
<1>14. ASSUME NEW p \in Queries, NEW m \in AllNodes, Advances(p, m) PROVE SliceInv'
  <2>1. UNCHANGED <<call, st, ans, added, slice, ips>>
    BY <1>14 DEF Advances
  <2> QED
    BY <2>1, SliceUnchanged
<1>15. ASSUME NEW p \in Queries, NEW m \in AllNodes, RacerAnswers(p, m) PROVE SliceInv'
  <2>1. UNCHANGED <<call, st, ans, added, slice, ips>>
    BY <1>15 DEF RacerAnswers
  <2> QED
    BY <2>1, SliceUnchanged
<1>16. ASSUME NEW p \in Queries, NEW m \in AllNodes, RacerCancels(p, m) PROVE SliceInv'
  <2>1. UNCHANGED <<call, st, ans, added, slice, ips>>
    BY <1>16 DEF RacerCancels
  <2> QED
    BY <2>1, SliceUnchanged
<1>17. ASSUME NEW p \in Queries, NEW m \in AllNodes, RacerFails(p, m) PROVE SliceInv'
  <2>1. UNCHANGED <<call, st, ans, added, slice, ips>>
    BY <1>17 DEF RacerFails
  <2> QED
    BY <2>1, SliceUnchanged
<1>18. CASE UNCHANGED rvars
  BY <1>18, SliceUnchanged DEF rvars
<1> QED
  BY <1>1, <1>2, <1>3, <1>4, <1>5, <1>6, <1>7, <1>8, <1>9,
     <1>10, <1>11, <1>12, <1>13, <1>14, <1>15, <1>16, <1>17, <1>18, RefreshAdvances
     DEF RStep, ResolverStep, QueryStep

\* The lists of addresses dial tries: none empty, no address twice but the
\* useless one.
Dialable(list) == list # <<>> /\ (Doubled \notin Range(list) => IsInjective(list))
UpOK(r) ==
    /\ "up" \in DOMAIN r /\ r.up \in Seq(Range(r.up))
    /\ "ups" \in DOMAIN r /\ r.ups \in Seq(Range(r.ups))
RulesOK(rules) == rules \in Seq(Range(rules)) /\ \A i \in DOMAIN rules : RuleOK(rules[i])

\* Each way to make the candidates gives such a list.
LEMMA TargetDialable == Dialable(<<Target>>)
<1>1. Len(<<Target>>) = 1 /\ DOMAIN <<Target>> = {1}
  OBVIOUS
<1> QED
  BY <1>1 DEF Dialable, IsInjective

LEMMA DedupeDialable ==
  ASSUME NEW R, NEW s \in Seq(R), s # <<>>
  PROVE  Dialable(dedupeDialCandidates(s))
  BY DedupeResult DEF Dialable

LEMMA UpsOK ==
  ASSUME NEW r, UpOK(r)
  PROVE  Ups(r) \in Seq(Range(Ups(r)))
<1> DEFINE own == [addr |-> Target, name |-> req.host, literal |-> req.literal]
<1> HIDE DEF own
<1>1. Range(<<own>>) = {own} /\ <<own>> \in Seq({own})
  BY DEF Range
<1>2. Ups(r) \in {r.up, r.ups, <<own>>, <<>>}
  BY DEF Ups, resolveRuleUpstream, own
<1>3. <<>> \in Seq(Range(<<>>))
  OBVIOUS
<1> QED
  BY <1>1, <1>2, <1>3, Zenon DEF UpOK

LEMMA UpstreamsDialable ==
  ASSUME NEW r, UpOK(r), Ups(r) # <<>>
  PROVE  Dialable(Upstreams(r))
<1> DEFINE u == Ups(r)
           s == [i \in DOMAIN u |-> u[i].addr]
           R == {u[i].addr : i \in DOMAIN u}
<1>1. u \in Seq(Range(u)) /\ u # <<>>
  BY UpsOK
<1>2. DOMAIN u = 1 .. Len(u) /\ Len(u) \in Nat /\ Len(u) # 0
  BY <1>1
<1> HIDE DEF u
<1>3. s \in [1 .. Len(u) -> R]
  BY <1>2
<1>4. s \in Seq(R) /\ Len(s) = Len(u)
  BY <1>2, <1>3
<1>5. s # <<>>
  BY <1>2, <1>4
<1> HIDE DEF s, R
<1>6. Dialable(dedupeDialCandidates(s))
  BY <1>4, <1>5, DedupeDialable
<1> QED
  BY <1>6 DEF Upstreams, s, u

LEMMA SystemDialable ==
  ASSUME NEW found \in SystemFinds
  PROVE  Dialable(resolveSystemDNS(found, {V4}))
<1>1. found \in Seq(Addrs) /\ found # <<>>
  <2>1. found \in Seq(Addrs)
    BY Replies
  <2>2. <<V4>> # <<>> /\ <<V6>> # <<>> /\ <<V4, V6>> # <<>> /\ <<V4, V4>> # <<>> /\ <<V6, V6>> # <<>>
    OBVIOUS
  <2> QED
    BY <2>1, <2>2, Zenon DEF SystemFinds
<1> DEFINE v4s == dedupeDialCandidates(Only(found, {V4}))
<1>2. IsInjective(v4s)
  BY <1>1, OnlyResult, DedupeResult
<1> HIDE DEF v4s
<1>3. CASE v4s # <<>>
  BY <1>2, <1>3 DEF resolveSystemDNS, Dialable, v4s
<1>4. CASE v4s = <<>>
  <2> DEFINE list == [i \in DOMAIN found |-> Doubled]
  <2>1. resolveSystemDNS(found, {V4}) = list
    BY <1>4 DEF resolveSystemDNS, v4s
  <2>2. 1 \in DOMAIN list /\ list[1] = Doubled
    BY <1>1
  <2>3. Doubled \in Range(list) /\ list # <<>>
    BY <2>2 DEF Range
  <2> QED
    BY <2>1, <2>3 DEF Dialable
<1> QED
  BY <1>3, <1>4

\* The rule merged into the connection is one of the list.
LEMMA BestRuleInList ==
  ASSUME NEW rules, RulesOK(rules), NEW host
  PROVE  BestRule(rules, host) \in 0 .. Len(rules)
<1>1. \A i \in 1 .. Len(rules) : ScoreOf(rules, host, i) \in Int
  <2>1. \A i \in 1 .. Len(rules) : DomainOK(rules[i].domain)
    BY DEF RulesOK, RuleOK
  <2> QED
    BY <2>1, ScoreOfClass DEF ScoreOf
<1> QED
  BY <1>1, BestRuleIsFirstBest DEF FirstBest, RulesOK

LEMMA ManualRuleUp ==
  ASSUME NEW rules, RulesOK(rules), NEW host, NEW mode, BestRule(rules, host) # 0
  PROVE  UpOK(ManualRule(rules, host, mode))
<1> DEFINE r == rules[BestRule(rules, host)]
<1>1. BestRule(rules, host) \in DOMAIN rules
  BY BestRuleInList DEF RulesOK
<1>2. UpOK(r)
  BY <1>1 DEF RulesOK, RuleOK, UpOK
<1> HIDE DEF r
<1>3. UpOK([r EXCEPT !.mode = "direct"])
  BY <1>2 DEF UpOK
<1> QED
  BY <1>2, <1>3 DEF ManualRule, r

LEMMA SyntheticUp ==
  /\ \A mode : UpOK(PlainRule(mode))
  /\ \A auto, isCF : UpOK(CFRule(auto, isCF))
<1>1. \A mode : UpOK(PlainRule(mode))
  BY DEF UpOK, PlainRule
<1>2. UpOK(CloudflareRule)
  BY DEF CloudflareRule, UpOK, PlainRule
<1>3. \A auto : UpOK(BlockedRule(auto))
  BY DEF BlockedRule, UpOK, PlainRule
<1> QED
  BY <1>1, <1>2, <1>3 DEF CFRule

LEMMA Stage2Up ==
  ASSUME UpOK(rule), RulesOK(req.rules)
  PROVE  UpOK(Stage2)
<1> DEFINE upRule == ManualRule(req.rules, UpHost, EffectiveMode)
<1>1. BestRule(req.rules, UpHost) # 0 => UpOK(upRule)
  BY ManualRuleUp
<1> HIDE DEF upRule
<1>2. UpOK(upRule) => UpOK(mergeRule(rule, upRule))
  BY DEF UpOK, mergeRule
<1> QED
  BY <1>1, <1>2 DEF Stage2, upRule

\* The connection's own state.
DecideInv ==
    /\ pc \in {"match", "cf", "matched", "cf2", "staged", "dial", "system", "ready",
               "sent", "panic", "closed"}
    /\ cfCache \in {"none", "yes", "no"}
    /\ pc \in {"match", "cf", "matched", "cf2", "staged"} =>
          "rules" \in DOMAIN req /\ RulesOK(req.rules)
    /\ pc \in {"matched", "cf2", "staged", "dial", "system"} => UpOK(rule)
    /\ pc \in {"ready", "sent", "panic"} => Dialable(cands)

LEMMA NoRulesOK == RulesOK(<<>>)
  BY DEF RulesOK

\* The connection keeps its invariant.
LEMMA DecideInvInit == Init => DecideInv
<1> SUFFICES ASSUME Init PROVE DecideInv
  OBVIOUS
<1>1. RulesOK(req.rules) /\ "rules" \in DOMAIN req
  BY DialAssumption DEF Init, RulesOK
<1> QED
  BY <1>1 DEF Init, DecideInv

LEMMA MatchRuleDecides ==
  ASSUME DecideInv, matchRule
  PROVE  UpOK(rule')
<1> DEFINE global == {"v2ray", "gas"}
<1>1. RulesOK(req.rules)
  BY DEF matchRule, DecideInv
<1>2. \/ \E mode : rule' = PlainRule(mode)
      \/ BestRule(req.rules, req.host) # 0 /\ rule' = ManualRule(req.rules, req.host, req.mode)
      \/ \E auto, isCF : rule' = CFRule(auto, isCF)
  BY DEF matchRule, Matched
<1> QED
  BY <1>1, <1>2, ManualRuleUp, SyntheticUp

\* Candidates that hold an address hold none of them twice.
LEMMA CandidatesNonEmpty ==
  ASSUME TypeAppend, Candidates # <<>>
  PROVE  Dialable(Candidates)
<1> DEFINE s == reorderIPsByDNSMode(ips, rule.dns, {V4})
           R == Addrs \cup {Junk}
<1>1. s \in Seq(R)
  <2>1. ips \in Seq(R) /\ Only(ips, {V4}) \in Seq(R) /\ Only(ips, Range(ips) \ {V4}) \in Seq(R)
    BY OnlyResult DEF TypeAppend
  <2> HIDE DEF R
  <2>2. Only(ips, {V4}) \o Only(ips, Range(ips) \ {V4}) \in Seq(R)
        /\ Only(ips, Range(ips) \ {V4}) \o Only(ips, {V4}) \in Seq(R)
    BY <2>1
  <2> QED
    BY <2>1, <2>2 DEF reorderIPsByDNSMode
<1> HIDE DEF s, R
<1>2. IsInjective(dedupeDialCandidates(s))
  BY <1>1, DedupeResult
<1> QED
  BY <1>2 DEF Candidates, Dialable, s

LEMMA DecideInvStep ==
  ASSUME DecideInv, TypeAppend, [Next]_vars
  PROVE  DecideInv'
<1>1. CASE matchRule
  <2>1. UpOK(rule') /\ pc' = "matched" /\ UNCHANGED <<req, cfCache>> /\ pc = "match"
    BY <1>1, MatchRuleDecides DEF matchRule, Matched
  <2> QED
    BY <2>1 DEF DecideInv
<1>2. CASE IsCloudflareAsks
  <2>1. pc = "match" /\ pc' = "cf" /\ UNCHANGED cfCache /\ req' = [req EXCEPT !.rules = <<>>]
    BY <1>2 DEF IsCloudflareAsks
  <2>2. "rules" \in DOMAIN req' /\ req'.rules = <<>>
    BY <2>1 DEF DecideInv
  <2> QED
    BY <2>1, <2>2, NoRulesOK DEF DecideInv
<1>3. CASE IsCloudflareKnows
  <2>1. pc = "cf" /\ pc' = "matched" /\ UNCHANGED req /\ cfCache' \in {"yes", "no"}
        /\ \E auto, isCF : rule' = CFRule(auto, isCF)
    BY <1>3 DEF IsCloudflareKnows, Matched
  <2> QED
    BY <2>1, SyntheticUp DEF DecideInv
<1>4. CASE buildDialCandidates
  <2>1. pc \in {"matched", "staged"} /\ pc' = "ready" /\ UNCHANGED cfCache /\ rule' = Stage2
    BY <1>4 DEF buildDialCandidates, Ready
  <2>2. UpOK(rule')
    BY <2>1, Stage2Up DEF DecideInv
  <2>3. \/ cands' = <<Target>>
        \/ Fixed(rule') /\ cands' = Upstreams(rule')
        \/ \E top \in PoolIPs : top # <<>> /\ cands' = dedupeDialCandidates(top)
    BY <1>4 DEF buildDialCandidates, Ready
  <2>4. CASE cands' = <<Target>>
    BY <2>1, <2>4, TargetDialable DEF DecideInv
  <2>5. CASE Fixed(rule') /\ cands' = Upstreams(rule')
    <3>1. Dialable(cands')
      BY <2>2, <2>5, UpstreamsDialable DEF Fixed
    <3> QED
      BY <2>1, <3>1 DEF DecideInv
  <2>6. ASSUME NEW top \in PoolIPs, top # <<>>, cands' = dedupeDialCandidates(top) PROVE DecideInv'
    <3>1. top \in Seq(Range(top))
      BY DialAssumption
    <3>2. Dialable(cands')
      BY <2>6, <3>1, DedupeDialable
    <3> QED
      BY <2>1, <3>2 DEF DecideInv
  <2> QED
    BY <2>3, <2>4, <2>5, <2>6
<1>5. CASE CandidatesAsk
  <2>1. pc \in {"matched", "staged"} /\ pc' = "dial" /\ UNCHANGED cfCache /\ rule' = Stage2
    BY <1>5 DEF CandidatesAsk
  <2>2. UpOK(rule')
    BY <2>1, Stage2Up DEF DecideInv
  <2> QED
    BY <2>1, <2>2 DEF DecideInv
<1>6. CASE CandidatesResolved
  <2>1. pc = "dial" /\ UNCHANGED <<rule, cfCache>>
    BY <1>6 DEF CandidatesResolved
  <2>2. CASE pc' = "system"
    BY <2>1, <2>2 DEF DecideInv
  <2>3. CASE pc' = "ready" /\ cands' = Candidates /\ Candidates # <<>>
    <3>1. Dialable(cands')
      BY <2>3, CandidatesNonEmpty
    <3> QED
      BY <2>1, <2>3, <3>1 DEF DecideInv
  <2> QED
    BY <1>6, <2>2, <2>3 DEF CandidatesResolved, Ready
<1>7. CASE CandidatesFallBack
  <2>1. pc = "system" /\ pc' = "ready" /\ UNCHANGED <<rule, cfCache>>
    BY <1>7 DEF CandidatesFallBack, Ready
  <2>2. \/ \E found \in SystemFinds : cands' = resolveSystemDNS(found, {V4})
        \/ Fixed(rule) /\ cands' = Upstreams(rule)
        \/ cands' = <<Target>>
    BY <1>7 DEF CandidatesFallBack, Ready
  <2>3. Fixed(rule) => Dialable(Upstreams(rule))
    BY <2>1, UpstreamsDialable DEF Fixed, DecideInv
  <2>4. Dialable(cands')
    BY <2>2, <2>3, SystemDialable, TargetDialable
  <2> QED
    BY <2>1, <2>4 DEF DecideInv
<1>8. CASE handleTLSFragment
  <2>1. pc = "ready" /\ pc' \in {"panic", "sent"} /\ UNCHANGED <<cands, cfCache>>
    BY <1>8 DEF handleTLSFragment
  <2> QED
    BY <2>1 DEF DecideInv
<1>9. CASE Close
  BY <1>9 DEF Close, DecideInv
<1>10. CASE CacheExpires
  BY <1>10 DEF CacheExpires, DecideInv
<1>11. CASE UNCHANGED dvars
  BY <1>11 DEF dvars, DecideInv
<1>12. CASE Stage2Asks
  <2>1. pc = "matched" /\ pc' = "cf2" /\ UNCHANGED <<rule, cfCache>> /\ req' = [req EXCEPT !.rules = <<>>]
    BY <1>12 DEF Stage2Asks
  <2>2. "rules" \in DOMAIN req' /\ req'.rules = <<>>
    BY <2>1 DEF DecideInv
  <2> QED
    BY <2>1, <2>2, NoRulesOK DEF DecideInv
<1>13. CASE Stage2Knows
  BY <1>13 DEF Stage2Knows, DecideInv
<1> QED
  BY <1>1, <1>2, <1>3, <1>4, <1>5, <1>6, <1>7, <1>8, <1>9, <1>10, <1>11, <1>12, <1>13
     DEF Next, DecideStep, Deadline, Lookup, StoreECH, vars

-----------------------------------------------------------------------------
\* Every step of a connection leaves the resolver alone or is one of its.
LEMMA DialingSteps ==
  ASSUME [Next]_vars
  PROVE  RStep
<1>1. CASE matchRule \/ buildDialCandidates \/ CandidatesFallBack \/ handleTLSFragment
           \/ Close \/ CacheExpires
  BY <1>1 DEF matchRule, buildDialCandidates, CandidatesFallBack, handleTLSFragment, Close,
              CacheExpires, RStep
<1>2. CASE IsCloudflareAsks \/ Stage2Asks \/ CandidatesAsk
  BY <1>2 DEF IsCloudflareAsks, Stage2Asks, CandidatesAsk, RStep
<1>3. CASE IsCloudflareKnows \/ Stage2Knows \/ CandidatesResolved
  BY <1>3 DEF IsCloudflareKnows, Stage2Knows, CandidatesResolved, RStep
<1>4. CASE Deadline \/ Lookup \/ StoreECH
  BY <1>4 DEF Deadline, Lookup, StoreECH, RStep
<1>5. CASE UNCHANGED vars
  BY <1>5 DEF vars, RStep
<1> QED
  BY <1>1, <1>2, <1>3, <1>4, <1>5 DEF Next, DecideStep

\* The inductive invariant.
ResolverInv ==
    /\ TypeControl /\ TypeRace /\ TypeAppend /\ Calls /\ Quiet /\ WinnerSent
    /\ Failures /\ Counted /\ Appends /\ SliceInv
DialingInv == ResolverInv /\ DecideInv

\* The invariant holds at the start and is kept.
LEMMA ResolverInvInit == Init => ResolverInv
<1> SUFFICES ASSUME Init PROVE ResolverInv
  OBVIOUS
<1>0. <<>> \in Seq(Results) /\ <<>> \in Seq(Addrs) /\ <<>> \in Seq(Addrs \cup {Junk}) /\ Len(<<>>) = 0
  OBVIOUS
<1> USE DEF Init, ResolverInit
<1>1. TypeControl
  BY DEF TypeControl, QueryStates
<1>2. TypeRace
  BY <1>0 DEF TypeRace, TaskStates
<1>3. TypeAppend
  BY <1>0 DEF TypeAppend
<1>4. Calls
  BY DEF Calls
<1>5. Quiet
  BY DEF Quiet
<1>6. WinnerSent /\ Failures /\ Counted
  BY DEF WinnerSent, Failures, Counted
<1>7. Appends
  <2>1. \A q \in Queries : ans[q] = <<>> /\ added[q] = 0 /\ Len(ans[q]) = 0 /\ st[q] = "off"
    OBVIOUS
  <2> HIDE DEF Init, ResolverInit
  <2> QED
    BY <2>1 DEF Appends
<1>8. SliceInv
  BY DEF SliceInv, Fresh, Working, Queries
<1> QED
  BY <1>1, <1>2, <1>3, <1>4, <1>5, <1>6, <1>7, <1>8 DEF ResolverInv

LEMMA DialingInvAlways == Spec => []DialingInv
<1>1. Init => DialingInv
  BY ResolverInvInit, DecideInvInit DEF DialingInv
<1>2. DialingInv /\ [Next]_vars => DialingInv'
  <2> SUFFICES ASSUME DialingInv, [Next]_vars PROVE DialingInv'
    OBVIOUS
  <2>1. RStep
    BY DialingSteps
  <2>2. TypeControl' /\ TypeRace' /\ TypeAppend' /\ Calls'
    BY <2>1, StepTypeControl, StepTypeRace, StepTypeAppend, StepCalls DEF DialingInv, ResolverInv
  <2>3. Quiet' /\ WinnerSent' /\ Failures' /\ Counted'
    BY <2>1, StepQuiet, StepWinnerSent, StepFailures, StepCounted DEF DialingInv, ResolverInv
  <2>4. Appends' /\ SliceInv'
    BY <2>1, StepAppends, StepSlice DEF DialingInv, ResolverInv
  <2>5. DecideInv'
    BY DecideInvStep DEF DialingInv, ResolverInv
  <2> QED
    BY <2>2, <2>3, <2>4, <2>5 DEF DialingInv, ResolverInv
<1> QED
  BY <1>1, <1>2, PTL DEF Spec

\* What the invariant implies.
LEMMA TypeHolds == DialingInv => TypeOK
<1> SUFFICES ASSUME DialingInv PROVE TypeOK
  OBVIOUS
<1> USE DEF DialingInv, ResolverInv
<1>1. ASSUME NEW q \in Queries PROVE Len(resChan[q]) <= Len(nodes)
  <2>1. CASE st[q] = "race"
    <3>1. Len(resChan[q]) <= Cardinality(Sent(q)) /\ Cardinality(Sent(q)) <= Len(nodes)
      BY <2>1, RacersFinite DEF Counted
    <3>2. Len(resChan[q]) \in Nat /\ Cardinality(Sent(q)) \in Nat /\ Len(nodes) \in Nat
      BY RacersFinite, ResolverAssumption DEF TypeRace, TypeControl
    <3> QED
      BY <3>1, <3>2
  <2>2. CASE st[q] # "race"
    <3>1. Len(resChan[q]) = 0
      BY <2>2 DEF Quiet
    <3>2. Len(nodes) \in Nat
      BY ResolverAssumption DEF TypeControl
    <3> QED
      BY <3>1, <3>2
  <2> QED
    BY <2>1, <2>2
<1>2. \A q \in Queries : stop[q] \in BOOLEAN
  BY DEF TypeRace
<1>3. \A q \in Queries : st[q] \in QueryStates /\ \A n \in AllNodes : task[q][n] \in TaskStates
  BY DEF TypeControl, TypeRace
<1>4. \A i \in DOMAIN ips : ips[i] \in {V4, V6, Junk}
  BY DEF TypeAppend, Addrs
<1> QED
  BY <1>1, <1>2, <1>3, <1>4 DEF TypeOK, TypeControl, DecideInv, Dialable, QueryStates, TaskStates

LEMMA AnswerWinsHolds == DialingInv => AnswerWins
<1> SUFFICES ASSUME DialingInv, NEW q \in Queries, call = "wait", st[q] = "system", ctx = "live",
                    NEW n \in Range(nodes)
             PROVE  task[q][n] = "failed"
  BY DEF AnswerWins
<1> USE DEF DialingInv, ResolverInv
<1>1. nodes # <<>> /\ n \in {Primary} \cup Racers
  BY NodesOK
<1> QED
  BY <1>1 DEF Failures

LEMMA ResultSurvivesHolds == DialingInv => ResultSurvives
<1> SUFFICES ASSUME DialingInv, call = "returned", \A q \in Queries : st[q] \in {"done", "err"}
             PROVE  /\ \A q \in Queries : Found(Other(q)) = <<>> => ips = Found(q)
                    /\ (\E q \in Queries : Found(q) # <<>>) => ips # <<>>
                    /\ Range(ips) \subseteq Range(Found("A")) \cup Range(Found("AAAA")) \cup {Junk}
                    /\ Junk \in Range(ips) => \A q \in Queries : Found(q) # <<>>
  BY DEF ResultSurvives
<1> USE DEF DialingInv, ResolverInv
<1>1. Alone /\ Origin /\ TornOnlyByBoth
  BY DEF SliceInv, Working
<1>2. \A q \in Queries : Found(q) = ans[q] /\ added[q] = Len(ans[q]) /\ ans[q] \in Seq(Addrs)
  <2> SUFFICES ASSUME NEW q \in Queries
               PROVE  Found(q) = ans[q] /\ added[q] = Len(ans[q]) /\ ans[q] \in Seq(Addrs)
    OBVIOUS
  <2>1. ans[q] \in Seq(Addrs) /\ added[q] \in Nat
    BY DEF TypeAppend
  <2>2. CASE st[q] = "done"
    BY <2>1, <2>2 DEF Appends, Found
  <2>3. CASE st[q] = "err"
    <3>1. ans[q] = <<>> /\ added[q] <= Len(ans[q])
      BY <2>3 DEF Appends
    <3>2. Len(ans[q]) = 0
      BY <3>1
    <3> QED
      BY <2>1, <2>3, <3>1, <3>2 DEF Found
  <2> QED
    BY <2>2, <2>3
<1>3. \A q \in Queries : Other(q) \in Queries
  BY DEF Queries, Other
<1>4. ASSUME NEW q \in Queries, Found(Other(q)) = <<>> PROVE ips = Found(q)
  <2>1. Prefix(ips, q)
    BY <1>1, <1>2, <1>3, <1>4 DEF Alone
  <2>2. ips \in Seq(Addrs \cup {Junk}) /\ ans[q] \in Seq(Addrs) /\ Len(ips) = Len(ans[q])
        /\ \A i \in 1 .. Len(ips) : ips[i] = ans[q][i]
    BY <1>2, <2>1 DEF TypeAppend, Prefix
  <2>3. ips = ans[q]
    BY <2>2
  <2> QED
    BY <1>2, <2>3
<1>5. ASSUME NEW q \in Queries, Found(q) # <<>> PROVE ips # <<>>
  <2>1. added[q] > 0
    BY <1>2, <1>5
  <2> QED
    BY <1>1, <2>1 DEF Origin
<1>6. ASSUME NEW x \in Range(ips) PROVE x \in Range(Found("A")) \cup Range(Found("AAAA")) \cup {Junk}
  <2>1. Comes(x)
    BY <1>1 DEF Origin, Range
  <2> QED
    BY <1>2, <2>1 DEF Comes, Queries
<1>7. Junk \in Range(ips) => \A q \in Queries : Found(q) # <<>>
  BY <1>1, <1>2 DEF TornOnlyByBoth
<1> QED
  BY <1>4, <1>5, <1>6, <1>7

(* ResolveIPAddrs gives no node's answer up for the system's, which is     *)
(* asked only when every node has failed, although exchange's race cancels *)
(* its losers; and                                                         *)
(* the slice to which two goroutines append without a lock keeps the       *)
(* addresses of a query whose peer found none; for every list of nodes.    *)
THEOREM LookupIsSound == Spec => []LookupSound
<1>1. DialingInv => LookupSound
  BY TypeHolds, AnswerWinsHolds, ResultSurvivesHolds DEF LookupSound
<1> QED
  BY <1>1, DialingInvAlways, PTL

\* One list after another.
LEMMA ConcatResult ==
  ASSUME NEW R, NEW s \in Seq(R), NEW t \in Seq(R)
  PROVE  /\ s \o t \in Seq(R) /\ Range(s \o t) = Range(s) \cup Range(t)
         /\ s # <<>> => (s \o t)[1] = s[1]
<1> DEFINE n == Len(s)
           k == Len(t)
           u == s \o t
<1>1. /\ u \in Seq(R) /\ n \in Nat /\ k \in Nat
      /\ DOMAIN s = 1 .. n /\ DOMAIN t = 1 .. k /\ DOMAIN u = 1 .. n + k
      /\ \A i \in 1 .. n : u[i] = s[i]
      /\ \A i \in n + 1 .. n + k : u[i] = t[i - n]
  OBVIOUS
<1>2. s # <<>> => 1 \in 1 .. n
  BY <1>1
<1> HIDE DEF n, k, u
<1>3. ASSUME NEW x \in Range(u) PROVE x \in Range(s) \cup Range(t)
  <2>1. PICK i \in 1 .. n + k : x = u[i]
    BY <1>1 DEF Range
  <2>2. CASE i \in 1 .. n
    BY <1>1, <2>1, <2>2 DEF Range
  <2>3. CASE i \in n + 1 .. n + k
    <3>1. i - n \in 1 .. k /\ x = t[i - n]
      BY <1>1, <2>1, <2>3
    <3> QED
      BY <1>1, <3>1 DEF Range
  <2> QED
    BY <1>1, <2>2, <2>3
<1>4. ASSUME NEW i \in 1 .. n PROVE s[i] \in Range(u)
  BY <1>1, <1>4, SMTT(30) DEF Range
<1>5. ASSUME NEW i \in 1 .. k PROVE t[i] \in Range(u)
  <2>1. n + i \in n + 1 .. n + k /\ n + i \in 1 .. n + k /\ (n + i) - n = i
    BY <1>1
  <2>2. u[n + i] = t[i]
    BY <1>1, <2>1
  <2> QED
    BY <1>1, <2>1, <2>2 DEF Range
<1>6. Range(u) = Range(s) \cup Range(t)
  <2>1. Range(s) = {s[i] : i \in 1 .. n} /\ Range(t) = {t[i] : i \in 1 .. k}
    BY <1>1 DEF Range
  <2>2. \A x \in Range(u) : x \in Range(s) \cup Range(t)
    BY <1>3
  <2>3. \A x \in Range(s) : x \in Range(u)
    BY <1>4, <2>1
  <2>4. \A x \in Range(t) : x \in Range(u)
    BY <1>5, <2>1
  <2> QED
    BY <2>2, <2>3, <2>4
<1>7. s # <<>> => u[1] = s[1]
  BY <1>1, <1>2
<1> QED
  BY <1>1, <1>6, <1>7 DEF u

\* A sequence of one address begins with it.
LEMMA FirstElement ==
  ASSUME NEW R, NEW s \in Seq(R), NEW x, Range(s) = {x}
  PROVE  s # <<>> /\ s[1] = x
<1>1. s # <<>>
  BY DEF Range
<1>2. 1 \in DOMAIN s
  BY <1>1
<1> QED
  BY <1>1, <1>2 DEF Range

\* The candidates obey the rule's DNS mode, and none is dialled twice.
LEMMA CandidatesObeyHolds == DialingInv => CandidatesObey
<1> SUFFICES ASSUME DialingInv PROVE CandidatesObey
  OBVIOUS
<1> USE DEF DialingInv, ResolverInv
<1> DEFINE R == Addrs \cup {Junk}
           v4s == Only(ips, {V4})
           v6s == Only(ips, Range(ips) \ {V4})
           s == reorderIPsByDNSMode(ips, rule.dns, {V4})
           c == Candidates
           seen == Range(ips)
<1>1. ips \in Seq(R)
  BY DEF TypeAppend
<1>2. /\ v4s \in Seq(R) /\ Range(v4s) = seen \cap {V4}
      /\ v6s \in Seq(R) /\ Range(v6s) = seen \ {V4}
  BY <1>1, OnlyResult
<1>3. seen \subseteq R
  BY <1>1 DEF Range
<1>4. /\ rule.dns = "prefer_ipv4" => s = v4s \o v6s
      /\ rule.dns = "prefer_ipv6" => s = v6s \o v4s
      /\ rule.dns = "ipv4_only" => s = v4s
      /\ rule.dns = "ipv6_only" => s = v6s
      /\ rule.dns \notin {"prefer_ipv4", "prefer_ipv6", "ipv4_only", "ipv6_only"} => s = ips
  BY DEF reorderIPsByDNSMode
<1> HIDE DEF R, v4s, v6s, s, seen
<1>5. /\ v4s \o v6s \in Seq(R) /\ Range(v4s \o v6s) = seen
      /\ v4s # <<>> => (v4s \o v6s)[1] = v4s[1]
  <2>1. /\ v4s \o v6s \in Seq(R) /\ Range(v4s \o v6s) = Range(v4s) \cup Range(v6s)
        /\ v4s # <<>> => (v4s \o v6s)[1] = v4s[1]
    BY <1>2, ConcatResult
  <2> QED
    BY <1>2, <2>1
<1>6. /\ v6s \o v4s \in Seq(R) /\ Range(v6s \o v4s) = seen
      /\ v6s # <<>> => (v6s \o v4s)[1] = v6s[1]
  <2>1. /\ v6s \o v4s \in Seq(R) /\ Range(v6s \o v4s) = Range(v6s) \cup Range(v4s)
        /\ v6s # <<>> => (v6s \o v4s)[1] = v6s[1]
    BY <1>2, ConcatResult
  <2> QED
    BY <1>2, <2>1
<1>7. s \in Seq(R)
  BY <1>1, <1>2, <1>4, <1>5, <1>6
<1>8. Range(c) = Range(s) /\ (s # <<>> => c[1] = s[1])
  BY <1>7, DedupeResult DEF Candidates, s
<1>9. ASSUME Junk \notin seen
      PROVE  /\ rule.dns = "ipv4_only" => Range(c) = {V4} \cap seen
             /\ rule.dns = "ipv6_only" => Range(c) = {V6} \cap seen
             /\ rule.dns = "prefer_ipv4" /\ V4 \in seen => c[1] = V4
             /\ rule.dns = "prefer_ipv6" /\ V6 \in seen => c[1] = V6
             /\ rule.dns \notin {"ipv4_only", "ipv6_only"} => Range(c) = seen
  <2>1. seen \ {V4} = {V6} \cap seen
    BY <1>3, <1>9, ResolverAssumption DEF R, Addrs
  <2>2. V4 \in seen => v4s # <<>> /\ v4s[1] = V4
    BY <1>2, FirstElement
  <2>3. V6 \in seen => v6s # <<>> /\ v6s[1] = V6
    BY <1>2, <2>1, FirstElement
  <2>4. rule.dns = "ipv4_only" => Range(c) = {V4} \cap seen
    BY <1>2, <1>4, <1>8
  <2>5. rule.dns = "ipv6_only" => Range(c) = {V6} \cap seen
    BY <1>2, <1>4, <1>8, <2>1
  <2>6. rule.dns = "prefer_ipv4" /\ V4 \in seen => c[1] = V4
    <3>1. V4 \in seen => v4s \o v6s # <<>>
      BY <1>5 DEF Range
    <3> QED
      BY <1>4, <1>5, <1>8, <2>2, <3>1
  <2>7. rule.dns = "prefer_ipv6" /\ V6 \in seen => c[1] = V6
    <3>1. V6 \in seen => v6s \o v4s # <<>>
      BY <1>6 DEF Range
    <3> QED
      BY <1>4, <1>6, <1>8, <2>3, <3>1
  <2>8. rule.dns \notin {"ipv4_only", "ipv6_only"} => Range(c) = seen
    BY <1>4, <1>5, <1>6, <1>8 DEF seen
  <2> QED
    BY <2>4, <2>5, <2>6, <2>7, <2>8
<1>10. (pc \in {"ready", "sent", "panic"} /\ Doubled \notin Range(cands)) => IsInjective(cands)
  BY DEF DecideInv, Dialable
<1> QED
  BY <1>9, <1>10 DEF CandidatesObey, seen

(* What buildDialCandidates hands to the dial holds no address twice, but   *)
(* for the useless ones of resolveSystemDNS; and what                      *)
(* resolveDomainCandidates makes of the resolver's result obeys the rule's *)
(* DNS mode: only the wanted family, or the preferred one first, and no    *)
(* address lost otherwise; for every result of the resolver without a torn *)
(* element and every rule.  The last fall-back to the system's resolver,   *)
(* which ignores the mode, is not spoken of.                               *)
THEOREM CandidatesAreRight == Spec => []CandidatesObey
  BY DialingInvAlways, CandidatesObeyHolds, PTL

-----------------------------------------------------------------------------
(***************************************************************************)
(* The pool whose GetTopIPs gives the candidates for Cloudflare's hosts    *)
(* (CFPool), for every finite set of addresses and every number of callers *)
(* and check goroutines.                                                   *)
(***************************************************************************)
(* While the lock is not leaked, an address with failures has no latency:  *)
(* the only failures so far come from probes, which also erase it.         *)
FailedHasNoLatency ==
  ~leaked => \A i \in IPs : failures[i] > 0 => latencyVal[i] = 0

PoolInv == PoolTypeOK /\ ActiveFollows /\ ActiveSorted /\ FailedHasNoLatency

(* A rebuilt list holds the set it was built from, in order. *)
LEMMA SortedListsAre ==
  ASSUME NEW S \in SUBSET IPs, NEW lat \in [IPs -> Nat], NEW s \in SortedLists(S, lat)
  PROVE  /\ s \in Seq(IPs) /\ Items(s) = S
         /\ \A i, j \in 1..Len(s) : i < j => lat[s[i]] <= lat[s[j]]
<1>1. Cardinality(S) \in Nat
  BY FS_Subset, FS_CardinalityType, PoolAssumption DEF PoolAssumption
<1>2. s \in [1..Cardinality(S) -> S] /\ Items(s) = S
  BY DEF SortedLists
<1>3. Len(s) = Cardinality(S) /\ s \in Seq(IPs)
  BY <1>1, <1>2
<1> QED
  BY <1>2, <1>3 DEF SortedLists

(* What a rebuild from the current statistics establishes. *)
LEMMA Rebuilt ==
  ASSUME NEW all \in SUBSET IPs, NEW lat \in [IPs -> Nat], NEW fail \in [IPs -> Nat],
         allIPs' = all, latencyVal' = lat, failures' = fail,
         activeIPs' \in SortedLists(Healthy(all, lat, fail), lat)
  PROVE  activeIPs' \in Seq(IPs) /\ ActiveFollows' /\ ActiveSorted'
<1> DEFINE S == Healthy(all, lat, fail)
<1>1. S \in SUBSET IPs
  BY DEF Healthy
<1>2. /\ activeIPs' \in Seq(IPs) /\ Items(activeIPs') = S
      /\ \A i, j \in 1..Len(activeIPs') : i < j => lat[activeIPs'[i]] <= lat[activeIPs'[j]]
  BY <1>1, SortedListsAre
<1>3. Healthy(allIPs, latencyVal, failures)' = S
  BY DEF Healthy
<1> HIDE DEF S
<1> QED
  BY <1>2, <1>3 DEF ActiveFollows, ActiveSorted

-----------------------------------------------------------------------------
LEMMA PoolInvInit == PoolInit => PoolInv
<1> SUFFICES ASSUME PoolInit PROVE PoolInv
  OBVIOUS
<1> USE PoolAssumption DEF PoolAssumption
<1>1. PoolTypeOK
  <2>1. spawned \in [{"all", "incremental"} -> Nat]
    BY DEF PoolInit
  <2>2. activeIPs \in Seq(IPs)
    BY DEF PoolInit
  <2>3. failures \in [IPs -> 0..MaxFail] /\ latencyVal \in [IPs -> Nat] /\ due \in [IPs -> Events]
    BY DEF PoolInit, Events
  <2> QED
    BY <2>1, <2>2, <2>3 DEF PoolInit, PoolTypeOK, CheckStates
<1>2. Items(activeIPs) = {} /\ Len(activeIPs) = 0
  BY DEF PoolInit, Items
<1>3. ActiveFollows /\ ActiveSorted /\ FailedHasNoLatency
  BY <1>2 DEF PoolInit, ActiveFollows, ActiveSorted, Healthy, FailedHasNoLatency
<1> QED
  BY <1>1, <1>3 DEF PoolInv

(* Steps that change neither the statistics nor who is to rebuild. *)
LEMMA PoolInvQuiet ==
  ASSUME PoolInv, PoolTypeOK', UNCHANGED statVars, UNCHANGED leaked, PoolSettled' => PoolSettled PROVE PoolInv'
  BY DEF PoolInv, statVars, ActiveFollows, ActiveSorted, FailedHasNoLatency, Healthy

LEMMA PoolInvStep == PoolInv /\ [PoolNext]_poolVars => PoolInv'
<1> SUFFICES ASSUME PoolInv, [PoolNext]_poolVars PROVE PoolInv'
  OBVIOUS
<1> USE PoolAssumption DEF PoolAssumption
<1>0. PoolTypeOK /\ (\A i \in IPs : failures[i] \in Nat)
  BY DEF PoolInv, PoolTypeOK
<1>1. ASSUME NEW listed \in SUBSET IPs, UpdateIPs(listed) PROVE PoolInv'
  <2> DEFINE lat  == [i \in IPs |-> IF i \in listed \cap allIPs THEN latencyVal[i] ELSE 0]
             fail == [i \in IPs |-> IF i \in listed \cap allIPs THEN failures[i] ELSE 0]
  <2>1. lat \in [IPs -> Nat] /\ fail \in [IPs -> 0..MaxFail] /\ fail \in [IPs -> Nat]
    BY <1>0 DEF PoolTypeOK
  <2>2. /\ ~leaked /\ leaked' = leaked /\ allIPs' = listed /\ latencyVal' = lat /\ failures' = fail
        /\ activeIPs' \in SortedLists(Healthy(listed, lat, fail), lat)
    BY <1>1 DEF UpdateIPs
  <2>3. \A i \in IPs : fail[i] > 0 => lat[i] = 0
    BY <2>2 DEF PoolInv, FailedHasNoLatency
  <2>4. due' \in [IPs -> Events] /\ spawned' \in [{"all", "incremental"} -> Nat]
    BY <1>0, <1>1 DEF UpdateIPs, PoolTypeOK, Spawn, Events
  <2> HIDE DEF lat, fail
  <2>5. activeIPs' \in Seq(IPs) /\ ActiveFollows' /\ ActiveSorted'
    BY <2>1, <2>2, Rebuilt
  <2>6. PoolTypeOK'
    BY <1>0, <1>1, <2>1, <2>2, <2>4, <2>5 DEF UpdateIPs, PoolTypeOK, loopVars
  <2>7. FailedHasNoLatency'
    BY <2>2, <2>3 DEF FailedHasNoLatency
  <2> QED
    BY <2>5, <2>6, <2>7 DEF PoolInv
<1>2. ASSUME TriggerHealthCheck PROVE PoolInv'
  <2>1. PoolTypeOK'
    BY <1>0, <1>2 DEF TriggerHealthCheck, PoolTypeOK, Spawn, statVars, loopVars
  <2> QED
    BY <1>2, <2>1, PoolInvQuiet DEF TriggerHealthCheck, PoolSettled
<1>3. ASSUME RemoveInvalidIPs PROVE PoolInv'
  <2>1. PoolTypeOK'
    BY <1>0, <1>3 DEF RemoveInvalidIPs, PoolTypeOK, Events, loopVars
  <2>2. ~PoolSettled'
    BY <1>0, <1>3 DEF RemoveInvalidIPs, PoolTypeOK, PoolSettled
  <2>3. FailedHasNoLatency'
    BY <1>0, <1>3 DEF RemoveInvalidIPs, PoolTypeOK, FailedHasNoLatency, PoolInv
  <2> QED
    BY <2>1, <2>2, <2>3 DEF PoolInv, ActiveFollows, ActiveSorted
<1>4. ASSUME CallerRebuilds PROVE PoolInv'
  <2>1. activeIPs' \in Seq(IPs) /\ ActiveFollows' /\ ActiveSorted'
    BY <1>0, <1>4, Rebuilt DEF CallerRebuilds, RebuildActiveIPs, PoolTypeOK
  <2>2. PoolTypeOK' /\ FailedHasNoLatency'
    BY <1>0, <1>4, <2>1 DEF CallerRebuilds, PoolTypeOK, loopVars, PoolInv, FailedHasNoLatency
  <2> QED
    BY <2>1, <2>2 DEF PoolInv
<1>5. ASSUME NEW i \in IPs, ReportFailure(i) PROVE PoolInv'
  <2>0. /\ Bump(failures[i]) \in 0..MaxFail /\ latencyVal[i] + Penalty \in Nat
        /\ \A c \in {"all", "incremental"} : spawned[c] + 1 \in Nat
        /\ rebuilds + 1 \in Nat
    BY <1>0, SMTT(30) DEF PoolTypeOK, Bump, Penalty
  <2>1. PoolTypeOK'
    <3>1. failures' \in [IPs -> 0..MaxFail]
      BY <1>0, <1>5, <2>0 DEF ReportFailure, PoolTypeOK
    <3>2. latencyVal' \in [IPs -> Nat]
      BY <1>0, <1>5, <2>0 DEF ReportFailure, PoolTypeOK
    <3>3. spawned' \in [{"all", "incremental"} -> Nat]
      BY <1>0, <1>5, <2>0 DEF ReportFailure, PoolTypeOK, Spawn
    <3>4. due' \in [IPs -> Events]
      BY <1>0, <1>5, SMTT(30) DEF ReportFailure, PoolTypeOK, Events
    <3>5. rebuilds' \in Nat
      BY <1>0, <1>5, <2>0 DEF ReportFailure, PoolTypeOK
    <3>6. leaked' \in BOOLEAN
      BY <1>0, <1>5, Zenon DEF ReportFailure, PoolTypeOK
    <3> QED
      BY <1>0, <1>5, <3>1, <3>2, <3>3, <3>4, <3>5, <3>6 DEF ReportFailure, PoolTypeOK, loopVars
  <2>2. CASE i \in allIPs
    BY <1>5, <2>1, <2>2 DEF ReportFailure, PoolInv, ActiveFollows, ActiveSorted, FailedHasNoLatency
  <2>3. CASE i \notin allIPs
    <3>1. UNCHANGED <<failures, latencyVal, leaked>> /\ ~PoolSettled'
      BY <1>0, <1>5, <2>3 DEF ReportFailure, PoolSettled, PoolTypeOK
    <3> QED
      BY <2>1, <3>1 DEF PoolInv, ActiveFollows, ActiveSorted, FailedHasNoLatency
  <2> QED
    BY <2>2, <2>3
<1>6. ASSUME NEW i \in IPs, ReportSuccess(i) PROVE PoolInv'
  <2>1. PoolTypeOK'
    BY <1>0, <1>6 DEF ReportSuccess, PoolTypeOK, loopVars
  <2>2. latencyVal[i] = 0 /\ ~leaked
    BY <1>0, <1>6 DEF ReportSuccess, PoolInv, FailedHasNoLatency
  <2>3. \A j \in IPs : j # i => failures'[j] = failures[j]
    BY <1>0, <1>6 DEF ReportSuccess, PoolTypeOK
  <2>4. Healthy(allIPs, latencyVal, failures)' = Healthy(allIPs, latencyVal, failures)
    BY <1>0, <1>6, <2>2, <2>3 DEF ReportSuccess, Healthy, PoolTypeOK
  <2> QED
    BY <1>6, <2>1, <2>2, <2>3, <2>4
    DEF ReportSuccess, PoolInv, ActiveFollows, ActiveSorted, FailedHasNoLatency, PoolSettled
<1>7. ASSUME NEW c \in {"all", "incremental"}, CheckStarts(c) PROVE PoolInv'
  <2>1. PoolTypeOK'
    BY <1>0, <1>7 DEF CheckStarts, PoolTypeOK, CheckStates, statVars, loopVars
  <2> QED
    BY <1>7, <2>1, PoolInvQuiet DEF CheckStarts, PoolSettled
<1>8. ASSUME CheckSnapshot PROVE PoolInv'
  <2>1. PoolTypeOK'
    BY <1>0, <1>8 DEF CheckSnapshot, PoolTypeOK, CheckStates, statVars, loopVars
  <2> QED
    BY <1>8, <2>1, PoolInvQuiet DEF CheckSnapshot, PoolSettled
<1>9. ASSUME NEW i \in IPs, ProbeReturns(i) PROVE PoolInv'
  <2>1. PoolTypeOK'
    <3>1. Bump(failures[i]) \in 0..MaxFail
      BY <1>0 DEF PoolTypeOK, Bump
    <3>2. failures' \in [IPs -> 0..MaxFail]
      <4>1. \/ failures' = failures
            \/ \E n \in {0, Bump(failures[i])} : failures' = [failures EXCEPT ![i] = n]
        BY <1>9 DEF ProbeReturns
      <4> QED
        BY <1>0, <3>1, <4>1 DEF PoolTypeOK
    <3>3. latencyVal' \in [IPs -> Nat]
      BY <1>0, <1>9 DEF ProbeReturns, PoolTypeOK
    <3> QED
      BY <1>0, <1>9, <3>2, <3>3 DEF ProbeReturns, PoolTypeOK, Events, loopVars
  <2>2. ~PoolSettled'
    BY <1>9 DEF ProbeReturns, PoolSettled
  <2>3. FailedHasNoLatency'
    <3>1. \A j \in IPs : j # i => failures'[j] = failures[j] /\ latencyVal'[j] = latencyVal[j]
      BY <1>0, <1>9 DEF ProbeReturns, PoolTypeOK
    <3>2. \/ failures'[i] = failures[i] /\ latencyVal'[i] = latencyVal[i]
          \/ latencyVal'[i] = 0
          \/ failures'[i] = 0
      BY <1>0, <1>9 DEF ProbeReturns, PoolTypeOK
    <3> QED
      BY <1>9, <3>1, <3>2 DEF ProbeReturns, FailedHasNoLatency, PoolInv
  <2> QED
    BY <2>1, <2>2, <2>3 DEF PoolInv, ActiveFollows, ActiveSorted
<1>10. ASSUME CheckRebuilds PROVE PoolInv'
  <2>1. activeIPs' \in Seq(IPs) /\ ActiveFollows' /\ ActiveSorted'
    BY <1>0, <1>10, Rebuilt DEF CheckRebuilds, RebuildActiveIPs, PoolTypeOK
  <2>2. PoolTypeOK' /\ FailedHasNoLatency'
    BY <1>0, <1>10, <2>1 DEF CheckRebuilds, PoolTypeOK, CheckStates, loopVars, PoolInv, FailedHasNoLatency
  <2> QED
    BY <2>1, <2>2 DEF PoolInv
<1>11. ASSUME CheckEnds PROVE PoolInv'
  <2>1. PoolTypeOK'
    BY <1>0, <1>11 DEF CheckEnds, PoolTypeOK, CheckStates, statVars, loopVars
  <2> QED
    BY <1>11, <2>1, PoolInvQuiet DEF CheckEnds, PoolSettled
<1>12. ASSUME Start \/ Stop \/ LoopStarts \/ LoopEnds \/ StopReturns PROVE PoolInv'
  <2>1. PoolTypeOK'
    <3>1. CASE Start \/ Stop
      BY <1>0, <3>1 DEF Start, Stop, PoolTypeOK, statVars
    <3>2. CASE LoopStarts
      BY <1>0, <3>2 DEF LoopStarts, Spawn, PoolTypeOK, statVars
    <3>3. CASE LoopEnds \/ StopReturns
      BY <1>0, <3>3 DEF LoopEnds, StopReturns, PoolTypeOK, statVars
    <3> QED
      BY <1>12, <3>1, <3>2, <3>3
  <2> QED
    BY <1>12, <2>1, PoolInvQuiet DEF Start, Stop, LoopStarts, LoopEnds, StopReturns, PoolSettled
<1>13. ASSUME UNCHANGED poolVars PROVE PoolInv'
  BY <1>13 DEF poolVars, PoolInv, PoolTypeOK, ActiveFollows, ActiveSorted, PoolSettled, Healthy, FailedHasNoLatency
<1> QED
  BY <1>1, <1>2, <1>3, <1>4, <1>5, <1>6, <1>7, <1>8, <1>9, <1>10, <1>11, <1>12, <1>13
  DEF PoolNext, Caller, Checker

LEMMA PoolInvAlways == PoolSpec => []PoolInv
  BY PoolInvInit, PoolInvStep, PTL DEF PoolSpec

(* The pool's variables keep their types. *)
THEOREM PoolTypeCorrect == PoolSpec => []PoolTypeOK
  BY PoolInvAlways, PTL DEF PoolInv

(* Whatever callers and checks interleave, once nobody is on the way to    *)
(* rebuild it the active list is exactly the set of healthy listed         *)
(* addresses, as long as ReportFailure has not leaked the lock.            *)
THEOREM ActiveIsHealthy == PoolSpec => []ActiveFollows
  BY PoolInvAlways, PTL DEF PoolInv

(* And it is sorted, so that GetTopIPs(1) is the fastest of them. *)
THEOREM ActiveIsSorted == PoolSpec => []ActiveSorted
  BY PoolInvAlways, PTL DEF PoolInv

(* What GetTopIPs reads is sound for any addresses and latencies, however  *)
(* updates, reports, removals and checks interleave.                       *)
THEOREM PoolAlwaysSound == PoolSpec => []PoolSound
  BY PoolTypeCorrect, ActiveIsHealthy, ActiveIsSorted, PTL DEF PoolSound

-----------------------------------------------------------------------------
LEMMA OneCheckStep ==
  ASSUME [PoolNext]_poolVars, check = "probing"
  PROVE  (todo' \subseteq todo /\ check' \in {"probing", "rebuilt"}) \/ UNCHANGED poolVars
<1>1. CASE Caller
  BY <1>1 DEF Caller, UpdateIPs, TriggerHealthCheck, RemoveInvalidIPs, ReportFailure,
              ReportSuccess, Start, Stop
<1>2. CASE Checker
  BY <1>2 DEF Checker, CheckStarts, CheckSnapshot, CheckRebuilds, CheckEnds, ProbeReturns
<1>3. CASE CallerRebuilds \/ LoopStarts \/ LoopEnds \/ StopReturns
  BY <1>3 DEF CallerRebuilds, LoopStarts, LoopEnds, StopReturns
<1> QED
  BY <1>1, <1>2, <1>3 DEF PoolNext

(* However many goroutines are spawned for a check, none disturbs the one  *)
(* that holds checkRunning: only its own probes shrink what it has left to *)
(* probe (cf_pool.go:203-288).                                             *)
THEOREM OneCheckAtATime == PoolSpec => OneCheck
<1>1. [PoolNext]_poolVars => [check = "probing" => /\ todo' \subseteq todo
                                          /\ check' \in {"probing", "rebuilt"}]_poolVars
  BY OneCheckStep
<1> QED
  BY <1>1, PTL DEF PoolSpec, OneCheck
=============================================================================
