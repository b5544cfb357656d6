--------------------------- MODULE GradingProofs ---------------------------
(***************************************************************************)
(* Theorems about grading: worse goods are never graded better, and the    *)
(* grade of a receipt is explained by what is stored with it.              *)
(*                                                                         *)
(* The first needs only the types of the configuration, and two facts      *)
(* about the best and the worst of a set of grades.  The second is about   *)
(* corrections that come one at a time: it needs that a correction in      *)
(* flight still knows the receipt as it is, which is what a second one     *)
(* breaks.                                                                 *)
(***************************************************************************)
EXTENDS Grading, TLAPS, WellFoundedInduction

-----------------------------------------------------------------------------
(* Best and worst of a set of grades.                                      *)

LEMMA LeastExists ==
    ASSUME NEW S \in SUBSET Nat, S # {}
    PROVE  \E n \in S : \A m \in S : n <= m
<1>1. PICK n \in S : \A m \in S : <<m, n>> \notin OpToRel(<, Nat)
    BY NatLessThanWellFounded, WFMin
<1>2. SUFFICES ASSUME NEW m \in S PROVE n <= m
    OBVIOUS
<1>3. ~ (m < n)
    BY <1>1 DEF OpToRel
<1>. QED  BY <1>3

LEMMA BestIsLeast ==
    ASSUME NEW S \in SUBSET Nat, S # {}
    PROVE  Best(S) \in S /\ \A m \in S : Best(S) <= m
<1>1. \E n \in S : \A m \in S : n <= m
    BY LeastExists
<1>. QED  BY <1>1 DEF Best

(* The distances to a bound have a least, so what is bounded has a worst.  *)
LEMMA WorstIsGreatest ==
    ASSUME NEW n \in Nat, NEW S \in SUBSET (0..n), S # {}
    PROVE  Worst(S) \in S /\ \A m \in S : m <= Worst(S)
<1>. DEFINE distances == {n - m : m \in S}
<1>1. distances \in SUBSET Nat /\ distances # {}
    <2>1. \A m \in S : n - m \in Nat
        OBVIOUS
    <2>. QED  BY <2>1
<1>2. PICK d \in distances : \A e \in distances : d <= e
    BY <1>1, LeastExists
<1>3. PICK g \in S : d = n - g
    OBVIOUS
<1>4. \A m \in S : m <= g
    BY <1>2, <1>3
<1>. QED  BY <1>4 DEF Worst

-----------------------------------------------------------------------------
(* The types a configuration keeps, with the thresholds of an addParameter *)
(* that has read the commodity and is about to insert.                     *)
ConfigTyped ==
    /\ numberOfGrades \in Grade
    /\ template \in [Parameter -> Row \cup {NoParameter}]
    /\ \A c \in Call : call[c].op = "addParameter" =>
          call[c].p \in Parameter /\ call[c].thresholds \in Thresholds

Config == DOMAIN call = Call /\ ConfigTyped

(* A handler is left alone, starts with a new record, or ends.             *)
LEMMA ConfigStep == Config /\ [Next]_vars => Config'
<1>. SUFFICES ASSUME Config, [Next]_vars PROVE Config'
    OBVIOUS
<1>. USE DEF Config, ConfigTyped
<1>1. ASSUME NEW p \in Parameter, NEW thresholds \in Thresholds, NEW c \in Call,
             AddLoad(c, p, thresholds)
      PROVE  Config'
    BY <1>1 DEF AddLoad, Begin, config
<1>2. ASSUME NEW p \in Parameter, NEW thresholds \in Thresholds,
             Upsert(p, thresholds) \/ Update(p, thresholds)
      PROVE  Config'
    BY <1>2 DEF Upsert, Update, Row
<1>3. ASSUME NEW p \in Parameter, NEW q \in Parameter, Rename(p, q)
      PROVE  Config'
    BY <1>3 DEF Rename
<1>4. ASSUME NEW p \in Parameter, Delete(p)
      PROVE  Config'
    BY <1>4 DEF Delete
<1>5. ASSUME NEW n \in Grade, UpdateCommodity(n)
      PROVE  Config'
    BY <1>5 DEF UpdateCommodity
<1>6. ASSUME NEW c \in Call, AddCreate(c)
      PROVE  Config'
    <2>1. [thresholds |-> call[c].thresholds] \in Row /\ call[c].p \in Parameter
        BY <1>6 DEF AddCreate, At, Row
    <2>2. template' \in [Parameter -> Row \cup {NoParameter}]
        BY <2>1, <1>6 DEF AddCreate
    <2>. QED  BY <2>2, <1>6 DEF AddCreate, Return, Idle
<1>7. ASSUME NEW c \in Call, NEW grade, NEW scores,
             CreateLoad(c, scores, grade) \/ EditLoad(c, scores, grade)
      PROVE  Config'
    BY <1>7 DEF CreateLoad, EditLoad, Begin, config
<1>8. ASSUME NEW c \in Call, CreateDeposit(c) \/ EditWrite(c) \/ Abort(c)
      PROVE  Config'
    BY <1>8 DEF CreateDeposit, EditWrite, Abort, Abandon, Return, Idle, config
<1>9. CASE UNCHANGED vars
    BY <1>9 DEF vars
<1>. QED  BY <1>1, <1>2, <1>3, <1>4, <1>5, <1>6, <1>7, <1>8, <1>9 DEF Next

-----------------------------------------------------------------------------
(* A value that is not worse is admitted by no fewer grades.               *)
LEMMA GradeIsMonotone ==
    ASSUME GradingAssumption, NEW thresholds \in Thresholds, NEW n \in Grade,
           NEW v \in Measure, NEW w \in Measure, v <= w,
           AssignedGrade(thresholds, w, n) # Rejected
    PROVE  /\ AssignedGrade(thresholds, v, n) \in Grade
           /\ AssignedGrade(thresholds, w, n) \in Grade
           /\ AssignedGrade(thresholds, v, n) <= AssignedGrade(thresholds, w, n)
<1>. DEFINE admits(x) == Admitting(thresholds, x, n)
<1>1. PICK labels \in SUBSET Grade : thresholds \in [labels -> Measure]
    BY DEF Thresholds
<1>2. DOMAIN thresholds = labels /\ \A g \in labels : thresholds[g] \in Measure
    BY <1>1
<1>3. admits(w) \subseteq admits(v)
    BY <1>2 DEF Admitting, Measure, GradingAssumption
<1>4. admits(w) # {} /\ admits(v) # {}
    BY <1>3 DEF AssignedGrade
<1>5. admits(v) \subseteq Grade /\ admits(w) \subseteq Grade /\ Grade \subseteq Nat
    BY <1>2 DEF Admitting, Grade, GradingAssumption
<1>6. /\ Best(admits(v)) \in admits(v) /\ \A g \in admits(v) : Best(admits(v)) <= g
      /\ Best(admits(w)) \in admits(w)
    BY <1>4, <1>5, BestIsLeast
<1>7. /\ AssignedGrade(thresholds, v, n) = Best(admits(v))
      /\ AssignedGrade(thresholds, w, n) = Best(admits(w))
    BY <1>4 DEF AssignedGrade
<1>. QED  BY <1>3, <1>5, <1>6, <1>7

(* So the grade of goods, the worst over the same parameters, is no worse. *)
LEMMA ConfigGradesFairly == GradingAssumption /\ Config => WorseNeverGradesBetter
<1>. SUFFICES ASSUME GradingAssumption, Config,
                     NEW good \in Sample(template), NEW bad \in Sample(template),
                     \A p \in Configured(template) : good[p] <= bad[p]
              PROVE  NoBetter(
                  ComputedGrade(PerParameter(template, numberOfGrades, bad)),
                  ComputedGrade(PerParameter(template, numberOfGrades, good)))
    BY DEF WorseNeverGradesBetter
<1>. DEFINE scores(measured) == PerParameter(template, numberOfGrades, measured)
            grades(measured) == {scores(measured)[p] : p \in Configured(template)}
<1>1. \A measured : DOMAIN scores(measured) = Configured(template)
    BY DEF PerParameter
<1>2. \A measured : ComputedGrade(scores(measured)) =
          IF Rejected \in grades(measured) THEN Rejected
          ELSE Worst(grades(measured) \cup {1})
    BY <1>1 DEF ComputedGrade
<1>3. CASE Rejected \in grades(bad)
    BY <1>2, <1>3 DEF NoBetter
<1>4. CASE Rejected \notin grades(bad)
    <2>1. \A p \in Configured(template) :
              /\ scores(bad)[p] \in Grade
              /\ scores(good)[p] \in Grade
              /\ scores(good)[p] <= scores(bad)[p]
        <3>. SUFFICES ASSUME NEW p \in Configured(template)
                      PROVE  /\ scores(bad)[p] \in Grade
                             /\ scores(good)[p] \in Grade
                             /\ scores(good)[p] <= scores(bad)[p]
            OBVIOUS
        <3>1. template[p].thresholds \in Thresholds
            BY DEF Config, ConfigTyped, Configured, Row
        <3>2. good[p] \in Measure /\ bad[p] \in Measure /\ good[p] <= bad[p]
            BY DEF Sample
        <3>3. /\ scores(bad)[p] =
                    AssignedGrade(template[p].thresholds, bad[p], numberOfGrades)
              /\ scores(good)[p] =
                    AssignedGrade(template[p].thresholds, good[p], numberOfGrades)
            BY DEF PerParameter
        <3>4. scores(bad)[p] # Rejected
            BY <1>4
        <3>. QED  BY <3>1, <3>2, <3>3, <3>4, GradeIsMonotone DEF Config, ConfigTyped
    <2>2. Rejected \notin grades(good)
        BY <2>1 DEF Grade, Rejected, GradingAssumption
    <2>3. /\ grades(bad) \cup {1} \in SUBSET (0..(MaxGrades + 1))
          /\ grades(good) \cup {1} \in SUBSET (0..(MaxGrades + 1))
        BY <2>1 DEF Grade, GradingAssumption
    <2>4. MaxGrades + 1 \in Nat
        BY DEF GradingAssumption
    <2>5. /\ Worst(grades(good) \cup {1}) \in grades(good) \cup {1}
          /\ Worst(grades(bad) \cup {1}) \in grades(bad) \cup {1}
          /\ \A g \in grades(bad) \cup {1} : g <= Worst(grades(bad) \cup {1})
        BY <2>3, <2>4, WorstIsGreatest
    <2>6. Worst(grades(good) \cup {1}) <= Worst(grades(bad) \cup {1})
        <3>1. CASE Worst(grades(good) \cup {1}) = 1
            BY <3>1, <2>5
        <3>2. ASSUME NEW p \in Configured(template),
                     Worst(grades(good) \cup {1}) = scores(good)[p]
              PROVE  Worst(grades(good) \cup {1}) <= Worst(grades(bad) \cup {1})
            <4>1. scores(bad)[p] <= Worst(grades(bad) \cup {1})
                BY <2>5
            <4>2. Worst(grades(bad) \cup {1}) \in Nat
                BY <2>3, <2>5
            <4>. HIDE DEF scores, grades
            <4>. QED  BY <4>1, <4>2, <3>2, <2>1 DEF Grade, GradingAssumption
        <3>. QED  BY <3>1, <3>2, <2>5
    <2>7. /\ ComputedGrade(scores(bad)) = Worst(grades(bad) \cup {1})
          /\ ComputedGrade(scores(good)) = Worst(grades(good) \cup {1})
        BY <1>2, <1>4, <2>2
    <2>8. Worst(grades(good) \cup {1}) # Rejected
        BY <2>5, <2>2 DEF Rejected
    <2>. QED  BY <2>6, <2>7, <2>8 DEF NoBetter
<1>. QED  BY <1>3, <1>4

(* However the configuration of a commodity is written, whatever is in     *)
(* flight, goods that measure worse in every parameter are never graded    *)
(* better (scoreSample).                                                   *)
THEOREM GradingIsMonotone ==
    ASSUME GradingAssumption
    PROVE  Spec => []WorseNeverGradesBetter
<1>1. Init => Config
    BY DEF Init, Config, ConfigTyped, Idle
<1>2. Config /\ [Next]_vars => Config'
    BY ConfigStep
<1>3. Config => WorseNeverGradesBetter
    BY ConfigGradesFairly
<1>. QED  BY <1>1, <1>2, <1>3, PTL DEF Spec

-----------------------------------------------------------------------------
(* A receipt and the correction on its way to it.                          *)
Column == {"scores", "computedGrade", "grade", "manual"}

Explained ==
    /\ DOMAIN call = Call
    /\ deposit # NoDeposit => DOMAIN deposit = Column
    /\ GradesExplained
    /\ \A c \in Call : call[c].op = "editDeposit" =>
          deposit # NoDeposit /\ call[c].read = deposit

(* Steps that leave receipt and entries alone, and begin no correction.    *)
Aside ==
    /\ UNCHANGED <<deposit, log>>
    /\ DOMAIN call' = DOMAIN call
    /\ \A c \in Call : call'[c] = call[c] \/ call'[c].op # "editDeposit"

LEMMA AsideKeeps == Explained /\ Aside => Explained'
BY DEF Explained, Aside, GradesExplained

(* What a correction writes, when it knows the receipt as it is.           *)
LEMMA CorrectionExplains ==
    ASSUME NEW c \in Call, Explained, EditWrite(c)
    PROVE  /\ deposit' # NoDeposit
           /\ DOMAIN deposit' = Column
           /\ GradesExplained'
<1>. DEFINE read == call[c].read
            scores == call[c].scores
            asked == call[c].grade
            grade == NextGrade(read, scores, asked)
            computed == NextComputed(read, scores, asked)
<1>1. read = deposit /\ deposit # NoDeposit /\ DOMAIN deposit = Column
    BY DEF Explained, EditWrite, At
<1>2. CASE scores = NoScores /\ grade = read.grade
    <2>1. UNCHANGED <<deposit, log>>
        BY <1>2 DEF EditWrite
    <2>. QED  BY <1>1, <2>1 DEF Explained, GradesExplained
<1>3. CASE ~ (scores = NoScores /\ grade = read.grade)
    <2>1. /\ deposit' = [deposit EXCEPT
                !.scores = IF scores = NoScores THEN @ ELSE scores,
                !.computedGrade = computed,
                !.grade = grade]
          /\ log' = log \cup {[gradeOverridden |-> Chosen(asked)]}
        BY <1>1, <1>3 DEF EditWrite
    <2>2. /\ DOMAIN deposit' = Column
          /\ deposit'.scores = IF scores = NoScores THEN deposit.scores ELSE scores
          /\ deposit'.computedGrade = computed
          /\ deposit'.grade = grade
          /\ deposit'.manual = deposit.manual
        BY <1>1, <2>1 DEF Column
    <2>3. deposit' # NoDeposit
        <3>1. "row" \in DOMAIN NoDeposit /\ "row" \notin Column
            BY DEF NoDeposit, Column
        <3>. QED  BY <3>1, <2>2
    <2>4. computed = ComputedGrade(deposit'.scores)
        BY <1>1, <2>2 DEF NextComputed, Explained, GradesExplained
    <2>5. Chosen(asked) => \E entry \in log' : entry.gradeOverridden
        <3>. SUFFICES ASSUME Chosen(asked)
                      PROVE  \E entry \in log' : entry.gradeOverridden
            OBVIOUS
        <3>1. [gradeOverridden |-> TRUE] \in log'
            BY <2>1, Chosen(asked) = TRUE DEF Chosen
        <3>2. [gradeOverridden |-> TRUE].gradeOverridden
            OBVIOUS
        <3>. HIDE DEF asked
        <3>. QED  BY <3>1, <3>2, Zenon
    <2>6. ~Chosen(asked) => grade \in {computed, Blank}
        BY <1>1, <1>3 DEF NextGrade, NextComputed, Given, Chosen
    <2>. QED  BY <2>2, <2>3, <2>4, <2>5, <2>6 DEF GradesExplained
<1>. QED  BY <1>1, <1>2, <1>3

(* With one handler, every step keeps the explanation.                     *)
LEMMA ExplainedStep ==
    ASSUME NEW solo, Call = {solo}
    PROVE  Explained /\ [Next]_vars => Explained'
<1>. SUFFICES ASSUME Explained, [Next]_vars PROVE Explained'
    OBVIOUS
<1>1. ASSUME NEW c \in Call, NEW p, NEW thresholds, AddLoad(c, p, thresholds)
      PROVE  Aside
    BY <1>1 DEF AddLoad, Begin, Aside, Explained
<1>2. ASSUME NEW p, NEW q, NEW thresholds, NEW n,
             \/ Upsert(p, thresholds) \/ Update(p, thresholds)
             \/ Rename(p, q) \/ Delete(p) \/ UpdateCommodity(n)
      PROVE  Aside
    BY <1>2 DEF Upsert, Update, Rename, Delete, UpdateCommodity, Change, Aside
<1>3. ASSUME NEW c \in Call, NEW scores, NEW grade, CreateLoad(c, scores, grade)
      PROVE  Aside
    BY <1>3 DEF CreateLoad, Begin, Aside, Explained
<1>4. ASSUME NEW c \in Call, AddCreate(c) \/ Abort(c)
      PROVE  Aside
    BY <1>4 DEF AddCreate, Change, Abort, Abandon, Return, Idle, Aside, Explained
<1>5. CASE UNCHANGED vars
    BY <1>5, AsideKeeps DEF vars, Aside
<1>6. ASSUME NEW c \in Call, NEW scores, NEW grade, EditLoad(c, scores, grade)
      PROVE  Explained'
    BY <1>6 DEF EditLoad, Begin, Explained, GradesExplained
<1>7. ASSUME NEW c \in Call, CreateDeposit(c)
      PROVE  Explained'
    <2>1. /\ DOMAIN deposit' = Column
          /\ deposit'.computedGrade = ComputedGrade(deposit'.scores)
          /\ deposit'.grade \notin {deposit'.computedGrade, Blank} => deposit'.manual
        BY <1>7 DEF CreateDeposit, Given, Chosen, Column
    <2>2. DOMAIN call' = Call /\ call'[c] = Idle
        BY <1>7 DEF CreateDeposit, Return, Explained
    <2>. QED  BY <2>1, <2>2 DEF Explained, GradesExplained, Idle
<1>8. ASSUME NEW c \in Call, EditWrite(c)
      PROVE  Explained'
    <2>1. DOMAIN call' = Call /\ call'[c] = Idle
        BY <1>8 DEF EditWrite, Return, Explained
    <2>. QED  BY <2>1, <1>8, CorrectionExplains DEF Explained, Idle
<1>. QED  BY <1>1, <1>2, <1>3, <1>4, <1>5, <1>6, <1>7, <1>8, AsideKeeps DEF Next

(* While requests come one at a time, the computed grade of a receipt is   *)
(* the worst of the scores stored with it, however it was corrected, and   *)
(* another grade has somebody who chose it, unless it is the empty string, *)
(* which a request may store and nobody answers for (createDeposit,        *)
(* applyDepositEdit).                                                      *)
THEOREM ReceiptGradesAreExplained ==
    ASSUME NEW solo, Call = {solo}
    PROVE  Spec => []GradesExplained
<1>1. Init => Explained
    BY DEF Init, Explained, GradesExplained, Idle
<1>2. Explained /\ [Next]_vars => Explained'
    BY ExplainedStep
<1>3. Explained => GradesExplained
    BY DEF Explained
<1>. QED  BY <1>1, <1>2, <1>3, PTL DEF Spec

-----------------------------------------------------------------------------
(* Receipts keep their types: what a handler carries to one is of its      *)
(* type, and a receipt that is corrected is there.  A request asks for a   *)
(* grade, for none, or for the empty one.                                  *)
Asked == Grade \cup {NoGrade, Blank}

ReceiptTyped ==
    /\ Config /\ TypeOK
    /\ \A c \in Call :
          /\ call[c].op \in {"createDeposit", "editDeposit"} =>
                call[c].scores \in Scores /\ call[c].grade \in Asked
          /\ call[c].op = "editDeposit" => call[c].read \in Receipt /\ deposit # NoDeposit

(* The grade of scores without a rejection is a grade.                     *)
LEMMA ComputedIsGrade ==
    ASSUME GradingAssumption, NEW n \in Grade, NEW scores \in Scores
    PROVE  ComputedGrade(scores) \in Grade
<1>. DEFINE grades == {scores[p] : p \in DOMAIN scores}
<1>0. MaxGrades \in Nat /\ n \in 1..MaxGrades
    BY DEF GradingAssumption, Grade
<1>1. 1 \in Grade /\ Rejected \notin Grade
    BY <1>0 DEF Grade, Rejected
<1>2. PICK names \in SUBSET Parameter : scores \in [names -> Grade]
    BY DEF Scores
<1>3. grades \subseteq Grade
    BY <1>2
<1>4. grades \cup {1} \in SUBSET (0..MaxGrades) /\ grades \cup {1} # {}
    BY <1>0, <1>1, <1>3 DEF Grade
<1>5. Rejected \notin grades
    BY <1>1, <1>3
<1>. HIDE DEF grades
<1>6. Worst(grades \cup {1}) \in grades \cup {1}
    BY <1>0, <1>4, WorstIsGreatest
<1>7. Worst(grades \cup {1}) \in Grade
    BY <1>1, <1>3, <1>6
<1>. QED  BY <1>5, <1>7 DEF ComputedGrade, grades

(* Goods that pass have a grade for every parameter.                       *)
LEMMA PassingIsScored ==
    ASSUME GradingAssumption, Config, NEW scores \in Passing(template, numberOfGrades)
    PROVE  scores \in Scores
<1>1. PICK measured \in Sample(template) :
          scores = PerParameter(template, numberOfGrades, measured)
    BY DEF Passing
<1>2. DOMAIN scores = Configured(template) /\ Configured(template) \subseteq Parameter
    BY <1>1 DEF PerParameter, Configured
<1>3. ASSUME NEW p \in Configured(template)
      PROVE  scores[p] \in Grade
    <2>. DEFINE admitted == Admitting(template[p].thresholds, measured[p], numberOfGrades)
    <2>1. scores[p] = AssignedGrade(template[p].thresholds, measured[p], numberOfGrades)
        BY <1>1, <1>3 DEF PerParameter
    <2>2. scores[p] # Rejected
        <3>1. ComputedGrade(scores) # Rejected
            BY DEF Passing
        <3>. QED  BY <1>2, <1>3, <3>1 DEF ComputedGrade
    <2>3. admitted # {} /\ scores[p] = Best(admitted)
        BY <2>1, <2>2 DEF AssignedGrade
    <2>4. admitted \subseteq Grade /\ Grade \subseteq Nat
        BY DEF Admitting, Config, ConfigTyped, Grade, GradingAssumption
    <2>. HIDE DEF admitted
    <2>5. Best(admitted) \in admitted
        BY <2>3, <2>4, BestIsLeast
    <2>. QED  BY <2>3, <2>4, <2>5
<1>4. scores \in [Configured(template) -> Grade]
    <2>1. scores = [p \in Configured(template) |-> scores[p]]
        BY <1>1 DEF PerParameter
    <2>. QED  BY <1>3, <2>1
<1>. QED  BY <1>2, <1>4 DEF Scores

LEMMA TypesStep ==
    ASSUME GradingAssumption, ReceiptTyped, [Next]_vars
    PROVE  ReceiptTyped'
<1>t. /\ Config /\ Config' /\ TypeOK /\ changes \in 0..MaxChange /\ MaxChange \in Nat
      /\ deposit \in Receipt \cup {NoDeposit} /\ log \subseteq [gradeOverridden : BOOLEAN]
      /\ DOMAIN call = Call
    BY ConfigStep DEF ReceiptTyped, TypeOK, GradingAssumption, Config
<1>s. NoScores \in Scores
    <2>1. NoScores \in [{} -> Grade]
        BY DEF NoScores
    <2>2. {} \in SUBSET Parameter
        OBVIOUS
    <2>. QED  BY <2>1, <2>2 DEF Scores
(* Receipt and entries stay, and a handler begins or ends something else. *)
<1>a. ASSUME UNCHANGED <<deposit, log>>, changes' \in 0..MaxChange,
             \A c \in Call : call'[c] = call[c] \/ call'[c].op \in {"idle", "addParameter"}
      PROVE  ReceiptTyped'
    <2>1. TypeOK'
        BY <1>a, <1>t DEF ReceiptTyped, TypeOK, Config, ConfigTyped
    <2>2. \A c \in Call :
             /\ call'[c].op \in {"createDeposit", "editDeposit"} =>
                   call'[c].scores \in Scores /\ call'[c].grade \in Asked
             /\ call'[c].op = "editDeposit" => call'[c].read \in Receipt /\ deposit' # NoDeposit
        BY <1>a DEF ReceiptTyped
    <2>. QED  BY <1>t, <2>1, <2>2 DEF ReceiptTyped, NoDeposit
(* A handler takes up receipt and scores. *)
<1>b. ASSUME NEW c \in Call, NEW y, call' = [call EXCEPT ![c] = y],
             UNCHANGED <<deposit, log, changes>>,
             y.op \in {"createDeposit", "editDeposit"},
             y.scores \in Scores, y.grade \in Asked,
             y.op = "editDeposit" => y.read \in Receipt /\ deposit # NoDeposit
      PROVE  ReceiptTyped'
    <2>1. call'[c] = y /\ \A d \in Call \ {c} : call'[d] = call[d]
        BY <1>b, <1>t
    <2>2. TypeOK'
        BY <1>b, <1>t, <2>1 DEF ReceiptTyped, TypeOK, Config, ConfigTyped
    <2>3. \A d \in Call :
             /\ call'[d].op \in {"createDeposit", "editDeposit"} =>
                   call'[d].scores \in Scores /\ call'[d].grade \in Asked
             /\ call'[d].op = "editDeposit" => call'[d].read \in Receipt /\ deposit' # NoDeposit
        BY <1>b, <2>1 DEF ReceiptTyped
    <2>. QED  BY <1>t, <2>2, <2>3 DEF ReceiptTyped, NoDeposit
(* A handler writes the receipt and is done. *)
<1>w. ASSUME NEW c \in Call, call' = [call EXCEPT ![c] = Idle],
             deposit' \in Receipt, log' \subseteq [gradeOverridden : BOOLEAN], UNCHANGED changes
      PROVE  ReceiptTyped'
    <2>1. call'[c].op = "idle" /\ \A d \in Call \ {c} : call'[d] = call[d]
        BY <1>w, <1>t DEF Idle
    <2>2. deposit' # NoDeposit
        <3>1. "row" \in DOMAIN NoDeposit /\ \A r \in Receipt : "row" \notin DOMAIN r
            BY DEF NoDeposit, Receipt
        <3>. QED  BY <1>w, <3>1
    <2>3. TypeOK'
        BY <1>w, <1>t, <2>1 DEF ReceiptTyped, TypeOK, Config, ConfigTyped
    <2>4. \A d \in Call :
             /\ call'[d].op \in {"createDeposit", "editDeposit"} =>
                   call'[d].scores \in Scores /\ call'[d].grade \in Asked
             /\ call'[d].op = "editDeposit" => call'[d].read \in Receipt
        BY <2>1 DEF ReceiptTyped
    <2>. QED  BY <1>t, <2>2, <2>3, <2>4 DEF ReceiptTyped, NoDeposit
<1>1. ASSUME NEW c \in Call, NEW p, NEW thresholds, AddLoad(c, p, thresholds)
      PROVE  ReceiptTyped'
    BY <1>1, <1>a, <1>t DEF AddLoad, Begin
<1>2. ASSUME NEW p, NEW q, NEW thresholds, NEW n,
             \/ Upsert(p, thresholds) \/ Update(p, thresholds)
             \/ Rename(p, q) \/ Delete(p) \/ UpdateCommodity(n)
      PROVE  ReceiptTyped'
    <2>1. Change /\ UNCHANGED call
        BY <1>2 DEF Upsert, Update, Rename, Delete, UpdateCommodity
    <2>. QED  BY <1>a, <1>t, <2>1 DEF Change
<1>3. ASSUME NEW c \in Call, AddCreate(c) \/ Abort(c)
      PROVE  ReceiptTyped'
    <2>1. /\ call' = [call EXCEPT ![c] = Idle] /\ UNCHANGED <<deposit, log>>
          /\ changes' = changes \/ (changes < MaxChange /\ changes' = changes + 1)
        BY <1>3 DEF AddCreate, Abort, Abandon, Return, Change
    <2>2. changes' \in 0..MaxChange
        BY <1>t, <2>1
    <2>. QED  BY <1>a, <1>t, <2>1, <2>2 DEF Idle
<1>4. ASSUME NEW c \in Call, NEW grade \in Asked,
             NEW scores \in Passing(template, numberOfGrades) \cup {NoScores},
             CreateLoad(c, scores, grade) \/ EditLoad(c, scores, grade)
      PROVE  ReceiptTyped'
    <2>1. scores \in Scores
        BY <1>s, <1>t, PassingIsScored
    <2>2. CASE CreateLoad(c, scores, grade)
        <3>. DEFINE y == [op |-> "createDeposit", step |-> "deposit", scores |-> scores,
                          grade |-> grade]
        <3>1. call' = [call EXCEPT ![c] = y] /\ UNCHANGED <<deposit, log, changes>>
            BY <2>2 DEF CreateLoad, Begin
        <3>2. y.op = "createDeposit" /\ y.scores = scores /\ y.grade = grade
            OBVIOUS
        <3>. HIDE DEF y
        <3>. QED  BY <1>b, <2>1, <3>1, <3>2
    <2>3. CASE EditLoad(c, scores, grade)
        <3>. DEFINE y == [op |-> "editDeposit", step |-> "update", read |-> deposit,
                          scores |-> scores, grade |-> grade]
        <3>1. /\ call' = [call EXCEPT ![c] = y] /\ UNCHANGED <<deposit, log, changes>>
              /\ deposit # NoDeposit
            BY <2>3 DEF EditLoad, Begin
        <3>2. y.op = "editDeposit" /\ y.scores = scores /\ y.grade = grade /\ y.read = deposit
            OBVIOUS
        <3>. HIDE DEF y
        <3>. QED  BY <1>b, <1>t, <2>1, <3>1, <3>2
    <2>. QED  BY <1>4, <2>2, <2>3
<1>g. \A scores \in Scores : ComputedGrade(scores) \in Grade
    BY <1>t, ComputedIsGrade DEF Config, ConfigTyped
<1>5. ASSUME NEW c \in Call, CreateDeposit(c)
      PROVE  ReceiptTyped'
    <2>. DEFINE scores == call[c].scores
    <2>1. scores \in Scores /\ call[c].grade \in Asked
        BY <1>5 DEF CreateDeposit, At, ReceiptTyped
    <2>2. /\ Given(call[c].grade, ComputedGrade(scores)) \in Grade \cup {Blank}
          /\ Chosen(call[c].grade) \in BOOLEAN
        BY <1>g, <2>1 DEF Given, Chosen, Asked
    <2>3. deposit' \in Receipt
        BY <1>5, <1>g, <2>1, <2>2 DEF CreateDeposit, Receipt
    <2>. QED  BY <1>5, <1>t, <1>w, <2>3 DEF CreateDeposit, Return
<1>6. ASSUME NEW c \in Call, EditWrite(c)
      PROVE  ReceiptTyped'
    <2>. DEFINE read == call[c].read
                scores == call[c].scores
                asked == call[c].grade
                grade == NextGrade(read, scores, asked)
                computed == NextComputed(read, scores, asked)
    <2>1. /\ scores \in Scores /\ asked \in Asked /\ read \in Receipt
          /\ deposit \in Receipt
        BY <1>6, <1>t DEF EditWrite, At, ReceiptTyped
    <2>2. read.grade \in Grade \cup {Blank} /\ read.computedGrade \in Grade
        BY <2>1 DEF Receipt
    <2>3. grade \in Grade \cup {Blank} /\ computed \in Grade
        BY <1>g, <2>1, <2>2 DEF NextGrade, NextComputed, Given, Asked
    <2>4. call' = [call EXCEPT ![c] = Idle] /\ UNCHANGED changes
        BY <1>6 DEF EditWrite, Return
    <2>5. CASE scores = NoScores /\ grade = read.grade
        <3>1. UNCHANGED <<deposit, log>>
            BY <1>6, <2>5 DEF EditWrite
        <3>. QED  BY <1>t, <1>w, <2>1, <2>4, <3>1
    <2>6. CASE ~ (scores = NoScores /\ grade = read.grade)
        <3>1. /\ deposit' = [deposit EXCEPT
                    !.scores = IF scores = NoScores THEN @ ELSE scores,
                    !.computedGrade = IF read.computedGrade = computed
                                      THEN deposit["computedGrade"] ELSE computed,
                    !.grade = IF read.grade = grade THEN deposit["grade"] ELSE grade]
              /\ log' = log \cup {[gradeOverridden |-> Chosen(asked)]}
            BY <1>6, <2>6 DEF EditWrite
        <3>2. deposit' \in Receipt
            <4>. HIDE DEF grade, computed, scores, read
            <4>. QED  BY <2>1, <2>3, <3>1 DEF Receipt
        <3>3. log' \subseteq [gradeOverridden : BOOLEAN]
            <4>1. Chosen(asked) \in BOOLEAN
                BY DEF Chosen
            <4>2. [gradeOverridden |-> Chosen(asked)] \in [gradeOverridden : BOOLEAN]
                BY <4>1, Zenon
            <4>. QED  BY <1>t, <3>1, <4>2
        <3>. QED  BY <1>w, <2>4, <3>2, <3>3
    <2>. QED  BY <2>5, <2>6
<1>7. CASE UNCHANGED vars
    BY <1>7, <1>a, <1>t DEF vars
<1>. QED  BY <1>1, <1>2, <1>3, <1>4, <1>5, <1>6, <1>7 DEF Next, Asked

LEMMA TypesInit == GradingAssumption /\ Init => ReceiptTyped
<1>. SUFFICES ASSUME GradingAssumption, Init PROVE ReceiptTyped
    OBVIOUS
<1>1. Config
    BY DEF Init, Config, ConfigTyped, Idle
<1>2. TypeOK
    BY DEF Init, TypeOK, Idle, GradingAssumption
<1>. QED  BY <1>1, <1>2 DEF ReceiptTyped, Init, Idle

(* Every receipt is a row of the schema with grades that its commodity can *)
(* have, however deposits, corrections and configuration interleave        *)
(* (createDeposit, applyDepositEdit).                                      *)
THEOREM GradingTypes ==
    ASSUME GradingAssumption
    PROVE  Spec => []TypeOK
<1>1. Init => ReceiptTyped
    BY TypesInit
<1>2. ReceiptTyped /\ [Next]_vars => ReceiptTyped'
    BY TypesStep
<1>3. ReceiptTyped => TypeOK
    BY DEF ReceiptTyped
<1>. QED  BY <1>1, <1>2, <1>3, PTL DEF Spec
=============================================================================
