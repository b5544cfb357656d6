------------------------------ MODULE Grading ------------------------------
(***************************************************************************)
(* How goods are graded: src/src/grading (the configuration of a commodity *)
(* and scoreSample), its older twin in                                     *)
(* src/src/admin/services/admin-config.service.ts, and what createDeposit  *)
(* and applyDepositEdit of src/src/warehouse-manager write on a receipt.   *)
(*                                                                         *)
(* One commodity.  A parameter has a threshold for each grade, the grades  *)
(* are numbered from the best, and goods have the worst grade that one of  *)
(* their measurements gives them.  The configuration changes under the     *)
(* deposits graded by it; a deposit keeps the scores it was given.         *)
(* Percentages of defects and deductions, moves to another commodity and   *)
(* what is not graded (Deposits, Clientele) are not here.                  *)
(***************************************************************************)
EXTENDS Handlers, Naturals, FiniteSets

CONSTANTS
    Parameter,    \* names of grading parameters
    MaxGrades,    \* bound: numberOfGrades of the commodity
    MaxMeasure,   \* bound: measurements and thresholds
    MaxChange     \* bound: changes of the configuration

(* What a module that runs these actions must assume.                      *)
GradingAssumption == {MaxGrades, MaxMeasure, MaxChange} \subseteq Nat

VARIABLES
    numberOfGrades, template,   \* the commodity and its grading_parameters
    deposit, log,               \* a receipt and its RECEIPT_DEPOSIT_EDITED entries
    changes

vars == <<numberOfGrades, template, deposit, log, changes, call>>
config == <<numberOfGrades, template>>

Measure == 0..MaxMeasure
Grade == 1..MaxGrades
Rejected == 0

(* What a request says of the grade when it names none: nothing, or the    *)
(* empty string, which the DTO admits and a receipt can bear.              *)
NoGrade == 0
Blank == MaxGrades + 1

NoParameter == [row |-> "none"]
NoDeposit == [row |-> "none"]

(* Thresholds are JSON: a value for some of the grades.                    *)
Thresholds == UNION {[labels -> Measure] : labels \in SUBSET Grade}

Row == [thresholds : Thresholds]

Configured(t) == {p \in Parameter : t[p] # NoParameter}

-----------------------------------------------------------------------------
(* scoreSample for the configuration t with n grades: the grades whose     *)
(* threshold admits a value, the first of them, and the worst over the     *)
(* parameters; REJECTED when a parameter has none.                         *)
Admitting(thresholds, v, n) == {g \in DOMAIN thresholds : g \in 1..n /\ v <= thresholds[g]}

Best(grades) == CHOOSE g \in grades : \A h \in grades : g <= h
Worst(grades) == CHOOSE g \in grades : \A h \in grades : h <= g

(* Variant: the last grade whose threshold admits the value.               *)
AssignedGradeLast(thresholds, v, n) ==
    IF Admitting(thresholds, v, n) = {} THEN Rejected
    ELSE Worst(Admitting(thresholds, v, n))

AssignedGrade(thresholds, v, n) ==
    IF Admitting(thresholds, v, n) = {} THEN Rejected
    ELSE Best(Admitting(thresholds, v, n))

PerParameter(t, n, measured) ==
    [p \in Configured(t) |-> AssignedGrade(t[p].thresholds, measured[p], n)]

ComputedGrade(scores) ==
    LET grades == {scores[p] : p \in DOMAIN scores}
    IN  IF Rejected \in grades THEN Rejected ELSE Worst(grades \cup {1})

(* The measurements of a request name exactly the parameters.              *)
Sample(t) == [Configured(t) -> Measure]

(* What createDeposit and a correction with measurements go on with: the   *)
(* scores of goods that pass.                                              *)
Passing(t, n) ==
    {scores \in {PerParameter(t, n, measured) : measured \in Sample(t)} :
        ComputedGrade(scores) # Rejected}

-----------------------------------------------------------------------------
Scores == UNION {[names -> Grade] : names \in SUBSET Parameter}

Receipt == [scores : Scores, computedGrade : Grade, grade : Grade \cup {Blank},
            manual : BOOLEAN]

Init ==
    /\ numberOfGrades \in Grade
    /\ template = [p \in Parameter |-> NoParameter]
    /\ deposit = NoDeposit
    /\ log = {}
    /\ changes = 0
    /\ call = [c \in Call |-> Idle]

Change == changes < MaxChange /\ changes' = changes + 1 /\ UNCHANGED <<deposit, log>>

(* addParameter checks the keys against the grades it read.                *)
AddLoad(c, p, thresholds) ==
    /\ DOMAIN thresholds = 1..numberOfGrades
    /\ Begin(c, [op |-> "addParameter", step |-> "create", p |-> p,
                 thresholds |-> thresholds])
    /\ UNCHANGED <<config, deposit, log, changes>>

AddCreate(c) ==
    /\ At(c, "addParameter", "create")
    /\ template[call[c].p] = NoParameter
    /\ template' = [template EXCEPT ![call[c].p] = [thresholds |-> call[c].thresholds]]
    /\ Return(c)
    /\ Change
    /\ UNCHANGED numberOfGrades

(* One write each, whatever is in flight; none of them looks at the keys:  *)
(* upsertGradingParameter, updateParameter (thresholds, or a name that is  *)
(* free), deleteParameter, and updateCommodity.                            *)
Upsert(p, thresholds) ==
    /\ template' = [template EXCEPT ![p] = [thresholds |-> thresholds]]
    /\ Change
    /\ UNCHANGED <<numberOfGrades, call>>

Update(p, thresholds) == template[p] # NoParameter /\ Upsert(p, thresholds)

Rename(p, q) ==
    /\ template[p] # NoParameter /\ template[q] = NoParameter
    /\ template' = [template EXCEPT ![p] = NoParameter, ![q] = template[p]]
    /\ Change
    /\ UNCHANGED <<numberOfGrades, call>>

Delete(p) ==
    /\ template[p] # NoParameter
    /\ template' = [template EXCEPT ![p] = NoParameter]
    /\ Change
    /\ UNCHANGED <<numberOfGrades, call>>

UpdateCommodity(n) ==
    /\ numberOfGrades' = n
    /\ Change
    /\ UNCHANGED <<template, call>>

-----------------------------------------------------------------------------
NoScores == [p \in {} |-> 0]

(* A request may name a grade of its own: `grade ?? otherwise`, `!!grade`. *)
Given(grade, otherwise) == IF grade = NoGrade THEN otherwise ELSE grade
Chosen(grade) == grade \notin {NoGrade, Blank}

(* createDeposit: the configuration is read, then the ledger mints.        *)
CreateLoad(c, scores, grade) ==
    /\ Configured(template) # {}
    /\ scores \in Passing(template, numberOfGrades)
    /\ Begin(c, [op |-> "createDeposit", step |-> "deposit", scores |-> scores, grade |-> grade])
    /\ UNCHANGED <<config, deposit, log, changes>>

CreateDeposit(c) ==
    /\ At(c, "createDeposit", "deposit")
    /\ deposit = NoDeposit
    /\ LET scores == call[c].scores
       IN  deposit' = [scores |-> scores, computedGrade |-> ComputedGrade(scores),
                       grade |-> Given(call[c].grade, ComputedGrade(scores)),
                       manual |-> Chosen(call[c].grade)]
    /\ Return(c)
    /\ UNCHANGED <<config, log, changes>>

(* editDeposit and editDepositAsAdmin load receipt and configuration;      *)
(* applyDepositEdit scores again when there are measurements.              *)
EditLoad(c, scores, grade) ==
    /\ deposit # NoDeposit
    /\ scores # NoScores =>
          Configured(template) # {} /\ scores \in Passing(template, numberOfGrades)
    /\ Begin(c, [op |-> "editDeposit", step |-> "update", read |-> deposit,
                 scores |-> scores, grade |-> grade])
    /\ UNCHANGED <<config, deposit, log, changes>>

NextGrade(read, scores, grade) ==
    IF scores # NoScores /\ ~Chosen(grade) THEN ComputedGrade(scores)
    ELSE Given(grade, read.grade)

(* Variant: stamped together with the grade, so not under a manual one.    *)
NextComputedStamped(read, scores, grade) ==
    IF scores = NoScores \/ Chosen(grade) THEN read.computedGrade ELSE ComputedGrade(scores)

NextComputed(read, scores, grade) ==
    IF scores = NoScores THEN read.computedGrade ELSE ComputedGrade(scores)

(* Only what differs from the receipt as it was read is written; scores    *)
(* are an object and always differ.  An edit that changes nothing leaves   *)
(* no entry.                                                               *)
EditWrite(c) ==
    LET read == call[c].read
        scores == call[c].scores
        grade == NextGrade(read, scores, call[c].grade)
        computed == NextComputed(read, scores, call[c].grade)
        Changed(column, was, is) == IF was = is THEN deposit[column] ELSE is
    IN  /\ At(c, "editDeposit", "update")
        /\ IF scores = NoScores /\ grade = read.grade
           THEN UNCHANGED <<deposit, log>>
           ELSE /\ deposit' = [deposit EXCEPT
                      !.scores = IF scores = NoScores THEN @ ELSE scores,
                      !.computedGrade = Changed("computedGrade", read.computedGrade, computed),
                      !.grade = Changed("grade", read.grade, grade)]
                /\ log' = log \cup {[gradeOverridden |-> Chosen(call[c].grade)]}
        /\ Return(c)
        /\ UNCHANGED <<config, changes>>

Abort(c) == Abandon(c) /\ UNCHANGED <<config, deposit, log, changes>>

Next ==
    \/ \E p \in Parameter, thresholds \in Thresholds :
          \/ \E c \in Call : AddLoad(c, p, thresholds)
          \/ Upsert(p, thresholds)
          \/ Update(p, thresholds)
    \/ \E p, q \in Parameter : Rename(p, q)
    \/ \E p \in Parameter : Delete(p)
    \/ \E n \in Grade : UpdateCommodity(n)
    \/ \E c \in Call, grade \in Grade \cup {NoGrade, Blank} :
          \/ \E scores \in Passing(template, numberOfGrades) :
                CreateLoad(c, scores, grade) \/ EditLoad(c, scores, grade)
          \/ EditLoad(c, NoScores, grade)
    \/ \E c \in Call : AddCreate(c) \/ CreateDeposit(c) \/ EditWrite(c) \/ Abort(c)

Spec == Init /\ [][Next]_vars

-----------------------------------------------------------------------------
TypeOK ==
    /\ numberOfGrades \in Grade
    /\ template \in [Parameter -> Row \cup {NoParameter}]
    /\ deposit \in Receipt \cup {NoDeposit}
    /\ log \subseteq [gradeOverridden : BOOLEAN]
    /\ changes \in 0..MaxChange
    /\ \A c \in Call : call[c].op \in {"idle", "addParameter", "createDeposit", "editDeposit"}

(* REJECTED is the worst of all.                                           *)
NoBetter(g, h) == g = Rejected \/ (h # Rejected /\ h <= g)

(* Whatever the configuration has become, complete or not and in whatever  *)
(* order its thresholds are, goods that measure worse in every parameter   *)
(* are never graded better (scoreSample).                                  *)
WorseNeverGradesBetter ==
    \A good, bad \in Sample(template) :
        (\A p \in Configured(template) : good[p] <= bad[p]) =>
            NoBetter(ComputedGrade(PerParameter(template, numberOfGrades, bad)),
                     ComputedGrade(PerParameter(template, numberOfGrades, good)))

(* One request at a time: the computed grade of a receipt is the worst of  *)
(* the scores stored with it, however often it was corrected and whatever  *)
(* became of the configuration, and a receipt bears another grade only if  *)
(* somebody chose one, or sent an empty one: "" replaces the grade and is  *)
(* no override, so nobody answers for it (createDeposit,                   *)
(* applyDepositEdit).                                                      *)
GradesExplained ==
    deposit # NoDeposit =>
        /\ deposit.computedGrade = ComputedGrade(deposit.scores)
        /\ deposit.grade \notin {deposit.computedGrade, Blank} =>
              deposit.manual \/ \E entry \in log : entry.gradeOverridden

-----------------------------------------------------------------------------
(***************************************************************************)
(* What the comments of the code promise, and the code does not do.        *)
(***************************************************************************)

(* "Validate threshold keys match numberOfGrades": only addParameter does, *)
(* and updateCommodity changes the number below it.                        *)
ThresholdsMatchGrades ==
    \A p \in Configured(template) : DOMAIN template[p].thresholds = 1..numberOfGrades

(* "If both are supplied, `grade` wins and we record it as a manual        *)
(* override": the empty string wins and is recorded as none.               *)
OverridesAreRecorded ==
    deposit # NoDeposit /\ deposit.grade # deposit.computedGrade =>
        deposit.manual \/ \E entry \in log : entry.gradeOverridden
=============================================================================
