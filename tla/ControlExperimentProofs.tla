------------------------ MODULE ControlExperimentProofs ------------------------
(***************************************************************************)
(* Proofs about ControlExperiment, for every instance file, Gold map,      *)
(* matrix and shuffle.                                                     *)
(*                                                                         *)
(* The index of a cell in the three nested loops determines the cell, so   *)
(* that a plan has every cell once.  Where rows are unique, its trial ids  *)
(* differ, and the disk holds exactly the first cells of the plan.         *)
(***************************************************************************)
EXTENDS ControlExperiment, FiniteSetTheorems, TLAPS

ExperimentInv ==
  /\ pc \in {"select", "gold", "database", "trial", "write", "done", "refused", "lost"}
  /\ instances \in Seq([question : STRING, instance : STRING])
  /\ statuses \in Seq(Verdicts)
  /\ DOMAIN plan = 1 .. Len(plan) /\ Len(plan) \in Nat
  /\ pc \in {"select", "gold", "database", "refused"} =>
       ~ opened /\ plan = <<>> /\ disk = <<>>
  /\ pc = "write" => Len(statuses) < Len(plan) /\ verdict \in Verdicts
  /\ talking => pc = "trial" /\ Len(statuses) < Len(plan)

LEMMA SelectedIsFinite ==
  ASSUME ExperimentInv
  PROVE  IsFiniteSet(Selected) /\ Cardinality(Selected) \in Nat
<1>1. Selected \in SUBSET (1 .. Len(instances)) /\ Len(instances) \in Nat
  BY DEF Selected, ExperimentInv
<1>2. IsFiniteSet(1 .. Len(instances))
  BY <1>1, FS_Interval
<1> QED
  BY <1>1, <1>2, FS_Subset, FS_CardinalityType

LEMMA PlanIsASequence ==
  ASSUME NEW targets, NEW rows, Len(targets) \in Nat, Len(rows) \in Nat
  PROVE  /\ DOMAIN Plan(targets, rows) = 1 .. Len(Plan(targets, rows))
         /\ Len(Plan(targets, rows)) \in Nat
<1>1. Repetitions * Len(targets) \in Nat
  BY MatrixAssumption
<1>2. Repetitions * Len(targets) * Len(rows) \in Nat
  BY <1>1
<1> QED
  BY <1>2 DEF Plan

LEMMA ExperimentInit == Init => ExperimentInv
BY InstancesAssumption DEF Init, ExperimentInv

LEMMA ExperimentStep == ExperimentInv /\ [Next]_vars => ExperimentInv'
<1> SUFFICES ASSUME ExperimentInv, [Next]_vars PROVE ExperimentInv'
  OBVIOUS
<1> USE DEF ExperimentInv
<1>1. CASE Refuse
  BY <1>1 DEF Refuse
<1>2. CASE SelectQuestions
  BY <1>2 DEF SelectQuestions, NextStep
<1>3. CASE LoadGold
  BY <1>3 DEF LoadGold, NextStep
<1>4. CASE OpenDatabase
  <2>1. PICK targets \in Orders(Targets), order \in Orders(Selected) :
          plan' = Plan(targets, [i \in DOMAIN order |-> instances[order[i]]])
    BY <1>4 DEF OpenDatabase
  <2>2. Len(targets) \in Nat
    BY MatrixAssumption, FS_CardinalityType DEF Orders
  <2>3. Len([i \in DOMAIN order |-> instances[order[i]]]) \in Nat
    BY SelectedIsFinite DEF Orders
  <2>4. DOMAIN plan' = 1 .. Len(plan') /\ Len(plan') \in Nat
    BY <2>1, <2>2, <2>3, PlanIsASequence
  <2>5. UNCHANGED <<instances, talking, statuses>> /\ pc = "database" /\ pc' = "trial"
    BY <1>4 DEF OpenDatabase, NextStep
  <2> QED
    BY <2>4, <2>5
<1>5. CASE BeginTrial
  BY <1>5 DEF BeginTrial
<1>6. CASE EndTrial
  BY <1>6 DEF EndTrial
<1>7. CASE LoseTrial
  BY <1>7 DEF LoseTrial
<1>8. CASE WriteTrial
  <2>2. CASE pc' = "trial" /\ statuses' = Append(statuses, verdict)
    <3>1. statuses' \in Seq(Verdicts)
      BY <1>8, <2>2 DEF WriteTrial
    <3>2. ~ talking'
      BY <1>8 DEF WriteTrial
    <3> QED
      BY <1>8, <2>2, <3>1, <3>2 DEF WriteTrial
  <2>3. CASE pc' = "lost" /\ UNCHANGED statuses
    BY <1>8, <2>3 DEF WriteTrial
  <2> QED
    BY <1>8, <2>2, <2>3 DEF WriteTrial
<1>9. CASE WriteRun
  BY <1>9 DEF WriteRun
<1>10. CASE UNCHANGED vars
  BY <1>10 DEF vars
<1> QED
  BY <1>1, <1>2, <1>3, <1>4, <1>5, <1>6, <1>7, <1>8, <1>9, <1>10 DEF Next

LEMMA ExperimentInvariance == Spec => []ExperimentInv
BY ExperimentInit, ExperimentStep, PTL DEF Spec

-----------------------------------------------------------------------------
(* Division *)

\* A quotient and a remainder determine the dividend, and the other way round.
LEMMA Division ==
  ASSUME NEW b \in Nat \ {0}, NEW q \in Nat, NEW r \in 0 .. b - 1
  PROVE  /\ (q * b + r) \div b = q
         /\ (q * b + r) % b = r
<1> DEFINE a == q * b + r
<1>1. a \in Nat /\ q * b \in Nat
  OBVIOUS
<1>2. a \div b \in Nat /\ a % b \in 0 .. b - 1 /\ a = b * (a \div b) + (a % b)
  BY <1>1
<1>3. \A x, y, s, t \in Nat : s < b /\ t < b /\ b * x + s = b * y + t => x = y
  <2> SUFFICES ASSUME NEW x \in Nat, NEW y \in Nat, NEW s \in Nat, NEW t \in Nat,
                      s < b, t < b, b * x + s = b * y + t, x < y
               PROVE  FALSE
    <3> QED
      OBVIOUS
  <2>1. b * (x + 1) <= b * y
    OBVIOUS
  <2>2. b * (x + 1) = b * x + b
    OBVIOUS
  <2> QED
    BY <2>1, <2>2
<1>4. b * q + r = b * (a \div b) + (a % b)
  BY <1>2
<1>5. a \div b = q
  <2> DEFINE x == a \div b
             s == a % b
  <2>1. x \in Nat /\ s \in Nat /\ s < b /\ b * q + r = b * x + s
    BY <1>2, <1>4
  <2> HIDE DEF x, s
  <2>2. r \in Nat /\ r < b
    OBVIOUS
  <2>3. x = q
    BY <1>3, <2>1, <2>2
  <2> QED
    BY <2>3 DEF x
<1>6. a % b = r
  <2> DEFINE s == a % b
  <2>1. s \in Nat /\ b * q + r = b * q + s
    BY <1>2, <1>4, <1>5
  <2> HIDE DEF s
  <2>2. s = r
    BY <2>1
  <2> QED
    BY <2>2 DEF s
<1> QED
  BY <1>5, <1>6

\* Dividing twice is dividing once.
LEMMA NestedDivision ==
  ASSUME NEW a \in Nat, NEW b \in Nat \ {0}, NEW c \in Nat \ {0}
  PROVE  (a \div b) \div c = a \div (c * b)
<1> DEFINE x == a \div b
           s == a % b
           q == x \div c
           t == x % c
<1>1. x \in Nat /\ s \in 0 .. b - 1 /\ a = b * x + s
  OBVIOUS
<1>2. q \in Nat /\ t \in 0 .. c - 1 /\ x = c * q + t
  BY <1>1
<1>3. a = q * (c * b) + (t * b + s)
  <2> HIDE DEF x, s, q, t
  <2> QED
    BY <1>1, <1>2
<1>4. t * b + s \in 0 .. c * b - 1
  <2> HIDE DEF x, s, q, t
  <2>1. t * b <= (c - 1) * b
    BY <1>2
  <2>2. (c - 1) * b = c * b - b
    OBVIOUS
  <2>3. t * b \in Nat
    BY <1>2
  <2>4. c * b \in Nat
    OBVIOUS
  <2> QED
    BY <1>1, <2>1, <2>2, <2>3, <2>4
<1>5. c * b \in Nat \ {0}
  OBVIOUS
<1>6. a \div (c * b) = q
  <2> HIDE DEF x, s, q, t
  <2> DEFINE d == c * b
             u == t * b + s
  <2>1. d \in Nat \ {0} /\ u \in 0 .. d - 1 /\ a = q * d + u
    BY <1>3, <1>4, <1>5
  <2> HIDE DEF d, u
  <2>2. a \div d = q
    BY <1>2, <2>1, Division
  <2> QED
    BY <2>2 DEF d
<1> QED
  BY <1>6

\* The ordinal of a cell, from its repetition, its target and its row, all counted
\* from 0, and back.
Ordinal(r, j, i, T, L) == (r * T + j) * L + i

HasParts(a, r, j, i, T, L) ==
  /\ a % L = i
  /\ (a \div L) % T = j
  /\ a \div (T * L) = r

Cells(R, T, L) == R * T * L

LEMMA OrdinalOf ==
  ASSUME NEW L \in Nat \ {0}, NEW T \in Nat \ {0}, NEW R \in Nat \ {0},
         NEW i \in 0 .. L - 1, NEW j \in 0 .. T - 1, NEW r \in 0 .. R - 1
  PROVE  /\ Ordinal(r, j, i, T, L) \in 0 .. Cells(R, T, L) - 1
         /\ HasParts(Ordinal(r, j, i, T, L), r, j, i, T, L)
<1> DEFINE x == r * T + j
           a == x * L + i
<1>1. x \in Nat /\ r * T \in Nat
  OBVIOUS
<1>2. x \div T = r /\ x % T = j
  BY Division
<1>3. a \div L = x /\ a % L = i
  <2> HIDE DEF x
  <2> QED
    BY <1>1, Division
<1>4. a \in Nat
  <2> HIDE DEF x
  <2> QED
    BY <1>1
<1>5. a \div (T * L) = r
  <2> HIDE DEF a, x
  <2> QED
    BY <1>2, <1>3, <1>4, NestedDivision
<1>6. a < R * T * L
  <2>1. x + 1 <= R * T
    <3>1. (r + 1) * T <= R * T
      OBVIOUS
    <3>2. (r + 1) * T = r * T + T
      OBVIOUS
    <3>3. R * T \in Nat
      OBVIOUS
    <3> QED
      BY <1>1, <3>1, <3>2, <3>3
  <2> HIDE DEF x
  <2> DEFINE y == R * T
  <2>2. y \in Nat /\ x + 1 <= y
    BY <2>1
  <2> HIDE DEF y
  <2>3. (x + 1) * L <= y * L
    BY <1>1, <2>2
  <2>4. (x + 1) * L = x * L + L
    BY <1>1
  <2>5. x * L \in Nat /\ y * L \in Nat
    BY <1>1, <2>2
  <2>6. a < y * L
    BY <2>3, <2>4, <2>5
  <2> QED
    BY <2>6 DEF y
<1>7. R * T * L \in Nat
  OBVIOUS
<1> QED
  <2> HIDE DEF a
  <2>1. a \in 0 .. R * T * L - 1
    BY <1>4, <1>6, <1>7
  <2> QED
    BY <1>2, <1>3, <1>5, <2>1 DEF a, Ordinal, HasParts, Cells

\* An ordinal is determined by its three parts.
LEMMA PartsOf ==
  ASSUME NEW L \in Nat \ {0}, NEW T \in Nat \ {0}, NEW a \in Nat, NEW b \in Nat,
         a % L = b % L, (a \div L) % T = (b \div L) % T,
         a \div (T * L) = b \div (T * L)
  PROVE  a = b
<1> DEFINE x == a \div L
           y == b \div L
<1>1. /\ x \in Nat /\ y \in Nat
      /\ a = L * x + (a % L) /\ b = L * y + (b % L)
  OBVIOUS
<1>2. x \div T = y \div T
  BY NestedDivision
<1>3. x % T = y % T
  OBVIOUS
<1>4. x = y
  <2> HIDE DEF x, y
  <2>1. x = T * (x \div T) + (x % T) /\ y = T * (y \div T) + (y % T)
    BY <1>1
  <2> QED
    BY <1>2, <1>3, <2>1
<1> QED
  <2> HIDE DEF x, y
  <2> QED
    BY <1>1, <1>4

-----------------------------------------------------------------------------
(* The plan *)

DistinctIds(cells) ==
  \A m, n \in DOMAIN cells : TrialId(cells[m]) = TrialId(cells[n]) => m = n

MatrixOf(cells) ==
  { <<cells[n].row.question, cells[n].target, cells[n].repetition>> : n \in DOMAIN cells }

WholeMatrix == QuestionIds \X Targets \X (1 .. Repetitions)

\* A shuffle names every element once.
LEMMA OrderTyped ==
  ASSUME NEW S, IsFiniteSet(S), NEW o \in Orders(S)
  PROVE  /\ Len(o) = Cardinality(S) /\ Len(o) \in Nat
         /\ DOMAIN o = 1 .. Len(o)
         /\ \A i \in 1 .. Len(o) : o[i] \in S
         /\ \A x \in S : \E i \in 1 .. Len(o) : o[i] = x
         /\ \A i, j \in 1 .. Len(o) : o[i] = o[j] => i = j
<1> DEFINE N == Cardinality(S)
<1>1. N \in Nat
  BY FS_CardinalityType
<1>2. o \in [1 .. N -> S] /\ \A x \in S : \E i \in DOMAIN o : o[i] = x
  BY DEF Orders
<1>3. o \in Surjection(1 .. N, S)
  BY <1>2 DEF Surjection
<1>4. IsFiniteSet(1 .. N) /\ Cardinality(1 .. N) = N
  <2>1. Cardinality(1 .. N) = IF 1 > N THEN 0 ELSE N - 1 + 1
    BY <1>1, FS_Interval
  <2> QED
    BY <1>1, <2>1, FS_Interval
<1>5. o \in Injection(1 .. N, S)
  BY <1>3, <1>4, FS_Surjection
<1>6. \A i, j \in 1 .. N : o[i] = o[j] => i = j
  BY <1>5 DEF Injection, IsInjective
<1>7. Len(o) = N
  BY <1>1, <1>2
<1> QED
  BY <1>1, <1>2, <1>6, <1>7

LEMMA SelectedRows ==
  ASSUME ExperimentInv, NEW order \in Orders(Selected)
  PROVE  LET rows == [i \in DOMAIN order |-> instances[order[i]]]
         IN  /\ Len(rows) \in Nat
             /\ Len(rows) = Cardinality(Selected)
             /\ \A k \in 1 .. Len(rows) : /\ order[k] \in Selected
                                          /\ rows[k] = instances[order[k]]
             /\ \A x \in Selected : \E k \in 1 .. Len(rows) : rows[k] = instances[x]
             /\ \A k, l \in 1 .. Len(rows) : order[k] = order[l] => k = l
<1> DEFINE rows == [i \in DOMAIN order |-> instances[order[i]]]
<1>1. IsFiniteSet(Selected)
  BY SelectedIsFinite
<1>2. /\ Len(order) = Cardinality(Selected) /\ Len(order) \in Nat
      /\ DOMAIN order = 1 .. Len(order)
      /\ \A i \in 1 .. Len(order) : order[i] \in Selected
      /\ \A x \in Selected : \E i \in 1 .. Len(order) : order[i] = x
      /\ \A i, j \in 1 .. Len(order) : order[i] = order[j] => i = j
  BY <1>1, OrderTyped
<1>3. Len(rows) = Len(order)
  BY <1>2
<1> QED
  BY <1>2, <1>3

\* Each trial of a plan has an id of its own, if each row has an instance id of its
\* own.
LEMMA PlanHasDistinctIds ==
  ASSUME ExperimentInv, OneRowPerInstance(instances),
         NEW targets \in Orders(Targets), NEW order \in Orders(Selected)
  PROVE  DistinctIds(Plan(targets, [i \in DOMAIN order |-> instances[order[i]]]))
<1> DEFINE rows == [i \in DOMAIN order |-> instances[order[i]]]
           T == Len(targets)
           L == Len(rows)
           cells == Plan(targets, rows)
<1>1. /\ L \in Nat
      /\ \A k \in 1 .. L : order[k] \in Selected /\ rows[k] = instances[order[k]]
      /\ \A k, l \in 1 .. L : order[k] = order[l] => k = l
  BY SelectedRows
<1>2. /\ T \in Nat
      /\ \A i, j \in 1 .. T : targets[i] = targets[j] => i = j
  BY MatrixAssumption, OrderTyped
<1>3. \A k, l \in 1 .. L : rows[k].instance = rows[l].instance => k = l
  <2> SUFFICES ASSUME NEW k \in 1 .. L, NEW l \in 1 .. L,
                      rows[k].instance = rows[l].instance
               PROVE  k = l
    OBVIOUS
  <2>1. order[k] \in DOMAIN instances /\ order[l] \in DOMAIN instances
    BY <1>1 DEF Selected
  <2>2. instances[order[k]].instance = instances[order[l]].instance
    BY <1>1
  <2>3. order[k] = order[l]
    BY <2>1, <2>2 DEF OneRowPerInstance
  <2> QED
    BY <1>1, <2>3
<1> SUFFICES ASSUME NEW m \in DOMAIN cells, NEW n \in DOMAIN cells,
                    TrialId(cells[m]) = TrialId(cells[n])
             PROVE  m = n
  BY DEF DistinctIds
<1> DEFINE a == m - 1
           b == n - 1
<1>4. m \in 1 .. Repetitions * T * L /\ n \in 1 .. Repetitions * T * L
  BY DEF Plan
<1>5. T # 0 /\ L # 0
  <2> HIDE DEF T, L
  <2> QED
    BY <1>1, <1>2, <1>4, MatrixAssumption
<1>6. /\ cells[m] = [repetition |-> (a \div (T * L)) + 1,
                     target     |-> targets[((a \div L) % T) + 1],
                     row        |-> rows[(a % L) + 1]]
      /\ cells[n] = [repetition |-> (b \div (T * L)) + 1,
                     target     |-> targets[((b \div L) % T) + 1],
                     row        |-> rows[(b % L) + 1]]
  BY <1>4 DEF Plan
<1>7. /\ rows[(a % L) + 1].instance = rows[(b % L) + 1].instance
      /\ targets[((a \div L) % T) + 1] = targets[((b \div L) % T) + 1]
      /\ (a \div (T * L)) + 1 = (b \div (T * L)) + 1
  <2> HIDE DEF rows, T, L, cells, a, b
  <2> QED
    BY <1>6 DEF TrialId
<1>8. a \in Nat /\ b \in Nat
  <2> HIDE DEF T, L
  <2> QED
    BY <1>4
<1>9. a % L = b % L
  <2> DEFINE k == (a % L) + 1
             l == (b % L) + 1
  <2>1. k \in 1 .. L /\ l \in 1 .. L
    <3> HIDE DEF T, L, a, b, rows
    <3> QED
      BY <1>1, <1>5, <1>8
  <2>2. k = l
    <3> HIDE DEF T, L, a, b, rows, k, l
    <3>1. rows[k].instance = rows[l].instance
      BY <1>7 DEF k, l
    <3> QED
      BY <1>3, <2>1, <3>1
  <2>3. a % L \in Nat /\ b % L \in Nat
    <3> HIDE DEF T, L, a, b, rows
    <3> QED
      BY <1>1, <1>5, <1>8
  <2> HIDE DEF T, L, a, b, rows
  <2> QED
    BY <2>2, <2>3
<1>10. (a \div L) % T = (b \div L) % T
  <2> HIDE DEF T, L, a, b, rows
  <2> DEFINE x == a \div L
             y == b \div L
             k == (x % T) + 1
             l == (y % T) + 1
  <2>1. x \in Nat /\ y \in Nat
    BY <1>1, <1>5, <1>8
  <2>2. k \in 1 .. T /\ l \in 1 .. T /\ x % T \in Nat /\ y % T \in Nat
    <3> HIDE DEF x, y
    <3> QED
      BY <1>2, <1>5, <2>1
  <2>3. targets[k] = targets[l]
    BY <1>7
  <2>4. k = l
    <3> HIDE DEF k, l
    <3> QED
      BY <1>2, <2>2, <2>3
  <2> QED
    BY <2>2, <2>4
<1>11. a \div (T * L) = b \div (T * L)
  <2> HIDE DEF T, L, a, b, rows
  <2>1. T * L \in Nat \ {0}
    BY <1>1, <1>2, <1>5
  <2>2. a \div (T * L) \in Nat /\ b \div (T * L) \in Nat
    <3> DEFINE d == T * L
    <3>1. d \in Nat \ {0}
      BY <2>1
    <3> HIDE DEF d
    <3>2. a \div d \in Nat /\ b \div d \in Nat
      BY <1>8, <3>1
    <3> QED
      BY <3>2 DEF d
  <2> QED
    BY <1>7, <2>2
<1>12. a = b
  <2> HIDE DEF T, L, a, b, rows
  <2> QED
    BY <1>1, <1>2, <1>5, <1>8, <1>9, <1>10, <1>11, PartsOf
<1> QED
  <2>1. m \in Int /\ n \in Int
    <3> HIDE DEF T, L
    <3> QED
      BY <1>4
  <2> QED
    BY <1>12, <2>1

\* As many rows as configured questions, and no question twice: every question has
\* its row.
LEMMA EveryQuestionSelected ==
  ASSUME ExperimentInv, OneRowPerQuestion(instances),
         Cardinality(Selected) = Cardinality(QuestionIds)
  PROVE  \A q \in QuestionIds : \E i \in Selected : instances[i].question = q
<1> DEFINE f == [i \in Selected |-> instances[i].question]
<1>1. f \in [Selected -> QuestionIds]
  BY DEF Selected
<1>2. \A i, j \in Selected : f[i] = f[j] => i = j
  BY DEF Selected, OneRowPerQuestion
<1>3. f \in Injection(Selected, QuestionIds)
  <2> HIDE DEF f
  <2> QED
    BY <1>1, <1>2 DEF Injection, IsInjective
<1>4. f \in Surjection(Selected, QuestionIds)
  <2> HIDE DEF f
  <2> QED
    BY <1>3, FS_Injection, MatrixAssumption
<1> QED
  BY <1>4 DEF Surjection

\* A plan is the whole matrix, however it is shuffled.
LEMMA PlanIsTheMatrix ==
  ASSUME ExperimentInv, OneRowPerQuestion(instances),
         Cardinality(Selected) = Cardinality(QuestionIds),
         NEW targets \in Orders(Targets), NEW order \in Orders(Selected)
  PROVE  MatrixOf(Plan(targets, [i \in DOMAIN order |-> instances[order[i]]]))
           = WholeMatrix
<1> DEFINE rows == [i \in DOMAIN order |-> instances[order[i]]]
           T == Len(targets)
           L == Len(rows)
           cells == Plan(targets, rows)
<1>1. /\ L \in Nat /\ L = Cardinality(Selected)
      /\ \A k \in 1 .. L : order[k] \in Selected /\ rows[k] = instances[order[k]]
      /\ \A x \in Selected : \E k \in 1 .. L : rows[k] = instances[x]
  BY SelectedRows
<1>2. /\ T \in Nat /\ T = Cardinality(Targets)
      /\ \A j \in 1 .. T : targets[j] \in Targets
      /\ \A t \in Targets : \E j \in 1 .. T : targets[j] = t
  BY MatrixAssumption, OrderTyped
<1>3. Repetitions \in Nat \ {0}
  BY MatrixAssumption
<1>4. L # 0 /\ T # 0
  <2>1. PICK x \in Selected : TRUE
    BY EveryQuestionSelected, MatrixAssumption
  <2>2. PICK t \in Targets : TRUE
    BY MatrixAssumption
  <2> HIDE DEF T, L, rows
  <2>3. (\E k \in 1 .. L : TRUE) /\ (\E j \in 1 .. T : TRUE)
    BY <1>1, <1>2, <2>1, <2>2
  <2> QED
    BY <1>1, <1>2, <2>3
<1>13. T * L \in Nat \ {0} /\ Repetitions * T * L = Repetitions * (T * L)
  <2> HIDE DEF T, L
  <2> QED
    BY <1>1, <1>2, <1>3, <1>4
<1>14. Repetitions * T * L \in Nat
  <2> DEFINE d == T * L
  <2>1. d \in Nat /\ Repetitions * T * L = Repetitions * d
    BY <1>13
  <2> HIDE DEF d
  <2>2. Repetitions * d \in Nat
    BY <1>3, <2>1
  <2> QED
    BY <2>1, <2>2
<1>5. DOMAIN cells = 1 .. Repetitions * T * L
  BY DEF Plan
<1>6. \A n \in 1 .. Repetitions * T * L :
        cells[n] = [repetition |-> ((n - 1) \div (T * L)) + 1,
                    target     |-> targets[(((n - 1) \div L) % T) + 1],
                    row        |-> rows[((n - 1) % L) + 1]]
  BY DEF Plan
<1>7. ASSUME NEW n \in 1 .. Repetitions * T * L
      PROVE  /\ cells[n].row.question \in QuestionIds
             /\ cells[n].target \in Targets
             /\ cells[n].repetition \in 1 .. Repetitions
  <2> DEFINE a == n - 1
  <2>1. a \in Nat /\ a < Repetitions * (T * L)
    <3> DEFINE z == Repetitions * T * L
    <3>1. z \in Nat /\ n \in 1 .. z
      BY <1>14
    <3> HIDE DEF z
    <3>2. a \in Nat /\ a < z
      BY <3>1
    <3> QED
      BY <1>13, <3>2 DEF z
  <2>2. (a % L) + 1 \in 1 .. L
    <3> HIDE DEF T, L, a
    <3> QED
      BY <1>1, <1>4, <2>1
  <2>3. ((a \div L) % T) + 1 \in 1 .. T
    <3> HIDE DEF T, L, a
    <3>1. a \div L \in Nat
      BY <1>1, <1>4, <2>1
    <3> QED
      BY <1>2, <1>4, <3>1
  <2>4. (a \div (T * L)) + 1 \in 1 .. Repetitions
    <3> DEFINE d == T * L
    <3>1. d \in Nat \ {0} /\ a < Repetitions * d
      <4> HIDE DEF T, L, a
      <4> QED
        BY <1>1, <1>2, <1>4, <2>1
    <3> HIDE DEF d, a
    <3>2. a \div d \in Nat /\ a \div d < Repetitions
      BY <1>3, <2>1, <3>1
    <3>3. (a \div d) + 1 \in 1 .. Repetitions
      BY <1>3, <3>2
    <3> QED
      BY <3>3 DEF d
  <2>5. rows[(a % L) + 1].question \in QuestionIds
    <3> DEFINE k == (a % L) + 1
    <3>1. k \in 1 .. L
      BY <2>2
    <3> HIDE DEF k, rows, T, L, a
    <3>2. rows[k].question \in QuestionIds
      BY <1>1, <3>1 DEF Selected
    <3> QED
      BY <3>2 DEF k
  <2>6. targets[((a \div L) % T) + 1] \in Targets
    <3> DEFINE j == ((a \div L) % T) + 1
    <3>1. j \in 1 .. T
      BY <2>3
    <3> HIDE DEF j, T, L
    <3>2. targets[j] \in Targets
      BY <1>2, <3>1
    <3> QED
      BY <3>2 DEF j
  <2>7. cells[n] = [repetition |-> (a \div (T * L)) + 1,
                    target     |-> targets[((a \div L) % T) + 1],
                    row        |-> rows[(a % L) + 1]]
    BY <1>6
  <2> HIDE DEF rows, T, L, cells, a
  <2> QED
    BY <2>4, <2>5, <2>6, <2>7
<1>8. ASSUME NEW q \in QuestionIds, NEW t \in Targets, NEW r \in 1 .. Repetitions
      PROVE  \E n \in 1 .. Repetitions * T * L :
               /\ cells[n].row.question = q
               /\ cells[n].target = t
               /\ cells[n].repetition = r
  <2>1. PICK x \in Selected : instances[x].question = q
    BY EveryQuestionSelected
  <2>2. PICK k \in 1 .. L : rows[k] = instances[x]
    BY <1>1
  <2>3. PICK j \in 1 .. T : targets[j] = t
    BY <1>2
  <2> DEFINE a == Ordinal(r - 1, j - 1, k - 1, T, L)
  <2>4. /\ k - 1 \in 0 .. L - 1 /\ j - 1 \in 0 .. T - 1 /\ r - 1 \in 0 .. Repetitions - 1
    <3> HIDE DEF T, L
    <3> QED
      BY <1>1, <1>2, <1>3
  <2>5. /\ a \in 0 .. Repetitions * T * L - 1
        /\ a % L = k - 1
        /\ (a \div L) % T = j - 1
        /\ a \div (T * L) = r - 1
    <3> DEFINE u == r - 1
               v == j - 1
               w == k - 1
    <3>1. /\ L \in Nat \ {0} /\ T \in Nat \ {0}
          /\ u \in 0 .. Repetitions - 1 /\ v \in 0 .. T - 1 /\ w \in 0 .. L - 1
      BY <1>1, <1>2, <1>4, <2>4
    <3> HIDE DEF T, L, u, v, w
    <3>2. /\ Ordinal(u, v, w, T, L) \in 0 .. Cells(Repetitions, T, L) - 1
          /\ HasParts(Ordinal(u, v, w, T, L), u, v, w, T, L)
      BY <1>3, <3>1, OrdinalOf
    <3> QED
      BY <3>2 DEF u, v, w, HasParts, Cells
  <2>6. a + 1 \in 1 .. Repetitions * T * L /\ (a + 1) - 1 = a
    <3> DEFINE z == Repetitions * T * L
    <3>1. z \in Nat /\ a \in 0 .. z - 1
      BY <1>14, <2>5
    <3> HIDE DEF z, a
    <3>2. a + 1 \in 1 .. z /\ (a + 1) - 1 = a
      BY <3>1
    <3> QED
      BY <3>2 DEF z
  <2>7. cells[a + 1] = [repetition |-> (r - 1) + 1, target |-> targets[(j - 1) + 1],
                        row |-> rows[(k - 1) + 1]]
    <3> HIDE DEF rows, T, L, cells, a
    <3> QED
      BY <1>6, <2>5, <2>6
  <2>8. (r - 1) + 1 = r /\ (j - 1) + 1 = j /\ (k - 1) + 1 = k
    <3> HIDE DEF T, L
    <3> QED
      BY <1>1, <1>2
  <2>9. /\ cells[a + 1].row.question = q
        /\ cells[a + 1].target = t
        /\ cells[a + 1].repetition = r
    <3> HIDE DEF rows, T, L, cells, a
    <3> QED
      BY <2>1, <2>2, <2>3, <2>7, <2>8
  <2> HIDE DEF rows, T, L, cells, a
  <2> QED
    BY <2>6, <2>9
<1> HIDE DEF rows, T, L, cells
<1>9. MatrixOf(cells) \subseteq WholeMatrix
  BY <1>5, <1>7 DEF MatrixOf, WholeMatrix
<1>10. WholeMatrix \subseteq MatrixOf(cells)
  <2> SUFFICES ASSUME NEW q \in QuestionIds, NEW t \in Targets, NEW r \in 1 .. Repetitions
               PROVE  <<q, t, r>> \in MatrixOf(cells)
    BY DEF WholeMatrix
  <2> QED
    BY <1>5, <1>8 DEF MatrixOf
<1>11. MatrixOf(cells) = WholeMatrix
  BY <1>9, <1>10
<1> QED
  BY <1>11 DEF cells, rows

-----------------------------------------------------------------------------
(* The records *)

\* What the theorems below take of the instance files, as the check of the
\* representative instances does.
UniqueRows ==
  \A file \in InstanceFiles : OneRowPerQuestion(file) /\ OneRowPerInstance(file)

IdsOf(cells, k) == { TrialId(cells[n]) : n \in 1 .. k }

\* The records on disk are those of the first k cells of the plan ...
FirstRecords(k) ==
  /\ k <= Len(plan)
  /\ DOMAIN disk = IdsOf(plan, k)
  /\ \A n \in 1 .. k : disk[TrialId(plan[n])].cell = plan[n]
  /\ \A n \in 1 .. Len(statuses) : disk[TrialId(plan[n])].status = statuses[n]

\* ... of as many as have a status, or of one more if it was lost as it was checked.
RecordsOfThePlan ==
  \/ FirstRecords(Len(statuses))
  \/ pc = "lost" /\ FirstRecords(Len(statuses) + 1)

RecordInv ==
  /\ ExperimentInv
  /\ instances \in InstanceFiles
  /\ goldMap \subseteq QuestionIds
  /\ {goldLoaded, opened, talking} \subseteq BOOLEAN
  /\ verdict \in Verdicts \cup {"none"}
  /\ pc \in {"gold", "database", "trial", "write"} =>
       Cardinality(Selected) = Cardinality(QuestionIds)
  /\ pc \in {"select", "gold", "database", "refused"} => statuses = <<>>
  /\ DistinctIds(plan)
  /\ pc \in {"trial", "write", "done"} => MatrixOf(plan) = WholeMatrix
  /\ RecordsOfThePlan
  /\ runRecord # {} => pc = "done"
  /\ RunRecordMatchesDisk

\* The first records are as many as their cells.
LEMMA RecordsCounted ==
  ASSUME ExperimentInv, DistinctIds(plan), NEW k \in Nat, FirstRecords(k)
  PROVE  Cardinality(DOMAIN disk) = k
<1> DEFINE f == [n \in 1 .. k |-> TrialId(plan[n])]
<1>1. \A n \in 1 .. k : n \in DOMAIN plan
  BY DEF ExperimentInv, FirstRecords
<1>2. f \in [1 .. k -> DOMAIN disk]
  BY DEF FirstRecords, IdsOf
<1>3. \A m, n \in 1 .. k : f[m] = f[n] => m = n
  BY <1>1 DEF DistinctIds
<1>4. \A t \in DOMAIN disk : \E n \in 1 .. k : f[n] = t
  BY DEF FirstRecords, IdsOf
<1>5. f \in Injection(1 .. k, DOMAIN disk) /\ f \in Surjection(1 .. k, DOMAIN disk)
  <2> HIDE DEF f
  <2> QED
    BY <1>2, <1>3, <1>4 DEF Injection, IsInjective, Surjection
<1>6. IsFiniteSet(1 .. k) /\ Cardinality(1 .. k) = k
  <2>1. Cardinality(1 .. k) = IF 1 > k THEN 0 ELSE k - 1 + 1
    BY FS_Interval
  <2> QED
    BY <2>1, FS_Interval
<1> HIDE DEF f
<1> QED
  BY <1>5, <1>6, FS_Surjection

\* Statuses noted are statuses on disk, as many of each.
LEMMA StatusesCounted ==
  ASSUME ExperimentInv, DistinctIds(plan), FirstRecords(Len(statuses)), NEW s
  PROVE  Count(s) = Cardinality({ t \in DOMAIN disk : disk[t].status = s })
<1> DEFINE I == { i \in DOMAIN statuses : statuses[i] = s }
           D == { t \in DOMAIN disk : disk[t].status = s }
           f == [n \in I |-> TrialId(plan[n])]
<1>1. DOMAIN statuses = 1 .. Len(statuses) /\ Len(statuses) \in Nat
  BY DEF ExperimentInv
<1>2. \A n \in 1 .. Len(statuses) : /\ n \in DOMAIN plan
                                    /\ TrialId(plan[n]) \in DOMAIN disk
                                    /\ disk[TrialId(plan[n])].status = statuses[n]
  BY <1>1 DEF ExperimentInv, FirstRecords, IdsOf
<1>3. f \in [I -> D]
  BY <1>1, <1>2
<1>4. \A m, n \in I : f[m] = f[n] => m = n
  BY <1>1, <1>2 DEF DistinctIds
<1>5. \A t \in D : \E n \in I : f[n] = t
  <2> SUFFICES ASSUME NEW t \in D PROVE \E n \in I : f[n] = t
    OBVIOUS
  <2>1. PICK n \in 1 .. Len(statuses) : t = TrialId(plan[n])
    BY DEF FirstRecords, IdsOf
  <2>2. n \in I
    BY <1>1, <1>2, <2>1
  <2> QED
    BY <2>1, <2>2
<1>6. f \in Injection(I, D) /\ f \in Surjection(I, D)
  <2> HIDE DEF f, I, D
  <2> QED
    BY <1>3, <1>4, <1>5 DEF Injection, IsInjective, Surjection
<1>7. IsFiniteSet(I)
  <2>1. IsFiniteSet(1 .. Len(statuses))
    BY <1>1, FS_Interval
  <2> QED
    BY <1>1, <2>1, FS_Subset
<1>8. Cardinality(D) = Cardinality(I)
  <2> HIDE DEF f, I, D
  <2> QED
    BY <1>6, <1>7, FS_Surjection
<1> QED
  BY <1>8 DEF Count

LEMMA RecordInit == Init => RecordInv
<1> SUFFICES ASSUME Init PROVE RecordInv
  OBVIOUS
<1>1. FirstRecords(Len(statuses))
  BY DEF Init, FirstRecords, IdsOf
<1>2. ExperimentInv
  BY ExperimentInit
<1>3. RunRecordMatchesDisk /\ RecordsOfThePlan /\ DistinctIds(plan)
  BY <1>1 DEF Init, RunRecordMatchesDisk, RecordsOfThePlan, DistinctIds
<1>4. {goldLoaded, opened, talking} \subseteq BOOLEAN
  BY DEF Init
<1> QED
  BY <1>2, <1>3, <1>4 DEF Init, RecordInv

LEMMA OpenStep ==
  ASSUME UniqueRows, RecordInv, OpenDatabase
  PROVE  DistinctIds(plan') /\ MatrixOf(plan') = WholeMatrix
<1>1. PICK targets \in Orders(Targets), order \in Orders(Selected) :
        plan' = Plan(targets, [i \in DOMAIN order |-> instances[order[i]]])
  BY DEF OpenDatabase
<1>2. /\ ExperimentInv
      /\ OneRowPerInstance(instances) /\ OneRowPerQuestion(instances)
      /\ Cardinality(Selected) = Cardinality(QuestionIds)
  BY DEF RecordInv, UniqueRows, OpenDatabase
<1> QED
  BY <1>1, <1>2, PlanHasDistinctIds, PlanIsTheMatrix

\* A record is written under an id of its own, beside those that are there.
LEMMA WriteStep ==
  ASSUME RecordInv, WriteTrial
  PROVE  /\ RecordsOfThePlan'
         /\ \A t \in DOMAIN disk : t \in DOMAIN disk' /\ disk'[t] = disk[t]
<1> DEFINE m == Len(statuses) + 1
           id == TrialId(plan[m])
           record == [cell |-> plan[m], status |-> verdict]
<1>1. /\ disk' = Bind(disk, id, record)
      /\ plan' = plan
      /\ pc = "write"
      /\ \/ pc' = "trial" /\ statuses' = Append(statuses, verdict)
         \/ pc' = "lost" /\ statuses' = statuses
  BY DEF WriteTrial, Current
<1>2. /\ Len(statuses) \in Nat /\ Len(plan) \in Nat /\ DOMAIN plan = 1 .. Len(plan)
      /\ Len(statuses) < Len(plan) /\ statuses \in Seq(Verdicts) /\ verdict \in Verdicts
      /\ DistinctIds(plan)
  BY <1>1 DEF RecordInv, ExperimentInv
<1>3. FirstRecords(Len(statuses))
  BY <1>1 DEF RecordInv, RecordsOfThePlan
<1>4. m \in DOMAIN plan /\ \A n \in 1 .. Len(statuses) : n \in DOMAIN plan /\ n # m
  BY <1>2
<1>5. \A n \in 1 .. Len(statuses) : TrialId(plan[n]) # id
  BY <1>4, <1>2 DEF DistinctIds
<1>6. id \notin DOMAIN disk
  BY <1>3, <1>5 DEF FirstRecords, IdsOf
<1>7. /\ DOMAIN disk' = DOMAIN disk \cup {id}
      /\ disk'[id] = record
      /\ \A t \in DOMAIN disk : t # id => disk'[t] = disk[t]
  BY <1>1 DEF Bind
<1>8. \A t \in DOMAIN disk : t \in DOMAIN disk' /\ disk'[t] = disk[t]
  BY <1>6, <1>7
<1>9. DOMAIN disk' = IdsOf(plan, m)
  <2>1. 1 .. m = (1 .. Len(statuses)) \cup {m}
    BY <1>2
  <2>2. IdsOf(plan, m) = IdsOf(plan, Len(statuses)) \cup {id}
    BY <2>1 DEF IdsOf
  <2> QED
    BY <1>3, <1>7, <2>2 DEF FirstRecords
<1>10. \A n \in 1 .. Len(statuses) :
         /\ TrialId(plan[n]) \in DOMAIN disk
         /\ disk'[TrialId(plan[n])].cell = plan[n]
         /\ disk'[TrialId(plan[n])].status = statuses[n]
  BY <1>3, <1>8 DEF FirstRecords, IdsOf
<1>11. \A n \in 1 .. m : disk'[TrialId(plan[n])].cell = plan[n]
  BY <1>2, <1>7, <1>10
<1>12. CASE pc' = "trial" /\ statuses' = Append(statuses, verdict)
  <2>1. /\ Len(statuses') = m
        /\ \A n \in 1 .. Len(statuses) : statuses'[n] = statuses[n]
        /\ statuses'[m] = verdict
    BY <1>2, <1>12
  <2>2. \A n \in 1 .. m : disk'[TrialId(plan[n])].status = statuses'[n]
    BY <1>2, <1>7, <1>10, <2>1
  <2>3. FirstRecords(Len(statuses))'
    BY <1>1, <1>2, <1>9, <1>11, <2>1, <2>2 DEF FirstRecords, IdsOf
  <2> QED
    BY <1>8, <2>3 DEF RecordsOfThePlan
<1>13. CASE pc' = "lost" /\ statuses' = statuses
  <2>1. FirstRecords(Len(statuses) + 1)'
    BY <1>1, <1>2, <1>9, <1>10, <1>11, <1>13 DEF FirstRecords, IdsOf
  <2> QED
    BY <1>8, <1>13, <2>1 DEF RecordsOfThePlan
<1> QED
  BY <1>1, <1>12, <1>13

\* The summary counts the records of the whole plan.
LEMMA SummaryHolds ==
  ASSUME RecordInv, WriteRun
  PROVE  RunRecordMatchesDisk'
<1>1. /\ pc = "trial" /\ Len(statuses) = Len(plan)
      /\ UNCHANGED <<plan, statuses, disk>>
      /\ \A run \in runRecord' : /\ run.planned = Len(statuses)
                                 /\ \A s \in Verdicts : run.counts[s] = Count(s)
  BY DEF WriteRun
<1>2. FirstRecords(Len(statuses)) /\ ExperimentInv /\ DistinctIds(plan)
  BY <1>1 DEF RecordInv, RecordsOfThePlan
<1>3. Len(statuses) \in Nat
  BY <1>2 DEF ExperimentInv
<1>4. Cardinality(DOMAIN disk) = Len(statuses)
  BY <1>2, <1>3, RecordsCounted
<1>5. \A s : Count(s) = Cardinality({ t \in DOMAIN disk : disk[t].status = s })
  BY <1>2, StatusesCounted
<1>6. { <<disk[t].cell.row.question, disk[t].cell.target, disk[t].cell.repetition>> :
          t \in DOMAIN disk } = MatrixOf(plan)
  <2>1. /\ DOMAIN disk = { TrialId(plan[n]) : n \in DOMAIN plan }
        /\ \A n \in DOMAIN plan : disk[TrialId(plan[n])].cell = plan[n]
    BY <1>1, <1>2 DEF FirstRecords, IdsOf, ExperimentInv
  <2> QED
    BY <2>1 DEF MatrixOf
<1>7. MatrixOf(plan) = QuestionIds \X Targets \X (1 .. Repetitions)
  BY <1>1 DEF RecordInv, WholeMatrix
<1> QED
  BY <1>1, <1>4, <1>5, <1>6, <1>7 DEF RunRecordMatchesDisk

\* A step that leaves the records alone.
LEMMA KeptRecords ==
  ASSUME RecordInv, UNCHANGED <<plan, statuses, disk>>, pc = "lost" => pc' = "lost"
  PROVE  RecordsOfThePlan' /\ DistinctIds(plan)'
BY DEF RecordInv, RecordsOfThePlan, FirstRecords, IdsOf, DistinctIds

LEMMA RecordStep == UniqueRows /\ RecordInv /\ [Next]_vars => RecordInv'
<1> SUFFICES ASSUME UniqueRows, RecordInv, [Next]_vars PROVE RecordInv'
  OBVIOUS
<1>1. ExperimentInv'
  BY ExperimentStep DEF RecordInv
<1>2. /\ instances' \in InstanceFiles
      /\ goldMap' \subseteq QuestionIds
      /\ {goldLoaded', opened', talking'} \subseteq BOOLEAN
      /\ verdict' \in Verdicts \cup {"none"}
  BY DEF RecordInv, Next, vars, Refuse, SelectQuestions, LoadGold, OpenDatabase,
     BeginTrial, EndTrial, LoseTrial, WriteTrial, WriteRun
<1>3. pc' \in {"gold", "database", "trial", "write"} =>
        Cardinality(Selected') = Cardinality(QuestionIds)
  BY DEF RecordInv, Next, vars, Refuse, SelectQuestions, LoadGold, OpenDatabase,
     BeginTrial, EndTrial, LoseTrial, WriteTrial, WriteRun, NextStep, Selected
<1>4. pc' \in {"select", "gold", "database", "refused"} => statuses' = <<>>
  BY DEF RecordInv, Next, vars, Refuse, SelectQuestions, LoadGold, OpenDatabase,
     BeginTrial, EndTrial, LoseTrial, WriteTrial, WriteRun, NextStep
<1>5. /\ DistinctIds(plan')
      /\ pc' \in {"trial", "write", "done"} => MatrixOf(plan') = WholeMatrix
  <2>1. CASE OpenDatabase
    BY <2>1, OpenStep
  <2>2. CASE ~ OpenDatabase
    BY <2>2 DEF RecordInv, Next, vars, Refuse, SelectQuestions, LoadGold,
       BeginTrial, EndTrial, LoseTrial, WriteTrial, WriteRun, NextStep
  <2> QED
    BY <2>1, <2>2
<1>6. RecordsOfThePlan'
  <2>1. CASE OpenDatabase
    <3>1. /\ statuses' = <<>> /\ disk' = <<>> /\ Len(plan') \in Nat
      BY <1>1, <2>1 DEF RecordInv, ExperimentInv, OpenDatabase
    <3>2. FirstRecords(Len(statuses))'
      BY <3>1 DEF FirstRecords, IdsOf
    <3> QED
      BY <3>2 DEF RecordsOfThePlan
  <2>2. CASE WriteTrial
    BY <2>2, WriteStep
  <2>3. CASE ~ OpenDatabase /\ ~ WriteTrial
    <3>1. UNCHANGED <<plan, statuses, disk>> /\ (pc = "lost" => pc' = "lost")
      BY <2>3 DEF Next, vars, Refuse, SelectQuestions, LoadGold, BeginTrial, EndTrial,
         LoseTrial, WriteRun
    <3> QED
      BY <3>1, KeptRecords
  <2> QED
    BY <2>1, <2>2, <2>3
<1>7. (runRecord' # {} => pc' = "done") /\ RunRecordMatchesDisk'
  <2>1. CASE WriteRun
    BY <2>1, SummaryHolds DEF WriteRun
  <2>2. CASE UNCHANGED vars
    BY <2>2 DEF vars, RecordInv, RunRecordMatchesDisk
  <2>3. CASE Next /\ ~ WriteRun
    <3>1. pc # "done" /\ runRecord' = runRecord
      BY <2>3 DEF Next, Refuse, SelectQuestions, LoadGold, OpenDatabase, BeginTrial,
         EndTrial, LoseTrial, WriteTrial
    <3> QED
      BY <3>1 DEF RecordInv, RunRecordMatchesDisk
  <2> QED
    BY <2>1, <2>2, <2>3
<1> QED
  BY <1>1, <1>2, <1>3, <1>4, <1>5, <1>6, <1>7 DEF RecordInv

LEMMA RecordInvariance == UniqueRows => (Spec => []RecordInv)
<1> SUFFICES ASSUME UniqueRows PROVE Spec => []RecordInv
  OBVIOUS
<1> QED
  BY RecordInit, RecordStep, PTL DEF Spec

\* A run that any check refuses has not touched the database or the disk.
THEOREM RefusalIsClean == Spec => []RefusedLeavesNothing
<1>1. ExperimentInv => RefusedLeavesNothing
  BY DEF ExperimentInv, RefusedLeavesNothing
<1> QED
  BY <1>1, ExperimentInvariance, PTL

\* If the rows of a file differ in question and instance, a run that has lost no
\* trial has one record for every status it has noted.
THEOREM ExperimentTypeCorrect == ASSUME UniqueRows PROVE Spec => []TypeOK
<1>1. RecordInv => TypeOK
  <2> SUFFICES ASSUME RecordInv PROVE TypeOK
    OBVIOUS
  <2>1. /\ ExperimentInv /\ DistinctIds(plan) /\ RecordsOfThePlan
        /\ Len(statuses) \in Nat /\ Len(plan) \in Nat
        /\ DOMAIN statuses = 1 .. Len(statuses)
    BY DEF RecordInv, ExperimentInv
  <2>2. /\ Cardinality(DOMAIN disk) \in Len(statuses) .. Len(statuses) + 1
        /\ Len(statuses) <= Len(plan)
    <3>1. CASE FirstRecords(Len(statuses))
      BY <2>1, <3>1, RecordsCounted DEF FirstRecords
    <3>2. CASE FirstRecords(Len(statuses) + 1)
      <4>1. Len(statuses) + 1 \in Nat
        BY <2>1
      <4>2. Cardinality(DOMAIN disk) = Len(statuses) + 1
        BY <2>1, <3>2, <4>1, RecordsCounted
      <4> QED
        BY <2>1, <3>2, <4>2 DEF FirstRecords
    <3> QED
      BY <2>1, <3>1, <3>2 DEF RecordsOfThePlan
  <2>3. \A i \in DOMAIN statuses : statuses[i] \in Verdicts
    BY DEF RecordInv, ExperimentInv
  <2> QED
    BY <2>2, <2>3 DEF RecordInv, ExperimentInv, TypeOK
<1> QED
  BY <1>1, RecordInvariance, PTL

\* ... and a run that comes to its end has recorded the whole matrix, in whatever
\* order it was shuffled, and counts what it has recorded.
THEOREM RunRecordIsTrue == ASSUME UniqueRows PROVE Spec => []RunRecordMatchesDisk
<1>1. RecordInv => RunRecordMatchesDisk
  BY DEF RecordInv
<1> QED
  BY <1>1, RecordInvariance, PTL

\* No trial is written over another.
THEOREM RecordsStay == ASSUME UniqueRows PROVE Spec => RecordsAreImmutable
<1> DEFINE Kept == \A t \in DOMAIN disk : t \in DOMAIN disk' /\ disk'[t] = disk[t]
<1>1. RecordInv /\ [Next]_vars => [Kept]_vars
  <2> SUFFICES ASSUME RecordInv, Next PROVE Kept
    OBVIOUS
  <2>1. CASE WriteTrial
    BY <2>1, WriteStep
  <2>2. CASE ~ WriteTrial
    BY <2>2 DEF Next, Refuse, SelectQuestions, LoadGold, OpenDatabase, BeginTrial,
       EndTrial, LoseTrial, WriteRun
  <2> QED
    BY <2>1, <2>2
<1> QED
  BY <1>1, RecordInvariance, PTL DEF Spec, RecordsAreImmutable

\* What the selection counts is then what its error message says: one row for every
\* configured question.
THEOREM SelectionIsExact == ASSUME UniqueRows PROVE Spec => []EveryQuestionOnce
<1>1. UniqueRows /\ RecordInv => EveryQuestionOnce
  <2> SUFFICES ASSUME UniqueRows, RecordInv, pc = "trial", NEW q \in QuestionIds
               PROVE  Cardinality({ i \in Selected : instances[i].question = q }) = 1
    BY DEF EveryQuestionOnce
  <2>1. ExperimentInv /\ OneRowPerQuestion(instances)
    BY DEF RecordInv, UniqueRows
  <2>2. PICK i \in Selected : instances[i].question = q
    BY <2>1, EveryQuestionSelected DEF RecordInv
  <2>3. { j \in Selected : instances[j].question = q } = {i}
    BY <2>1, <2>2 DEF OneRowPerQuestion, Selected
  <2> QED
    BY <2>3, FS_Singleton
<1> QED
  BY <1>1, RecordInvariance, PTL
=============================================================================
