------------------------------ MODULE JobProofs ------------------------------
(***************************************************************************)
(* Proofs about Job. The invariant keeps the job in step with the machine:  *)
(* as long as every setup could be checked, the field is the stock the      *)
(* machine has at that moment, carried through every transform so far, and  *)
(* the hits gathered are those of the motions made. A refused setup breaks  *)
(* the step for good, and the invariant then only keeps the refusal.        *)
(***************************************************************************)
EXTENDS Job, SharedLemmas, SequenceTheorems

JobHit == [motion : Nat, part : {"shank", "cutter"}, contact : {"collision", "near-miss"},
           obstacle : Nat]

Outcome == [hits : SUBSET JobHit, checked : BOOLEAN]

\* What the tool meets in motion i of setup j, in the motions before i, and the
\* stock the setup leaves.
MotionHits(job, j, i) ==
  Hits(i, job.setups[j].motions[i], MachineStockBefore(job, j, i), job.setups[j].fixtures)
HitsBefore(job, j, i) == UNION {MotionHits(job, j, n) : n \in 1 .. i - 1}
Left(job, j) == MachineStockBefore(job, j, Len(job.setups[j].motions) + 1)

InSetup == {"carry", "resolve", "check", "cut"}
Over == {"gouge", "done"}

\* Where the job is, and what it holds there.
Types ==
  /\ plan \in Jobs
  /\ stage \in InSetup \cup Over \cup {"error"}
  /\ setup \in Nat \ {0} /\ k \in Nat \ {0}
  /\ field \in SUBSET Cells
  /\ raw \in SUBSET JobHit
  /\ outcomes \in Seq(Outcome)

Place ==
  /\ stage \in InSetup => setup <= Len(plan.setups) /\ Len(outcomes) = setup - 1
  /\ stage \in {"carry", "resolve"} => k = 1 /\ raw = {}
  /\ stage \in {"check", "cut"} => ~Unchecked(This)
  /\ stage = "check" => k <= Len(This.motions) + 1
  /\ stage = "cut" => k <= Len(This.motions)
  /\ stage \in Over => Len(outcomes) = Len(plan.setups)

\* A finished setup was checked if and only if it could be.
Refusals ==
  /\ Len(outcomes) <= Len(plan.setups)
  /\ \A j \in DOMAIN outcomes : outcomes[j].checked = ~Unchecked(plan.setups[j])

AllChecked == \A j \in DOMAIN outcomes : outcomes[j].checked

\* The stock and the hits are the machine's.
Lockstep ==
  AllChecked =>
    /\ stage = "carry" => field = IF setup = 1 THEN plan.stock ELSE Left(plan, setup - 1)
    /\ stage = "resolve" => field = MachineStock(plan)[setup]
    /\ stage \in {"check", "cut"} => field = MachineStockBefore(plan, setup, k)
    /\ stage = "check" => raw = HitsBefore(plan, setup, k)
    /\ stage = "cut" => raw = HitsBefore(plan, setup, k + 1)
    /\ stage \in Over => field = FinishedPart(plan)

ReportIsPasses == stage = "done" => report.pass = Passes

Inv == Types /\ Place /\ Refusals /\ Lockstep /\ HitsAreTheTrajectory /\ ReportIsPasses
-----------------------------------------------------------------------------
(* The machine: its stock is carried and cut, its hits are typed.            *)

(* A transform permutes cells; None and the refused ones move nothing.       *)
LEMMA CarriedCells ==
  ASSUME NEW t, NEW cells \in SUBSET Cells
  PROVE  Carried(t, cells) \in SUBSET Cells
BY JobAssumption DEF Carried

(* A hit names its motion and its obstacle by number.                        *)
LEMMA HitsTyped ==
  ASSUME NEW i \in Nat, NEW m, NEW stock, NEW fixtures \in Seq(SUBSET Cells)
  PROVE  Hits(i, m, stock, fixtures) \in SUBSET JobHit
<1>1. ASSUME NEW part \in {"shank", "cutter"}, NEW swept, NEW near, NEW o \in Nat, NEW material
      PROVE  hits_for_motion(i, part, swept, near, o, material) \in SUBSET JobHit
  BY DEF hits_for_motion, JobHit
<1>2. DOMAIN fixtures \in SUBSET Nat
  BY LenProperties
<1> QED BY <1>1, <1>2 DEF Hits

(* What a loaded job is made of.                                             *)
LEMMA SetupTyped ==
  ASSUME NEW job, Loads(job)
  PROVE  /\ Len(job.setups) \in Nat \ {0}
         /\ DOMAIN job.setups = 1 .. Len(job.setups)
         /\ \A j \in 1 .. Len(job.setups) :
              /\ job.setups[j].motions \in Seq(Sweeps)
              /\ job.setups[j].fixtures \in Seq(SUBSET Cells)
              /\ job.setups[j].retracts \in Nat
              /\ job.setups[j].holder \in BOOLEAN
<1>1. job.setups \in Seq(Setup) /\ job.setups # <<>>
  BY DEF Loads
<1> DEFINE ss == job.setups
<1> HIDE DEF ss
<1>2. ss \in Seq(Setup) /\ ss # <<>>
  BY <1>1 DEF ss
<1>3. Len(ss) \in Nat \ {0} /\ DOMAIN ss = 1 .. Len(ss)
  BY <1>2, EmptySeq, LenProperties
<1>4. \A j \in 1 .. Len(ss) : ss[j] \in Setup
  BY <1>2, ElementOfSeq
<1>5. \A s \in Setup : s.motions \in Seq(Sweeps) /\ s.fixtures \in Seq(SUBSET Cells)
                      /\ s.retracts \in Nat /\ s.holder \in BOOLEAN
  BY DEF Setup
<1> QED BY <1>3, <1>4, <1>5 DEF ss

(* The recursion MachineStock is defined by has a solution.                  *)
LEMMA MachineStockSteps ==
  ASSUME NEW job, Loads(job)
  PROVE  /\ MachineStock(job)[1] = job.stock
         /\ \A j \in 2 .. Len(job.setups) :
              MachineStock(job)[j] =
                Carried(job.setups[j].transform, MachineStock(job)[j - 1] \ SweptIn(job.setups[j - 1]))
<1> DEFINE n == Len(job.setups)
           T == [i \in 1 .. n - 1 |-> [y \in SUBSET Cells |->
                  Carried(job.setups[i + 1].transform, y \ SweptIn(job.setups[i]))]]
           Step(f) == [j \in 1 .. n |->
                        IF j = 1 THEN job.stock
                        ELSE Carried(job.setups[j].transform, f[j - 1] \ SweptIn(job.setups[j - 1]))]
<1>1. n \in Nat /\ n >= 1 /\ n - 1 \in Nat
  BY SetupTyped
<1>2. job.stock \in SUBSET Cells
  BY DEF Loads
<1>3. \A i \in 1 .. n - 1 : \A y \in SUBSET Cells : T[i][y] \in SUBSET Cells
  BY CarriedCells
<1>4. PICK h : Iterates(h, n - 1, job.stock, T)
  <2> HIDE DEF T, n
  <2> QED BY <1>1, <1>2, <1>3, IterationExists
<1>5. h[0] = job.stock /\ \A i \in 1 .. n - 1 : h[i] = T[i][h[i - 1]]
  <2> HIDE DEF T, n
  <2> QED BY <1>1, <1>4 DEF Iterates
<1>6. \A i \in 0 .. n - 1 : h[i] \in SUBSET Cells
  <2> DEFINE G == {i \in 0 .. n - 1 : h[i] \in SUBSET Cells}
  <2>1. 0 \in G
    BY <1>1, <1>2, <1>5
  <2>2. ASSUME NEW i \in 0 .. (n - 1) - 1, i \in G PROVE i + 1 \in G
    <3>1. i + 1 \in 1 .. n - 1 /\ (i + 1) - 1 = i /\ i + 1 \in 0 .. n - 1
      BY <1>1
    <3> HIDE DEF T, n
    <3>2. h[i + 1] = T[i + 1][h[i]]
      BY <1>5, <3>1
    <3> QED BY <2>2, <3>1, <3>2, <1>3
  <2> HIDE DEF G, n
  <2>3. \A i \in 0 .. n - 1 : i \in G
    BY <1>1, <2>1, <2>2, Induction
  <2> QED BY <2>3 DEF G
<1> DEFINE f == [j \in 1 .. n |-> h[j - 1]]
<1>7. ASSUME NEW j \in 1 .. n
      PROVE  f[j] = IF j = 1 THEN job.stock
                    ELSE Carried(job.setups[j].transform, f[j - 1] \ SweptIn(job.setups[j - 1]))
  <2>1. CASE j = 1
    BY <2>1, <1>5, <1>1
  <2>2. CASE j # 1
    <3>1. j - 1 \in 1 .. n - 1 /\ j - 1 \in 1 .. n /\ (j - 1) - 1 \in 0 .. n - 1 /\ (j - 1) + 1 = j
      BY <2>2, <1>1
    <3> DEFINE i == j - 1
    <3>2. f[j] = h[i] /\ f[i] = h[i - 1]
      BY <3>1
    <3>3. h[i] = T[i][h[i - 1]] /\ h[i - 1] \in SUBSET Cells
      BY <3>1, <1>5, <1>6
    <3>4. T[i][h[i - 1]] = Carried(job.setups[i + 1].transform, h[i - 1] \ SweptIn(job.setups[i]))
      BY <3>1, <3>3
    <3>5. job.setups[i + 1] = job.setups[j]
      BY <3>1
    <3> HIDE DEF f, T, n
    <3> QED BY <2>2, <3>2, <3>3, <3>4, <3>5
  <2> QED BY <2>1, <2>2
<1>8. f = Step(f)
  BY <1>7
<1>9. MachineStock(job) = CHOOSE g : g = Step(g)
  BY DEF MachineStock
<1>10. MachineStock(job) = Step(MachineStock(job))
  <2> HIDE DEF f, Step
  <2> QED BY <1>8, <1>9
<1> DEFINE M == MachineStock(job)
<1>11. \A j \in 1 .. n : M[j] = IF j = 1 THEN job.stock
                         ELSE Carried(job.setups[j].transform, M[j - 1] \ SweptIn(job.setups[j - 1]))
  BY <1>10
<1> HIDE DEF M, n
<1>12. M[1] = job.stock
  <2>1. 1 \in 1 .. n
    BY <1>1
  <2> QED BY <2>1, <1>11
<1>13. ASSUME NEW j \in 2 .. n
       PROVE  M[j] = Carried(job.setups[j].transform, M[j - 1] \ SweptIn(job.setups[j - 1]))
  <2>1. j \in 1 .. n /\ j # 1
    BY <1>1
  <2> QED BY <2>1, <1>11
<1> QED BY <1>12, <1>13 DEF M, n

(* Between two setups the machine's stock is carried as the job's is.        *)
LEMMA MachineCarries ==
  ASSUME NEW job, Loads(job), NEW j \in 2 .. Len(job.setups)
  PROVE  MachineStock(job)[j] = Carried(job.setups[j].transform, Left(job, j - 1))
<1>1. Len(job.setups) \in Nat /\ j - 1 \in 1 .. Len(job.setups)
  BY SetupTyped
<1>2. job.setups[j - 1].motions \in Seq(Sweeps)
  BY <1>1, SetupTyped
<1> DEFINE s == job.setups[j - 1]
<1>3. DOMAIN s.motions = 1 .. (Len(s.motions) + 1) - 1
  BY <1>2, LenProperties
<1>4. SweptIn(s) = UNION {s.motions[n].cut : n \in 1 .. (Len(s.motions) + 1) - 1}
  BY <1>3 DEF SweptIn
<1>5. Left(job, j - 1) = MachineStock(job)[j - 1] \ SweptIn(s)
  BY <1>4 DEF Left, MachineStockBefore
<1> QED BY <1>5, MachineStockSteps

(* One motion: the stock loses what it cuts, the hits gain what it meets.    *)
LEMMA MachineMoves ==
  ASSUME NEW job, NEW j, NEW i \in Nat \ {0}
  PROVE  /\ MachineStockBefore(job, j, 1) = MachineStock(job)[j]
         /\ MachineStockBefore(job, j, i + 1) =
              MachineStockBefore(job, j, i) \ job.setups[j].motions[i].cut
         /\ HitsBefore(job, j, 1) = {}
         /\ HitsBefore(job, j, i + 1) = HitsBefore(job, j, i) \cup MotionHits(job, j, i)
<1>1. 1 .. 1 - 1 = {} /\ 1 .. (i + 1) - 1 = (1 .. i - 1) \cup {i}
  OBVIOUS
<1>2. MachineStockBefore(job, j, 1) = MachineStock(job)[j]
  BY <1>1 DEF MachineStockBefore
<1>3. HitsBefore(job, j, 1) = {}
  BY <1>1 DEF HitsBefore
<1> DEFINE c(n) == job.setups[j].motions[n].cut
           m(n) == MotionHits(job, j, n)
<1>4. /\ (UNION {c(n) : n \in (1 .. i - 1) \cup {i}}) = (UNION {c(n) : n \in 1 .. i - 1}) \cup c(i)
      /\ (UNION {m(n) : n \in (1 .. i - 1) \cup {i}}) = (UNION {m(n) : n \in 1 .. i - 1}) \cup m(i)
  <2> HIDE DEF c, m
  <2> QED OBVIOUS
<1>5. HitsBefore(job, j, i + 1) = HitsBefore(job, j, i) \cup MotionHits(job, j, i)
  BY <1>1, <1>4 DEF HitsBefore
<1>6. MachineStockBefore(job, j, i + 1) = MachineStockBefore(job, j, i) \ c(i)
  BY <1>1, <1>4 DEF MachineStockBefore
<1> QED BY <1>2, <1>3, <1>5, <1>6

(* A setup's hits are those of all its motions.                              *)
LEMMA MachineHitsAll ==
  ASSUME NEW job, Loads(job), NEW j \in 1 .. Len(job.setups)
  PROVE  MachineHits(job, j) = HitsBefore(job, j, Len(job.setups[j].motions) + 1)
<1>1. job.setups[j].motions \in Seq(Sweeps)
  BY SetupTyped
<1>2. DOMAIN job.setups[j].motions = 1 .. (Len(job.setups[j].motions) + 1) - 1
  BY <1>1, LenProperties
<1> QED BY <1>2 DEF MachineHits, HitsBefore, MotionHits
-----------------------------------------------------------------------------
(* Every step keeps the invariant. *)

\* Carry, Resolve, CheckMotion, CutMotion and Report finish no setup.
Kept == plan' = plan /\ outcomes' = outcomes

(* What finished setups reported is not touched by a step that finishes none. *)
LEMMA OutcomesKept ==
  ASSUME Refusals, HitsAreTheTrajectory, Kept
  PROVE  /\ Refusals' /\ HitsAreTheTrajectory' /\ (AllChecked' <=> AllChecked)
BY DEF Kept, Refusals, HitsAreTheTrajectory, AllChecked

(* The facts about the setup the job is in.                                  *)
LEMMA ThisTyped ==
  ASSUME Types, Place, stage \in InSetup
  PROVE  /\ Loads(plan) /\ setup \in 1 .. Len(plan.setups) /\ Len(plan.setups) \in Nat
         /\ This.motions \in Seq(Sweeps) /\ Len(This.motions) \in Nat
         /\ This.fixtures \in Seq(SUBSET Cells)
         /\ plan.setups \in Seq(Setup)
<1>1. Loads(plan)
  BY JobAssumption DEF Types
<1>2. Len(plan.setups) \in Nat \ {0}
  BY <1>1, SetupTyped
<1>3. setup \in 1 .. Len(plan.setups)
  BY <1>2 DEF Types, Place
<1>4. plan.setups[setup].motions \in Seq(Sweeps) /\ plan.setups[setup].fixtures \in Seq(SUBSET Cells)
  BY <1>1, <1>3, SetupTyped
<1>5. Len(This.motions) \in Nat
  BY <1>4, LenProperties DEF This
<1> QED BY <1>1, <1>2, <1>3, <1>4, <1>5 DEF This, Loads

LEMMA CarryStep ==
  ASSUME Inv, Carry
  PROVE  Inv'
<1> USE DEF Inv
<1>1. stage = "carry" /\ Kept /\ UNCHANGED <<setup, k, raw, report>>
  BY DEF Carry, Kept
<1>2. Refusals' /\ HitsAreTheTrajectory' /\ (AllChecked' <=> AllChecked)
  BY <1>1, OutcomesKept
<1>3. Loads(plan) /\ setup \in 1 .. Len(plan.setups) /\ Len(plan.setups) \in Nat
  BY <1>1, ThisTyped DEF InSetup
<1>4. stage' \in {"resolve", "error"}
  BY DEF Carry
<1>5. field' \in SUBSET Cells
  BY <1>1, CarriedCells DEF Carry, Types
<1>6. Types'
  BY <1>1, <1>4, <1>5 DEF Types, Kept, InSetup, Over
<1>7. Place'
  BY <1>1, <1>4 DEF Place, Kept, InSetup, Over
<1>8. ASSUME AllChecked, stage' = "resolve" PROVE field' = MachineStock(plan)[setup]
  <2>1. field' = Carried(plan.setups[setup].transform, field)
    BY <1>8 DEF Carry, This
  <2>2. CASE setup = 1
    <3>1. plan.setups[setup].transform = None /\ None \notin DOMAIN Image
      BY <2>2, <1>3, JobAssumption DEF Loads
    <3>2. field = plan.stock
      BY <1>1, <1>8, <2>2 DEF Lockstep
    <3> QED BY <2>1, <2>2, <3>1, <3>2, <1>3, MachineStockSteps DEF Carried
  <2>3. CASE setup # 1
    <3>1. setup \in 2 .. Len(plan.setups)
      BY <2>3, <1>3
    <3>2. field = Left(plan, setup - 1)
      BY <1>1, <1>8, <2>3 DEF Lockstep
    <3> QED BY <2>1, <3>1, <3>2, <1>3, MachineCarries
  <2> QED BY <2>2, <2>3
<1>9. Lockstep'
  <2>1. SUFFICES ASSUME AllChecked', stage' = "resolve"
                 PROVE  field' = MachineStock(plan')[setup']
    BY <1>4 DEF Lockstep, Over
  <2> QED BY <2>1, <1>1, <1>2, <1>8 DEF Kept
<1>10. ReportIsPasses'
  BY <1>4 DEF ReportIsPasses
<1> QED BY <1>2, <1>6, <1>7, <1>9, <1>10

LEMMA ResolveStep ==
  ASSUME Inv, Resolve
  PROVE  Inv'
<1> USE DEF Inv
<1>1. stage = "resolve" /\ Kept /\ UNCHANGED <<setup, k, field, raw, report>>
  BY DEF Resolve, Kept
<1>2. Refusals' /\ HitsAreTheTrajectory' /\ (AllChecked' <=> AllChecked)
  BY <1>1, OutcomesKept
<1>3. Loads(plan) /\ setup \in 1 .. Len(plan.setups) /\ Len(This.motions) \in Nat
  BY <1>1, ThisTyped DEF InSetup
<1>4. stage' \in {"check", "error"} /\ (stage' = "check" => ~Unchecked(This))
  BY DEF Resolve
<1>5. Types'
  BY <1>1, <1>4 DEF Types, Kept, InSetup, Over
<1>6. This' = This
  BY <1>1 DEF This, Kept
<1>7. k = 1 /\ raw = {}
  BY <1>1 DEF Place
<1>8. Place'
  <2>1. Unchecked(This)' <=> Unchecked(This)
    BY <1>6 DEF Unchecked
  <2> QED BY <1>1, <1>3, <1>4, <1>6, <1>7, <2>1 DEF Place, Kept, InSetup, Over
<1>9. Lockstep'
  <2>1. SUFFICES ASSUME AllChecked', stage' = "check"
                 PROVE  field' = MachineStockBefore(plan', setup', k') /\ raw' = HitsBefore(plan', setup', k')
    BY <1>4 DEF Lockstep, Over
  <2>2. field = MachineStock(plan)[setup]
    BY <1>1, <1>2, <2>1 DEF Lockstep
  <2>3. 1 \in Nat \ {0}
    OBVIOUS
  <2>4. MachineStockBefore(plan, setup, 1) = MachineStock(plan)[setup] /\ HitsBefore(plan, setup, 1) = {}
    BY <2>3, MachineMoves
  <2> QED BY <1>1, <1>7, <2>2, <2>4 DEF Kept
<1>10. ReportIsPasses'
  BY <1>4 DEF ReportIsPasses
<1> QED BY <1>2, <1>5, <1>8, <1>9, <1>10

LEMMA CheckStep ==
  ASSUME Inv, CheckMotion
  PROVE  Inv'
<1> USE DEF Inv
<1>1. stage = "check" /\ stage' = "cut" /\ Kept /\ UNCHANGED <<setup, k, field, report>>
  BY DEF CheckMotion, Kept
<1>2. Refusals' /\ HitsAreTheTrajectory' /\ (AllChecked' <=> AllChecked)
  BY <1>1, OutcomesKept
<1>3. Loads(plan) /\ This.fixtures \in Seq(SUBSET Cells) /\ k \in Nat \ {0}
  BY <1>1, ThisTyped DEF InSetup, Types
<1>4. k <= Len(This.motions) /\ raw' = raw \cup Hits(k, Motion, field, This.fixtures)
  BY DEF CheckMotion
<1>5. raw' \in SUBSET JobHit
  BY <1>3, <1>4, HitsTyped DEF Types
<1>6. Types'
  BY <1>1, <1>5 DEF Types, Kept, InSetup, Over
<1>7. This' = This
  BY <1>1 DEF This, Kept
<1>8. Place'
  <2>1. Unchecked(This)' <=> Unchecked(This)
    BY <1>7 DEF Unchecked
  <2> QED BY <1>1, <1>4, <1>7, <2>1 DEF Place, Kept, InSetup, Over
<1>9. Lockstep'
  <2>1. SUFFICES ASSUME AllChecked'
                 PROVE  /\ field' = MachineStockBefore(plan', setup', k')
                        /\ raw' = HitsBefore(plan', setup', k' + 1)
    BY <1>1 DEF Lockstep, Over
  <2>2. field = MachineStockBefore(plan, setup, k) /\ raw = HitsBefore(plan, setup, k)
    BY <1>1, <1>2, <2>1 DEF Lockstep
  <2>3. raw' = HitsBefore(plan, setup, k) \cup MotionHits(plan, setup, k)
    BY <1>4, <2>2 DEF MotionHits, Motion, This
  <2>4. HitsBefore(plan, setup, k + 1) = HitsBefore(plan, setup, k) \cup MotionHits(plan, setup, k)
    BY <1>3, MachineMoves
  <2> QED BY <1>1, <2>2, <2>3, <2>4 DEF Kept
<1>10. ReportIsPasses'
  BY <1>1 DEF ReportIsPasses
<1> QED BY <1>2, <1>6, <1>8, <1>9, <1>10

LEMMA CutStep ==
  ASSUME Inv, CutMotion
  PROVE  Inv'
<1> USE DEF Inv
<1>1. /\ stage = "cut" /\ stage' = "check" /\ Kept /\ UNCHANGED <<setup, raw, report>>
      /\ k' = k + 1 /\ field' = field \ Motion.cut
  BY DEF CutMotion, Kept
<1>2. Refusals' /\ HitsAreTheTrajectory' /\ (AllChecked' <=> AllChecked)
  BY <1>1, OutcomesKept
<1>3. Loads(plan) /\ k \in Nat \ {0} /\ k' \in Nat \ {0} /\ Len(This.motions) \in Nat
  BY <1>1, ThisTyped DEF InSetup, Types
<1>4. field' \in SUBSET Cells
  BY <1>1 DEF Types
<1>5. Types'
  BY <1>1, <1>3, <1>4 DEF Types, Kept, InSetup, Over
<1>6. This' = This
  BY <1>1 DEF This, Kept
<1>7. Place'
  <2>1. Unchecked(This)' <=> Unchecked(This)
    BY <1>6 DEF Unchecked
  <2>2. k' <= Len(This.motions) + 1
    BY <1>1, <1>3 DEF Place
  <2> QED BY <1>1, <1>6, <2>1, <2>2 DEF Place, Kept, InSetup, Over
<1>8. Lockstep'
  <2>1. SUFFICES ASSUME AllChecked'
                 PROVE  field' = MachineStockBefore(plan', setup', k') /\ raw' = HitsBefore(plan', setup', k')
    BY <1>1 DEF Lockstep, Over
  <2>2. field = MachineStockBefore(plan, setup, k) /\ raw = HitsBefore(plan, setup, k + 1)
    BY <1>1, <1>2, <2>1 DEF Lockstep
  <2>3. MachineStockBefore(plan, setup, k + 1) = MachineStockBefore(plan, setup, k) \ Motion.cut
    <3>1. MachineStockBefore(plan, setup, k + 1) =
            MachineStockBefore(plan, setup, k) \ plan.setups[setup].motions[k].cut
      BY <1>3, MachineMoves
    <3> QED BY <3>1 DEF Motion, This
  <2> QED BY <1>1, <2>2, <2>3 DEF Kept
<1>9. ReportIsPasses'
  BY <1>1 DEF ReportIsPasses
<1> QED BY <1>2, <1>5, <1>7, <1>8, <1>9

(* A setup that ends reports whether it could be checked and, as long as all  *)
(* were, all its hits; if it was checked, it leaves the machine's stock.      *)
LEMMA FinishStep ==
  ASSUME Inv, stage \in {"resolve", "check"}, NEW hits \in SUBSET JobHit, NEW checked \in BOOLEAN,
         FinishSetup([hits |-> hits, checked |-> checked]),
         UNCHANGED <<plan, field, report>>,
         checked = ~Unchecked(This),
         AllChecked /\ checked => hits = MachineHits(plan, setup) /\ field = Left(plan, setup)
  PROVE  Inv'
<1> USE DEF Inv
<1> DEFINE outcome == [hits |-> hits, checked |-> checked]
           n == Len(plan.setups)
<1>1. /\ outcomes' = Append(outcomes, outcome) /\ raw' = {} /\ k' = 1 /\ setup' = setup + 1
      /\ stage' = (IF setup = n THEN "gouge" ELSE "carry")
      /\ plan' = plan /\ field' = field
  BY DEF FinishSetup
<1>2. Loads(plan) /\ setup \in 1 .. n /\ n \in Nat /\ plan.setups \in Seq(Setup)
  BY ThisTyped DEF InSetup
<1>3. outcomes \in Seq(Outcome) /\ outcome \in Outcome /\ Len(outcomes) = setup - 1
  BY DEF Types, Outcome, Place, InSetup
<1> HIDE DEF outcome, n
<1>4. /\ outcomes' \in Seq(Outcome) /\ Len(outcomes') = setup
      /\ \A j \in 1 .. setup : outcomes'[j] = IF j = setup THEN outcome ELSE outcomes[j]
      /\ DOMAIN outcomes' = 1 .. setup /\ DOMAIN outcomes = 1 .. setup - 1
  <2>1. Len(outcomes) \in Nat /\ Len(outcomes) + 1 = setup
    BY <1>2, <1>3
  <2>2. outcomes' \in Seq(Outcome) /\ Len(outcomes') = setup
    BY <1>1, <1>3, <2>1, AppendProperties
  <2>3. \A j \in 1 .. setup : outcomes'[j] = IF j = setup THEN outcome ELSE outcomes[j]
    BY <1>1, <1>3, <2>1, AppendProperties
  <2> QED BY <2>2, <2>3, <1>3, LenProperties
<1>5. outcome.checked = checked /\ outcome.hits = hits
  BY DEF outcome
<1>6. Types'
  <2>1. field' \in SUBSET Cells /\ plan' \in Jobs /\ setup' \in Nat \ {0} /\ k' \in Nat \ {0}
    BY <1>1, <1>2 DEF Types
  <2>2. stage' \in {"gouge", "carry"} /\ raw' \in SUBSET JobHit
    BY <1>1
  <2> QED BY <1>4, <2>1, <2>2 DEF Types, InSetup, Over
<1>7. Place'
  BY <1>1, <1>2, <1>4 DEF Place, InSetup, Over, n
<1>8. Refusals'
  <2>1. ASSUME NEW j \in 1 .. setup PROVE outcomes'[j].checked = ~Unchecked(plan.setups[j])
    BY <1>4, <1>5 DEF Refusals, This
  <2>2. \A s : Unchecked(s)' = Unchecked(s)
    BY DEF Unchecked
  <2> QED BY <1>1, <1>2, <1>4, <2>1, <2>2 DEF Refusals, n
<1>9. AllChecked' <=> AllChecked /\ checked
  <2>1. AllChecked' <=> \A j \in 1 .. setup : outcomes'[j].checked
    BY <1>4 DEF AllChecked
  <2>2. AllChecked <=> \A j \in 1 .. setup - 1 : outcomes[j].checked
    BY <1>4 DEF AllChecked
  <2>3. setup \in 1 .. setup /\ \A j \in 1 .. setup - 1 : j \in 1 .. setup /\ j # setup
    BY <1>2
  <2>4. \A j \in 1 .. setup : j = setup \/ j \in 1 .. setup - 1
    BY <1>2
  <2> QED BY <1>4, <1>5, <2>1, <2>2, <2>3, <2>4
<1>10. HitsAreTheTrajectory'
  <2>1. SUFFICES ASSUME NEW j \in 1 .. setup, \A i \in 1 .. j : outcomes'[i].checked
                 PROVE  outcomes'[j].hits = MachineHits(plan, j)
    BY <1>1, <1>4 DEF HitsAreTheTrajectory
  <2>2. CASE j = setup
    <3>1. AllChecked'
      BY <2>1, <2>2, <1>4 DEF AllChecked
    <3> QED BY <2>2, <3>1, <1>4, <1>5, <1>9
  <2>3. CASE j # setup
    <3>1. j \in 1 .. setup - 1
      BY <2>3, <1>2
    <3>2. ASSUME NEW i \in 1 .. j PROVE outcomes[i].checked
      <4>1. i \in 1 .. setup /\ i # setup
        BY <3>1, <1>2
      <4> QED BY <4>1, <2>1, <1>4
    <3> QED BY <2>3, <3>1, <3>2, <1>4 DEF HitsAreTheTrajectory
  <2> QED BY <2>2, <2>3
<1>11. Lockstep'
  <2>1. SUFFICES ASSUME AllChecked'
                 PROVE  /\ stage' = "carry" => field' = IF setup' = 1 THEN plan'.stock ELSE Left(plan', setup' - 1)
                        /\ stage' = "gouge" => field' = FinishedPart(plan')
    BY <1>1 DEF Lockstep, Over
  <2>2. field = Left(plan, setup)
    BY <2>1, <1>9
  <2>3. setup' # 1 /\ setup' - 1 = setup
    BY <1>1, <1>2
  <2>4. stage' = "gouge" => setup = n
    BY <1>1
  <2>5. FinishedPart(plan) = Left(plan, n)
    BY <1>2 DEF FinishedPart, Left, Last, n
  <2> QED BY <1>1, <2>2, <2>3, <2>4, <2>5
<1>12. ReportIsPasses'
  BY <1>1 DEF ReportIsPasses
<1> QED BY <1>6, <1>7, <1>8, <1>10, <1>11, <1>12

LEMMA RefuseStep ==
  ASSUME Inv, Refuse
  PROVE  Inv'
<1>1. /\ stage = "resolve" /\ Unchecked(This) /\ FinishSetup([hits |-> {}, checked |-> FALSE])
      /\ UNCHANGED <<plan, field, report>>
  BY DEF Refuse
<1>2. {} \in SUBSET JobHit
  OBVIOUS
<1> QED BY <1>1, <1>2, FinishStep

LEMMA EndReplayStep ==
  ASSUME Inv, EndReplay
  PROVE  Inv'
<1> USE DEF Inv
<1>1. /\ stage = "check" /\ k > Len(This.motions)
      /\ FinishSetup([hits |-> raw, checked |-> TRUE]) /\ UNCHANGED <<plan, field, report>>
  BY DEF EndReplay
<1>2. /\ Loads(plan) /\ setup \in 1 .. Len(plan.setups) /\ Len(This.motions) \in Nat
      /\ k \in Nat /\ raw \in SUBSET JobHit
  BY <1>1, ThisTyped DEF InSetup, Types
<1>3. k = Len(This.motions) + 1 /\ ~Unchecked(This)
  BY <1>1, <1>2 DEF Place
<1>4. ASSUME AllChecked PROVE raw = MachineHits(plan, setup) /\ field = Left(plan, setup)
  <2>1. field = MachineStockBefore(plan, setup, k) /\ raw = HitsBefore(plan, setup, k)
    BY <1>1, <1>4 DEF Lockstep
  <2>2. MachineHits(plan, setup) = HitsBefore(plan, setup, k)
    BY <1>2, <1>3, MachineHitsAll DEF This
  <2> QED BY <2>1, <2>2, <1>3 DEF Left, This
<1> HIDE DEF Inv
<1> QED BY <1>1, <1>2, <1>3, <1>4, FinishStep

LEMMA ReportStep ==
  ASSUME Inv, Report
  PROVE  Inv'
<1> USE DEF Inv
<1>1. stage = "gouge" /\ Kept /\ UNCHANGED <<setup, k, field, raw>>
  BY DEF Report, Kept
<1>2. Refusals' /\ HitsAreTheTrajectory' /\ (AllChecked' <=> AllChecked)
  BY <1>1, OutcomesKept
<1>3. stage' \in {"error", "done"}
  BY DEF Report
<1>4. Types'
  BY <1>1, <1>3 DEF Types, Kept, InSetup, Over
<1>5. Place'
  BY <1>1, <1>3 DEF Place, Kept, InSetup, Over
<1>6. Lockstep'
  BY <1>1, <1>2, <1>3 DEF Lockstep, Kept, Over
<1>7. ReportIsPasses'
  <2>1. SUFFICES ASSUME stage' = "done" PROVE report'.pass = Passes'
    BY DEF ReportIsPasses
  <2>2. report'.pass = Passes
    BY <2>1 DEF Report
  <2>3. Passes' = Passes
    BY <1>1 DEF Passes, Collisions, AnyUnchecked, GougeState, Kept
  <2> QED BY <2>2, <2>3
<1> QED BY <1>2, <1>4, <1>5, <1>6, <1>7

LEMMA InitInv ==
  ASSUME Init
  PROVE  Inv
<1>1. Loads(plan)
  BY JobAssumption DEF Init
<1>2. Len(plan.setups) \in Nat \ {0}
  BY <1>1, SetupTyped
<1>3. Types
  BY <1>1 DEF Init, Types, InSetup, Over, Loads
<1>4. Len(outcomes) = 0 /\ DOMAIN outcomes = {}
  BY DEF Init
<1>5. Place
  BY <1>2, <1>4 DEF Init, Place, InSetup, Over
<1>6. Refusals /\ HitsAreTheTrajectory
  BY <1>2, <1>4 DEF Refusals, HitsAreTheTrajectory
<1>7. Lockstep
  BY DEF Init, Lockstep, Over
<1>8. ReportIsPasses
  BY DEF Init, ReportIsPasses
<1> QED BY <1>3, <1>5, <1>6, <1>7, <1>8 DEF Inv

LEMMA NextInv ==
  ASSUME Inv, [Next]_vars
  PROVE  Inv'
<1>1. CASE Next
  BY <1>1, CarryStep, ResolveStep, RefuseStep, CheckStep, CutStep, EndReplayStep, ReportStep DEF Next
<1>2. CASE UNCHANGED vars
  <2>1. Kept /\ UNCHANGED <<stage, setup, k, field, raw, report>>
    BY <1>2 DEF vars, Kept
  <2>2. This' = This
    BY <2>1 DEF This, Kept
  <2>3. Unchecked(This)' <=> Unchecked(This)
    BY <2>2 DEF Unchecked
  <2>4. Refusals' /\ HitsAreTheTrajectory' /\ (AllChecked' <=> AllChecked)
    BY <2>1, OutcomesKept DEF Inv
  <2>5. Types' /\ Place' /\ Lockstep'
    BY <2>1, <2>2, <2>3, <2>4 DEF Inv, Types, Place, Lockstep, Kept
  <2>6. Passes' = Passes
    BY <2>1 DEF Passes, Collisions, AnyUnchecked, GougeState, Kept
  <2> QED BY <2>1, <2>4, <2>5, <2>6 DEF Inv, ReportIsPasses
<1> QED BY <1>1, <1>2

(* The invariant holds in every state of every job.                          *)
THEOREM InvHolds == Spec => []Inv
<1>1. Init => Inv
  BY InitInv
<1>2. Inv /\ [Next]_vars => Inv'
  BY NextInv
<1> QED BY <1>1, <1>2, PTL DEF Spec

(* Every job, of any number of setups and motions: as long as every setup     *)
(* before could be checked, a setup reports exactly what the machine's tool    *)
(* meets in the stock of that moment (collide_with_stock's check-then-cut).    *)
THEOREM HitsAreTheTrajectoryHolds == Spec => []HitsAreTheTrajectory
<1>1. Inv => HitsAreTheTrajectory
  BY DEF Inv
<1> QED BY <1>1, InvHolds, PTL

(* A wall inside the nominal is what a part cut into its nominal has.         *)
LEMMA GougesAreCuts ==
  ASSUME NEW part \in SUBSET Cells, NEW nominal \in SUBSET Cells
  PROVE  Gouges(part, nominal) = {} <=> NotCutInto(part, nominal)
<1>1. \A c \in Cells : c \in Int
  BY JobAssumption
<1>2. ASSUME Gouges(part, nominal) = {}, NEW c \in nominal, NEW d \in nominal, c + 1 = d
      PROVE  c \in part <=> d \in part
  <2>1. c \in Int /\ d \in Int /\ c - d = -1 /\ d - c = 1
    BY <1>1, <1>2
  <2>2. ASSUME c \in part, d \notin part PROVE <<c, d>> \in Gouges(part, nominal)
    BY <2>1, <2>2 DEF Gouges, Walls
  <2>3. ASSUME d \in part, c \notin part PROVE <<d, c>> \in Gouges(part, nominal)
    BY <2>1, <2>3 DEF Gouges, Walls
  <2> QED BY <1>2, <2>2, <2>3
<1>3. ASSUME NotCutInto(part, nominal), NEW w \in Gouges(part, nominal)
      PROVE  FALSE
  <2>1. PICK c \in part, d \in Cells \ part : w = <<c, d>>
    BY DEF Gouges, Walls
  <2>2. c \in nominal /\ d \in nominal /\ c - d \in {-1, 1}
    BY <2>1 DEF Gouges, Walls
  <2>3. c \in Int /\ d \in Int
    BY <1>1, <2>1
  <2>4. c + 1 = d \/ d + 1 = c
    BY <2>2, <2>3
  <2> QED BY <1>3, <2>1, <2>2, <2>4 DEF NotCutInto
<1> QED BY <1>2, <1>3 DEF NotCutInto

LEMMA VerdictIsTheMachines ==
  ASSUME Inv
  PROVE  PassMeansGoodPart
<1> USE DEF Inv
<1>1. SUFFICES ASSUME stage = "done"
               PROVE  Passes <=>
                        /\ \A j \in DOMAIN plan.setups : ~Unchecked(plan.setups[j])
                        /\ \A j \in DOMAIN plan.setups : \A h \in MachineHits(plan, j) : ~collides(h)
                        /\ plan.nominal # None /\ NotCutInto(FinishedPart(plan), plan.nominal)
  BY DEF PassMeansGoodPart, ReportIsPasses
<1>2. Loads(plan)
  BY JobAssumption DEF Types
<1> DEFINE n == Len(plan.setups)
<1>3. n \in Nat /\ DOMAIN plan.setups = 1 .. n
  BY <1>2, SetupTyped
<1>4. DOMAIN outcomes = 1 .. n
  BY <1>1, LenProperties DEF Types, Place, Over
<1> HIDE DEF n
<1>5. \A j \in 1 .. n : outcomes[j].checked = ~Unchecked(plan.setups[j])
  BY <1>4 DEF Refusals
<1>6. ~AnyUnchecked <=> \A j \in 1 .. n : ~Unchecked(plan.setups[j])
  BY <1>4, <1>5 DEF AnyUnchecked
<1>7. Collisions = {} <=> \A j \in 1 .. n : \A h \in outcomes[j].hits : ~collides(h)
  BY <1>4 DEF Collisions
<1>8. GougeState = "pass" <=> plan.nominal # None /\ NotCutInto(field, plan.nominal)
  <2>1. field \in SUBSET Cells
    BY DEF Types
  <2>2. ASSUME plan.nominal # None
        PROVE  Gouges(field, plan.nominal) = {} <=> NotCutInto(field, plan.nominal)
    BY <1>2, <2>1, <2>2, GougesAreCuts DEF Loads
  <2> QED BY <2>2 DEF GougeState
<1>9. CASE AnyUnchecked
  BY <1>3, <1>6, <1>9 DEF Passes
<1>10. CASE ~AnyUnchecked
  <2>1. \A j \in 1 .. n : outcomes[j].checked
    BY <1>4, <1>10 DEF AnyUnchecked
  <2>2. AllChecked
    BY <2>1, <1>4 DEF AllChecked
  <2>3. field = FinishedPart(plan)
    BY <2>2, <1>1 DEF Lockstep, Over
  <2>4. ASSUME NEW j \in 1 .. n PROVE outcomes[j].hits = MachineHits(plan, j)
    <3>1. \A i \in 1 .. j : outcomes[i].checked
      BY <2>1, <1>3
    <3> QED BY <3>1, <1>4 DEF HitsAreTheTrajectory
  <2> QED BY <1>3, <1>6, <1>7, <1>8, <1>10, <2>3, <2>4 DEF Passes
<1> QED BY <1>9, <1>10

(* Every job: it passes exactly when every setup was checked, the machine      *)
(* hits nothing in any of them, a nominal was given and the finished part has  *)
(* no wall inside it (compare's samples, of which only those inside are        *)
(* gouges, and the verdict of job()).                                          *)
THEOREM PassMeansGoodPartHolds == Spec => []PassMeansGoodPart
<1>1. Inv => PassMeansGoodPart
  BY VerdictIsTheMachines
<1> QED BY <1>1, InvHolds, PTL
=============================================================================
