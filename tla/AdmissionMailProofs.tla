------------------------- MODULE AdmissionMailProofs -------------------------
(***************************************************************************)
(* Admission and EmailOutbox, which share neither state nor names.         *)
(*                                                                         *)
(* Admission, for any users, quotas, workspaces, services, ports and       *)
(* operations: what COWS lets run is within the limits a start was checked *)
(* against, and a start finds a port for every service.  Both rest on      *)
(* there being one operation at a time that has been admitted, and on what *)
(* that one may still rely on of its check while reconciliation writes.    *)
(* Sums over a set of workspaces come first: that the order of summation   *)
(* does not matter, and that fewer or smaller terms come to less.          *)
(*                                                                         *)
(* EmailOutbox, for any letters, any number of deadlines, deletions and    *)
(* crashes: what the outbox counts is what the relay saw, and no deletion  *)
(* cancels its own notice.  Nothing of this is inductive by itself.  The   *)
(* deliveries of one text are counted in three places: in the row, in the  *)
(* copy that Deliver listed, and, between the relay's answer and the mark, *)
(* nowhere.  `Sent` and `Tried` follow the count through them; a crash     *)
(* loses what is nowhere.  `Ordered` says that a text which replaces       *)
(* another is a later one, of which nothing was sent before.  `Notices`    *)
(* says why only the last of two notices can replace one that is being     *)
(* delivered: the workspace is gone.                                       *)
(***************************************************************************)
EXTENDS Admission, EmailOutbox, FiniteSetTheorems, TLAPS

-----------------------------------------------------------------------------
(* Sums over finite sets *)

(* What SumOver folds with: the sum over each subset, element by element. *)
First(s) == CHOOSE x \in s : TRUE
Sums(g, f, S) ==
    g = [s \in SUBSET S |-> IF s = {} THEN 0 ELSE f[First(s)] + g[s \ {First(s)}]]

LEMMA SumIsChosen ==
  ASSUME NEW f, NEW S PROVE SumOver(f, S) = (CHOOSE g : Sums(g, f, S))[S]
BY DEF SumOver, FoldFunctionOnSet, MapThenFoldSet, Sums, First

(* Induction over the subsets of a finite set, of which H is a set. *)
LEMMA SetInduction ==
  ASSUME NEW S, IsFiniteSet(S), NEW H,
         \A T \in SUBSET S : (\A U \in SUBSET T : U # T => U \in H) => T \in H
  PROVE  S \in H
<1> DEFINE Bad == {T \in SUBSET S : T \notin H}
<1> SUFFICES ASSUME Bad # {} PROVE FALSE OBVIOUS
<1>1. IsWellFoundedOn(StrictSubsetOrdering(S), SUBSET S)
  <2>1. IsWellFoundedOn(StrictSubsetOrdering(S), FiniteSubsetsOf(S))
    BY FS_StrictSubsetOrderingWellFounded, Zenon
  <2>2. FiniteSubsetsOf(S) = SUBSET S BY FS_FiniteSubsetsOfFinite, Zenon
  <2> HIDE DEF Bad
  <2> QED BY <2>1, <2>2, Zenon
<1>2. PICK T \in Bad : \A U \in Bad : <<U, T>> \notin StrictSubsetOrdering(S)
  <2> HIDE DEF Bad
  <2>1. Bad \subseteq SUBSET S BY DEF Bad
  <2> QED BY <2>1, <1>1, WFMin
<1>3. ASSUME NEW U \in SUBSET T, U # T PROVE U \in H
  <2>1. U \in SUBSET S /\ T \in SUBSET S OBVIOUS
  <2>2. <<U, T>> \in StrictSubsetOrdering(S) BY <1>3, <2>1, Zenon DEF StrictSubsetOrdering
  <2> QED BY <1>2, <2>1, <2>2
<1> QED BY <1>3

LEMMA FirstIsIn == ASSUME NEW s, s # {} PROVE First(s) \in s
BY DEF First

LEMMA SumsApply ==
  ASSUME NEW g, NEW f, NEW S, Sums(g, f, S), NEW s \in SUBSET S
  PROVE  g[s] = IF s = {} THEN 0 ELSE f[First(s)] + g[s \ {First(s)}]
<1> DEFINE G == [t \in SUBSET S |-> IF t = {} THEN 0 ELSE f[First(t)] + g[t \ {First(t)}]]
<1>1. g = G BY DEF Sums
<1>2. G[s] = IF s = {} THEN 0 ELSE f[First(s)] + g[s \ {First(s)}] OBVIOUS
<1> QED BY <1>1, <1>2

LEMMA SumsAgree ==
  ASSUME NEW f, NEW A, NEW B, A \subseteq B, IsFiniteSet(A), NEW g, NEW h,
         Sums(g, f, A), Sums(h, f, B)
  PROVE  g[A] = h[A]
<1> DEFINE H == {T \in SUBSET A : g[T] = h[T]}
<1>1. ASSUME NEW T \in SUBSET A, \A U \in SUBSET T : U # T => U \in H PROVE T \in H
  <2>1. g[T] = IF T = {} THEN 0 ELSE f[First(T)] + g[T \ {First(T)}] BY SumsApply
  <2>2. h[T] = IF T = {} THEN 0 ELSE f[First(T)] + h[T \ {First(T)}] BY SumsApply
  <2>3. CASE T = {} BY <2>1, <2>2, <2>3
  <2>4. CASE T # {}
    <3>1. First(T) \in T BY <2>4, FirstIsIn
    <3>2. T \ {First(T)} \in H BY <3>1, <1>1
    <3> QED BY <2>1, <2>2, <2>4, <3>2
  <2> QED BY <2>3, <2>4
<1> HIDE DEF H
<1>2. A \in H BY <1>1, SetInduction
<1> QED BY <1>2 DEF H

LEMMA SumsExist ==
  ASSUME NEW f, NEW S, IsFiniteSet(S) PROVE \E g : Sums(g, f, S)
<1> DEFINE H == {T \in SUBSET S : \E g : Sums(g, f, T)}
           G(U) == CHOOSE g : Sums(g, f, U)
<1>1. ASSUME NEW T \in SUBSET S, \A U \in SUBSET T : U # T => U \in H PROVE T \in H
  <2> DEFINE F == First(T)
             g == [s \in SUBSET T |-> IF s = T
                      THEN IF T = {} THEN 0 ELSE f[F] + G(T \ {F})[T \ {F}]
                      ELSE G(s)[s]]
  <2>1. ASSUME NEW U \in SUBSET T, U # T PROVE Sums(G(U), f, U) BY <1>1, <2>1
  <2>2. ASSUME NEW s \in SUBSET T
        PROVE  g[s] = IF s = {} THEN 0 ELSE f[First(s)] + g[s \ {First(s)}]
    <3>1. CASE s = {} /\ s = T BY <3>1
    <3>2. CASE s = {} /\ s # T
      <4>1. g[s] = G(s)[s] BY <3>2
      <4>2. G(s)[s] = 0 BY <2>1, <3>2, SumsApply
      <4> QED BY <4>1, <4>2, <3>2
    <3>3. CASE s # {} /\ s = T
      <4>1. First(s) \in s BY <3>3, FirstIsIn
      <4>2. g[s \ {First(s)}] = G(s \ {First(s)})[s \ {First(s)}] BY <3>3, <4>1
      <4> QED BY <3>3, <4>2
    <3>4. CASE s # {} /\ s # T
      <4> DEFINE u == s \ {First(s)}
      <4>1. First(s) \in s BY <3>4, FirstIsIn
      <4>2. u \in SUBSET T /\ u # T /\ u \subseteq s BY <4>1
      <4>3. g[s] = G(s)[s] /\ g[u] = G(u)[u] BY <3>4, <4>2
      <4>4. Sums(G(s), f, s) /\ Sums(G(u), f, u) BY <2>1, <4>2, <3>4
      <4>5. G(s)[s] = f[First(s)] + G(s)[u] BY <4>4, <3>4, SumsApply
      <4>6. IsFiniteSet(u) BY <4>2, FS_Subset
      <4>7. G(u)[u] = G(s)[u]
        <5> HIDE DEF u, G
        <5> QED BY <4>4, <4>2, <4>6, SumsAgree
      <4> QED BY <4>3, <4>5, <4>7, <3>4
    <3> QED BY <3>1, <3>2, <3>3, <3>4
  <2>3. g = [s \in SUBSET T |-> IF s = {} THEN 0 ELSE f[First(s)] + g[s \ {First(s)}]]
    <3> DEFINE h == [s \in SUBSET T |-> IF s = {} THEN 0 ELSE f[First(s)] + g[s \ {First(s)}]]
    <3>1. \A s \in SUBSET T : g[s] = h[s] 
      <4> HIDE DEF g
      <4> QED BY <2>2
    <3>2. DOMAIN g = SUBSET T /\ DOMAIN h = SUBSET T OBVIOUS
    <3>3. g = [s \in DOMAIN g |-> g[s]] /\ h = [s \in DOMAIN h |-> h[s]] OBVIOUS
    <3> HIDE DEF g, h
    <3>4. g = h BY <3>1, <3>2, <3>3
    <3> QED BY <3>4 DEF h
  <2>4. Sums(g, f, T)
    <3> HIDE DEF g
    <3> QED BY <2>3 DEF Sums
  <2> QED BY <2>4
<1> HIDE DEF H
<1>2. S \in H BY <1>1, SetInduction
<1> QED BY <1>2 DEF H

LEMMA SumFirst ==
  ASSUME NEW f, NEW S, IsFiniteSet(S)
  PROVE  SumOver(f, S) = IF S = {} THEN 0 ELSE f[First(S)] + SumOver(f, S \ {First(S)})
<1> DEFINE G(U) == CHOOSE g : Sums(g, f, U)
<1>1. \A U \in SUBSET S : Sums(G(U), f, U) BY SumsExist, FS_Subset
<1>2. \A U : SumOver(f, U) = G(U)[U] BY SumIsChosen
<1> DEFINE u == S \ {First(S)}
<1>3. G(S)[S] = IF S = {} THEN 0 ELSE f[First(S)] + G(S)[u] BY <1>1, SumsApply
<1>4. G(u)[u] = G(S)[u]
  <2>1. u \in SUBSET S /\ u \subseteq S OBVIOUS
  <2>2. IsFiniteSet(u) BY <2>1, FS_Subset
  <2>3. Sums(G(S), f, S) /\ Sums(G(u), f, u) BY <1>1, <2>1
  <2> HIDE DEF u, G
  <2> QED BY <2>1, <2>2, <2>3, SumsAgree
<1>5. SumOver(f, S) = G(S)[S] /\ SumOver(f, u) = G(u)[u] BY <1>2
<1>6. SumOver(f, S) = IF S = {} THEN 0 ELSE f[First(S)] + SumOver(f, u)
  <2> HIDE DEF u, G
  <2> QED BY <1>3, <1>4, <1>5
<1> QED BY <1>6

LEMMA SumOfNaturals ==
  ASSUME NEW f, NEW S, IsFiniteSet(S), \A x \in S : f[x] \in Nat
  PROVE  SumOver(f, S) \in Nat
<1> DEFINE H == {T \in SUBSET S : SumOver(f, T) \in Nat}
<1>1. ASSUME NEW T \in SUBSET S, \A U \in SUBSET T : U # T => U \in H PROVE T \in H
  <2>1. IsFiniteSet(T) BY FS_Subset
  <2>2. SumOver(f, T) = IF T = {} THEN 0 ELSE f[First(T)] + SumOver(f, T \ {First(T)})
    BY <2>1, SumFirst
  <2>3. CASE T = {} BY <2>2, <2>3
  <2>4. CASE T # {}
    <3>1. First(T) \in T BY <2>4, FirstIsIn
    <3>2. T \ {First(T)} \in H BY <3>1, <1>1
    <3>3. f[First(T)] \in Nat /\ SumOver(f, T \ {First(T)}) \in Nat BY <3>1, <3>2
    <3>4. SumOver(f, T) = f[First(T)] + SumOver(f, T \ {First(T)}) BY <2>2, <2>4
    <3>5. SumOver(f, T) \in Nat BY <3>3, <3>4
    <3> QED BY <3>5
  <2> QED BY <2>3, <2>4
<1> HIDE DEF H
<1>2. S \in H BY <1>1, SetInduction
<1> QED BY <1>2 DEF H

LEMMA SumOfNone == ASSUME NEW f PROVE SumOver(f, {}) = 0
BY FS_EmptySet, SumFirst

(* The order does not matter: any element can be taken out. *)
LEMMA SumTaking ==
  ASSUME NEW f, NEW S, IsFiniteSet(S), \A x \in S : f[x] \in Nat, NEW a \in S
  PROVE  SumOver(f, S) = f[a] + SumOver(f, S \ {a})
<1> DEFINE H == {T \in SUBSET S : \A x \in T : SumOver(f, T) = f[x] + SumOver(f, T \ {x})}
<1>1. ASSUME NEW T \in SUBSET S, \A U \in SUBSET T : U # T => U \in H PROVE T \in H
  <2> SUFFICES ASSUME NEW x \in T PROVE SumOver(f, T) = f[x] + SumOver(f, T \ {x}) OBVIOUS
  <2> DEFINE c == First(T)
             rest == (T \ {x}) \ {c}
  <2>1. IsFiniteSet(T) BY FS_Subset
  <2>2. c \in T BY FirstIsIn
  <2>3. SumOver(f, T) = f[c] + SumOver(f, T \ {c}) BY <2>1, <2>2, SumFirst
  <2>4. CASE x = c BY <2>3, <2>4
  <2>5. CASE x # c
    <3>1. T \ {x} \in H /\ T \ {c} \in H BY <1>1, <2>2
    <3>2. x \in T \ {c} /\ c \in T \ {x} BY <2>2, <2>5
    <3>3. SumOver(f, T \ {c}) = f[x] + SumOver(f, (T \ {c}) \ {x}) BY <3>1, <3>2
    <3>4. SumOver(f, T \ {x}) = f[c] + SumOver(f, rest) BY <3>1, <3>2
    <3>5. (T \ {c}) \ {x} = rest OBVIOUS
    <3>6. rest \in SUBSET S /\ c \in S /\ x \in S BY <2>2
    <3>7. IsFiniteSet(rest) BY <3>6, FS_Subset
    <3>8. SumOver(f, rest) \in Nat BY <3>6, <3>7, SumOfNaturals
    <3>9. f[c] \in Nat /\ f[x] \in Nat BY <3>6
    <3> HIDE DEF c, rest, H
    <3>10. SumOver(f, T \ {c}) = f[x] + SumOver(f, rest) BY <3>3, <3>5
    <3> QED BY <2>3, <3>4, <3>8, <3>9, <3>10
  <2> QED BY <2>4, <2>5
<1> HIDE DEF H
<1>2. S \in H BY <1>1, SetInduction
<1> QED BY <1>2 DEF H

(* A sum over fewer elements, of terms that are not larger, is not larger. *)
LEMMA SumIsMonotone ==
  ASSUME NEW f, NEW g, NEW A, NEW B, A \subseteq B, IsFiniteSet(B), \A x \in B : g[x] \in Nat,
         \A x \in A : f[x] \in Nat /\ f[x] <= g[x]
  PROVE  SumOver(f, A) <= SumOver(g, B)
<1> DEFINE H == {T \in SUBSET B : SumOver(f, T \cap A) <= SumOver(g, T)}
<1>1. ASSUME NEW T \in SUBSET B, \A U \in SUBSET T : U # T => U \in H PROVE T \in H
  <2>1. CASE T = {}
    <3>1. T \cap A = {} BY <2>1
    <3>2. SumOver(f, T \cap A) = 0 /\ SumOver(g, T) = 0 BY <2>1, <3>1, SumOfNone
    <3>3. SumOver(f, T \cap A) <= SumOver(g, T) BY <3>2
    <3> QED BY <3>3
  <2>2. CASE T # {}
    <3>1. PICK x \in T : TRUE BY <2>2
    <3> DEFINE U == T \ {x}
    <3>2. U \in H /\ U \in SUBSET B /\ T \cap A \in SUBSET B /\ U \cap A \in SUBSET B BY <1>1
    <3>3. IsFiniteSet(T) /\ IsFiniteSet(U) /\ IsFiniteSet(T \cap A) /\ IsFiniteSet(U \cap A)
      BY <3>2, FS_Subset
    <3>4. SumOver(g, T) = g[x] + SumOver(g, U) BY <3>3, SumTaking
    <3>5. SumOver(g, U) \in Nat /\ SumOver(f, U \cap A) \in Nat BY <3>2, <3>3, SumOfNaturals
    <3>6. SumOver(f, U \cap A) <= SumOver(g, U) BY <3>2
    <3>7. CASE x \in A
      <4>1. x \in T \cap A /\ (T \cap A) \ {x} = U \cap A BY <3>7
      <4>2. SumOver(f, T \cap A) = f[x] + SumOver(f, (T \cap A) \ {x}) BY <4>1, <3>3, SumTaking
      <4>3. f[x] \in Nat /\ g[x] \in Nat /\ f[x] <= g[x] BY <3>7
      <4> HIDE DEF U
      <4>4. SumOver(f, T \cap A) = f[x] + SumOver(f, U \cap A) BY <4>1, <4>2
      <4>5. SumOver(f, T \cap A) <= SumOver(g, T) BY <3>4, <3>5, <3>6, <4>3, <4>4
      <4> QED BY <4>5
    <3>8. CASE x \notin A
      <4>1. T \cap A = U \cap A BY <3>8
      <4>2. g[x] \in Nat OBVIOUS
      <4>3. SumOver(f, T \cap A) = SumOver(f, U \cap A) BY <4>1
      <4> HIDE DEF U
      <4>4. SumOver(f, T \cap A) <= SumOver(g, T) BY <3>4, <3>5, <3>6, <4>2, <4>3
      <4> QED BY <4>4
    <3> QED BY <3>7, <3>8
  <2> QED BY <2>1, <2>2
<1> HIDE DEF H
<1>2. B \in H BY <1>1, SetInduction
<1>3. B \cap A = A OBVIOUS
<1> QED BY <1>2, <1>3 DEF H

Op == {"none", "create", "start", "stop", "delete", "timeout", "reconcile"}
Container == [id : 0..MaxContainer, port : Allocation,
              state : {"absent", "created", "running", "exited"}]
Task == [op : Op, at : Step, ws : Workspace \cup {None}, row : Row, limit : Limits,
         host : Capacity \cup {0}]

(* The steps an operation goes through. *)
Way(op) ==
    CASE op = "create" -> {"check", "insert", "reserve", "unrecord"}
      [] op = "start" -> {"check", "ports", "reserve", "create", "created", "boot", "booted"}
      [] op = "stop" -> {"await", "act", "halted"}
      [] op = "delete" -> {"await", "act", "removed"}
      [] op = "timeout" -> {"await", "act", "halted", "removed"}
      [] op = "reconcile" -> {"inspected", "write"}
      [] OTHER -> {"done"}

Proper(t) ==
    /\ t.op = "none" => t = Idle
    /\ t.op # "none" => t.ws \in Workspace
    /\ t.at \in Way(t.op)
    /\ t.op \in {"create", "start"} => t.row.owner # None

Admitted(t) == t.op \notin {"none", "reconcile"} /\ t.at # "await"
AdmittedHold == \A p \in Request : Admitted(task[p]) => admission = p

(* The types, and with them: which steps an operation goes through; that   *)
(* whoever is past its wait holds the mutex, but for reconciliation; that  *)
(* a row that is gone says nothing; that there is no container without an  *)
(* ID or the other way round.                                              *)
TasksWell == /\ task \in [Request -> Task] /\ \A q \in Request : Proper(task[q])
             /\ admission \in Request \cup {None} /\ AdmittedHold
RowsWell == /\ row \in [Workspace -> Row] /\ \A w \in Workspace : row[w].owner = None => row[w] = NoRow
            /\ raised \subseteq Workspace
PortsWell == port \in [Workspace -> Allocation]
ContainersWell == /\ container \in [Workspace -> Container] /\ made \in [Workspace -> 0..MaxContainer]
                  /\ \A w \in Workspace : container[w].id # 0 => container[w].state # "absent"
PolicyWell == /\ quota \in [User \cup Group -> Quota \cup {None}] /\ capacity \in Capacity
              /\ changes \in 0..MaxChange
Well == TasksWell /\ RowsWell /\ PortsWell /\ ContainersWell /\ PolicyWell

-----------------------------------------------------------------------------
(* Types *)

LEMMA WellMeans == Well => TypeOK
<1> SUFFICES ASSUME Well PROVE TypeOK OBVIOUS
<1>1. ASSUME NEW p \in Request
      PROVE  LET t == task[p] IN
          /\ t.op \in {"none", "create", "start", "stop", "delete", "timeout", "reconcile"}
          /\ t.at \in Step /\ t.ws \in Workspace \cup {None} /\ t.row \in Row
          /\ t.limit \in Limits /\ t.host \in Capacity \cup {0}
  BY DEF Well, TasksWell, Task, Op
<1> QED BY <1>1
      DEF Well, TasksWell, RowsWell, PortsWell, ContainersWell, PolicyWell, TypeOK, Container

LEMMA Constants ==
  /\ 0 \in 0..MaxLimit /\ 0 \in 0..MaxContainer
  /\ Size \subseteq 0..MaxLimit /\ Capacity \subseteq Nat /\ MaxLimit \in Nat
  /\ MaxContainer \in Nat /\ MaxChange \in Nat
  /\ NoRow \in Row /\ NoPorts \in Allocation /\ NoContainer \in Container
  /\ Unlimited \in Limits /\ Idle \in Task /\ Proper(Idle) /\ NoRow.owner = None
  /\ ~Admitted(Idle)
<1>1. 0 \in 0..MaxLimit /\ 0 \in 0..MaxContainer /\ Size \subseteq 0..MaxLimit /\ Capacity \subseteq Nat
      /\ MaxLimit \in Nat /\ MaxContainer \in Nat /\ MaxChange \in Nat
  BY AdmissionAssumption
<1>2. NoRow \in Row /\ NoRow.owner = None BY <1>1 DEF NoRow, Row, State
<1>3. NoPorts \in Allocation BY DEF NoPorts, Allocation
<1>4. NoContainer \in Container BY <1>1, <1>3 DEF NoContainer, Container
<1>5. Unlimited \in Limits BY <1>1 DEF Unlimited, Limits
<1>6. Idle \in Task BY <1>2, <1>5 DEF Idle, Task, Op, Step
<1>7. Proper(Idle) /\ ~Admitted(Idle) BY DEF Idle, Proper, Way, Admitted
<1> QED BY <1>1, <1>2, <1>3, <1>4, <1>5, <1>6, <1>7

LEMMA InitWell == Init => Well
<1> SUFFICES ASSUME Init PROVE Well OBVIOUS
<1>1. \A p \in Request : task[p] = Idle BY DEF Init
<1>2. task \in [Request -> Task] BY Constants, <1>1 DEF Init
<1>3. AdmittedHold BY <1>1, Constants DEF AdmittedHold
<1>4. TasksWell BY <1>1, <1>2, <1>3, Constants DEF TasksWell, Init
<1>5. RowsWell BY Constants DEF Init, RowsWell
<1>6. PortsWell BY Constants DEF Init, PortsWell
<1>7. ContainersWell
  <2>1. \A w \in Workspace : container[w].id = 0 BY DEF Init, NoContainer
  <2> QED BY <2>1, Constants DEF Init, ContainersWell
<1>8. PolicyWell BY AdmissionAssumption, Constants DEF Init, PolicyWell
<1> QED BY <1>4, <1>5, <1>6, <1>7, <1>8 DEF Well

(* An operation moves on, or ends, and nothing else about operations       *)
(* changes.                                                                *)
LEMMA Moving ==
  ASSUME TasksWell, NEW p \in Request, NEW t \in Task, Proper(t),
         task' = [task EXCEPT ![p] = t], Admitted(t) => admission' = p,
         \/ admission' = admission
         \/ admission' \in {p, None} /\ \A q \in Request \ {p} : ~Admitted(task[q])
  PROVE  TasksWell'
<1>1. task \in [Request -> Task] /\ (\A q \in Request : Proper(task[q]))
      /\ admission \in Request \cup {None} /\ AdmittedHold BY DEF TasksWell
<1>2. task'[p] = t /\ \A q \in Request \ {p} : task'[q] = task[q] BY <1>1
<1>3. task' \in [Request -> Task] BY <1>1
<1>4. \A q \in Request : Proper(task'[q]) BY <1>1, <1>2
<1>5. AdmittedHold'
  <2> SUFFICES ASSUME NEW q \in Request, Admitted(task'[q]) PROVE admission' = q
    BY DEF AdmittedHold, Admitted
  <2>1. CASE q = p BY <2>1, <1>2
  <2>2. CASE q # p BY <2>2, <1>1, <1>2 DEF AdmittedHold
  <2> QED BY <2>1, <2>2
<1>6. admission' \in Request \cup {None} BY <1>1
<1> QED BY <1>3, <1>4, <1>5, <1>6 DEF TasksWell

LEMMA Staying ==
  ASSUME TasksWell, NEW p \in Request, NEW t \in Task, Proper(t),
         task' = [task EXCEPT ![p] = t], UNCHANGED admission, Admitted(t) => Admitted(task[p])
  PROVE  TasksWell'
<1>1. Admitted(t) => admission' = p BY DEF TasksWell, AdmittedHold
<1> QED BY <1>1, Moving

LEMMA Acquiring ==
  ASSUME TasksWell, NEW p \in Request, NEW t \in Task, Proper(t), NEW w,
         task' = [task EXCEPT ![p] = t], AcquireAdmission(p, w)
  PROVE  TasksWell'
<1>1. None \notin Request BY AdmissionAssumption
<1>2. \A q \in Request \ {p} : ~Admitted(task[q])
  BY <1>1 DEF TasksWell, AdmittedHold, AcquireAdmission
<1>3. admission' = p BY DEF AcquireAdmission
<1> QED BY <1>2, <1>3, Moving

LEMMA Ending == ASSUME TasksWell, NEW p \in Request, End(p) PROVE TasksWell'
<1>1. task' = [task EXCEPT ![p] = Idle] /\ Idle \in Task /\ Proper(Idle) /\ ~Admitted(Idle)
  BY Constants DEF End
<1>2. CASE admission = p
  <2>1. \A q \in Request \ {p} : ~Admitted(task[q]) BY <1>2 DEF TasksWell, AdmittedHold
  <2>2. admission' = None BY <1>2 DEF End
  <2> QED BY <1>1, <2>1, <2>2, Moving
<1>3. CASE admission # p
  <2>1. admission' = admission BY <1>3 DEF End
  <2> QED BY <1>1, <2>1, Moving
<1> QED BY <1>2, <1>3

(* The common case: only the step changes. *)
LEMMA Going ==
  ASSUME TasksWell, NEW p \in Request, NEW at, at \in Way(task[p].op), at # "await",
         task[p].at # "await", task[p].op # "none", Goto(p, at), UNCHANGED admission
  PROVE  TasksWell'
<1> DEFINE t == [task[p] EXCEPT !.at = at]
<1>1. task[p] \in Task /\ Proper(task[p]) /\ task \in [Request -> Task] BY DEF TasksWell
<1>2. task' = [task EXCEPT ![p] = t] BY <1>1 DEF Goto, Task
<1>3. at \in Step BY <1>1 DEF Way, Step, Task, Op
<1>4. t \in Task BY <1>1, <1>3 DEF Task
<1>5. Proper(t) BY <1>1 DEF Proper, Task
<1>6. Admitted(t) => Admitted(task[p]) BY <1>1 DEF Admitted, Task
<1> QED BY <1>2, <1>4, <1>5, <1>6, Staying

LEMMA Observing ==
  ASSUME RowsWell, NEW w \in Workspace, NEW state \in State, NEW rid \in 0..MaxContainer,
         Observe(w, state, rid), raised' \subseteq Workspace
  PROVE  /\ RowsWell'
         /\ \A v \in Workspace : row'[v].owner = row[v].owner /\ row'[v].cpu = row[v].cpu
         /\ \A v \in Workspace \ {w} : row'[v] = row[v]
         /\ row[w].owner = None => row'[w] = row[w]
         /\ row[w].owner # None => row'[w].state = state
<1>1. row \in [Workspace -> Row] /\ \A v \in Workspace : row[v].owner = None => row[v] = NoRow
  BY DEF RowsWell
<1>2. CASE row[w].owner = None
  <2>1. row' = row BY <1>2 DEF Observe, Present
  <2> QED BY <1>1, <1>2, <2>1 DEF RowsWell
<1>3. CASE row[w].owner # None
  <2>1. row' = [row EXCEPT ![w] = [row[w] EXCEPT !.state = state, !.rid = rid]]
    BY <1>1, <1>3 DEF Observe, Present, Row
  <2>2. row[w] \in Row BY <1>1
  <2>3. [row[w] EXCEPT !.state = state, !.rid = rid] \in Row BY <2>2 DEF Row
  <2>4. row' \in [Workspace -> Row] BY <1>1, <2>1, <2>3
  <2>5. row'[w] = [row[w] EXCEPT !.state = state, !.rid = rid] /\ \A v \in Workspace \ {w} : row'[v] = row[v]
    BY <1>1, <2>1
  <2>6. row'[w].owner = row[w].owner /\ row'[w].cpu = row[w].cpu /\ row'[w].state = state
    BY <2>2, <2>5 DEF Row
  <2>7. \A v \in Workspace : row'[v].owner = row[v].owner /\ row'[v].cpu = row[v].cpu
    BY <2>5, <2>6
  <2>8. \A v \in Workspace : row'[v].owner = None => row'[v] = NoRow
    BY <1>1, <1>3, <2>5, <2>6
  <2> QED BY <1>3, <2>4, <2>5, <2>6, <2>7, <2>8 DEF RowsWell
<1> QED BY <1>2, <1>3

LEMMA Deleting ==
  ASSUME RowsWell, PortsWell, NEW w \in Workspace, DeleteRow(w) PROVE RowsWell' /\ PortsWell'
<1>1. row' \in [Workspace -> Row] /\ port' \in [Workspace -> Allocation]
  BY Constants DEF RowsWell, PortsWell, DeleteRow
<1>2. \A v \in Workspace : row'[v] = IF v = w THEN NoRow ELSE row[v] BY DEF RowsWell, DeleteRow
<1> QED BY <1>1, <1>2, Constants DEF RowsWell, PortsWell, DeleteRow

LEMMA LargestExists ==
  ASSUME NEW G \in SUBSET Int, IsFiniteSet(G), G # {}
  PROVE  \E m \in G : \A x \in G : x <= m
<1> DEFINE H == {T \in SUBSET G : T # {} => \E m \in T : \A x \in T : x <= m}
<1>1. ASSUME NEW T \in SUBSET G, \A U \in SUBSET T : U # T => U \in H PROVE T \in H
  <2> SUFFICES ASSUME T # {} PROVE \E m \in T : \A x \in T : x <= m OBVIOUS
  <2>1. PICK a \in T : TRUE OBVIOUS
  <2>2. T \ {a} \in H BY <1>1
  <2>3. CASE T \ {a} = {} 
    <3>1. \A x \in T : x <= a BY <2>3
    <3> QED BY <3>1
  <2>4. CASE T \ {a} # {}
    <3>1. PICK m \in T \ {a} : \A x \in T \ {a} : x <= m BY <2>2, <2>4
    <3>2. m \in Int /\ a \in Int OBVIOUS
    <3>3. CASE a <= m
      <4>1. \A x \in T : x <= m BY <3>1, <3>3
      <4> QED BY <4>1
    <3>4. CASE m <= a
      <4>1. \A x \in T : x \in Int /\ (x = a \/ x <= m) BY <3>1
      <4>2. \A x \in T : x <= a BY <4>1, <3>2, <3>4
      <4> QED BY <4>2
    <3> QED BY <3>2, <3>3, <3>4
  <2> QED BY <2>3, <2>4
<1> HIDE DEF H
<1>2. G \in H BY <1>1, SetInduction
<1> QED BY <1>2 DEF H

(* What the groups come to is a limit. *)
LEMMA AggregateTyped ==
  ASSUME NEW G \in SUBSET Group, NEW limit \in [G -> 0..MaxLimit]
  PROVE  AggregateLimit(G, limit) \in 0..MaxLimit
<1> DEFINE Before(g) == SumOver(limit, {h \in G : h < g})
           Last == {g \in G : limit[g] = 0 \/ Before(g) > MaxLimit - limit[g]}
<1>1. MaxLimit \in Nat /\ Groups \in Nat BY AdmissionAssumption
<1>2. Group \subseteq Int /\ IsFiniteSet(Group) BY <1>1, FS_Interval DEF Group
<1>3. IsFiniteSet(G) BY <1>2, FS_Subset
<1>4. \A x \in G : limit[x] \in Nat /\ limit[x] <= MaxLimit BY <1>1
<1>5. CASE Last = {}
  <2>1. AggregateLimit(G, limit) = SumOver(limit, G) BY <1>5 DEF AggregateLimit
  <2>2. SumOver(limit, G) \in Nat BY <1>3, <1>4, SumOfNaturals
  <2>3. SumOver(limit, G) <= MaxLimit
    <3>1. CASE G = {}
      <4>1. SumOver(limit, G) = 0 BY <3>1, SumOfNone
      <4> QED BY <4>1, <1>1
    <3>2. CASE G # {}
      <4>1. PICK m \in G : \A x \in G : x <= m BY <1>2, <1>3, <3>2, LargestExists
      <4>2. {h \in G : h < m} = G \ {m}
        <5>1. \A h \in G : h \in Int /\ m \in Int /\ h <= m BY <4>1, <1>2
        <5>2. \A h \in G : h < m <=> h # m BY <5>1
        <5> QED BY <5>2
      <4>3. Before(m) = SumOver(limit, G \ {m}) BY <4>2
      <4>4. SumOver(limit, G) = limit[m] + SumOver(limit, G \ {m}) BY <1>3, <1>4, SumTaking
      <4>5. ~(SumOver(limit, G \ {m}) > MaxLimit - limit[m]) BY <1>5, <4>3
      <4>6. IsFiniteSet(G \ {m}) BY <1>3, FS_Subset
      <4>7. SumOver(limit, G \ {m}) \in Nat BY <4>6, <1>4, SumOfNaturals
      <4>8. limit[m] \in Nat BY <1>4
      <4> HIDE DEF Before, Last
      <4> QED BY <4>4, <4>5, <4>7, <4>8, <1>1
    <3> QED BY <3>1, <3>2
  <2> QED BY <1>1, <2>1, <2>2, <2>3
<1>6. CASE Last # {}
  <2>1. AggregateLimit(G, limit) = 0 \/ AggregateLimit(G, limit) = MaxLimit
    BY <1>6 DEF AggregateLimit
  <2> QED BY <1>1, <2>1
<1> QED BY <1>5, <1>6

LEMMA LimitTyped ==
  ASSUME quota \in [User \cup Group -> Quota \cup {None}], NEW u \in User
  PROVE  LimitOf(u) \in Limits
<1>1. Quota \subseteq Limits BY AdmissionAssumption DEF Limits
<1>2. \A x \in User \cup Group : quota[x] # None => quota[x] \in Limits BY <1>1
<1>3. Assigned \subseteq Group /\ \A g \in Assigned : quota[g] \in Limits BY <1>2 DEF Assigned
<1>4. CASE quota[u] # None BY <1>2, <1>4, Constants DEF LimitOf, EffectiveQuota
<1>5. CASE quota[u] = None /\ Assigned = {} BY <1>5, Constants DEF LimitOf, EffectiveQuota
<1>6. CASE quota[u] = None /\ Assigned # {}
  <2> DEFINE cpus == [g \in Assigned |-> quota[g].cpu]
             rows == [g \in Assigned |-> quota[g].workspaces]
  <2>1. cpus \in [Assigned -> 0..MaxLimit] /\ rows \in [Assigned -> 0..MaxLimit]
    BY <1>3 DEF Limits
  <2>2. AggregateLimit(Assigned, cpus) \in 0..MaxLimit /\ AggregateLimit(Assigned, rows) \in 0..MaxLimit
    <3> HIDE DEF cpus, rows
    <3> QED BY <1>3, <2>1, AggregateTyped
  <2>3. EffectiveQuota(u) = [cpu |-> AggregateLimit(Assigned, cpus),
                             workspaces |-> AggregateLimit(Assigned, rows)]
    BY <1>6 DEF EffectiveQuota
  <2>4. EffectiveQuota(u) \in Limits
    <3> HIDE DEF cpus, rows
    <3> QED BY <2>2, <2>3 DEF Limits
  <2> QED BY <2>4, Constants DEF LimitOf
<1> QED BY <1>4, <1>5, <1>6

LEMMA TaskFacts ==
  ASSUME TasksWell, NEW p \in Request
  PROVE  /\ task[p] \in Task /\ Proper(task[p]) /\ task \in [Request -> Task]
         /\ Seen(p) \in Row /\ Seen(p).state \in State /\ Seen(p).rid \in 0..MaxContainer
         /\ Seen(p).cpu \in Nat
         /\ task[p].limit \in Limits /\ task[p].host \in Nat
         /\ task[p].at # "done" => task[p].op # "none"
         /\ task[p].op # "none" => task[p].ws \in Workspace
<1>1. task[p] \in Task /\ Proper(task[p]) /\ task \in [Request -> Task] BY DEF TasksWell
<1>2. Seen(p) \in Row /\ task[p].limit \in Limits /\ task[p].host \in Capacity \cup {0}
  BY <1>1 DEF Task, Seen
<1>3. Seen(p).state \in State /\ Seen(p).rid \in 0..MaxContainer /\ Seen(p).cpu \in 0..MaxLimit
  BY <1>2 DEF Row
<1>4. Seen(p).cpu \in Nat /\ task[p].host \in Nat
  <2>1. 0..MaxLimit \subseteq Nat /\ Capacity \cup {0} \subseteq Nat BY Constants
  <2> QED BY <1>2, <1>3, <2>1
<1>5. task[p].at # "done" => task[p].op # "none" BY <1>1 DEF Proper, Idle
<1>6. task[p].op # "none" => task[p].ws \in Workspace BY <1>1 DEF Proper
<1> QED BY <1>1, <1>2, <1>3, <1>4, <1>5, <1>6

(* Steps that leave the rest of the state alone keep its types. *)
LEMMA Untouched ==
  ASSUME Well
  PROVE  /\ UNCHANGED policy => PolicyWell'
         /\ UNCHANGED <<row, raised>> => RowsWell'
         /\ UNCHANGED port => PortsWell'
         /\ UNCHANGED <<container, made>> => ContainersWell'
         /\ TasksWell /\ RowsWell /\ PortsWell /\ ContainersWell /\ PolicyWell
BY DEF Well, RowsWell, PortsWell, ContainersWell, PolicyWell, policy

LEMMA PolicyChanges ==
  ASSUME Well, NEW x \in User \cup Group, NEW q \in Quota \cup {None}, Assign(x, q)
  PROVE  Well'
<1>1. quota' \in [User \cup Group -> Quota \cup {None}] BY Untouched DEF PolicyWell, Assign
<1>2. changes' \in 0..MaxChange BY Untouched, Constants DEF PolicyWell, Assign
<1>3. PolicyWell' BY <1>1, <1>2, Untouched DEF PolicyWell, Assign
<1>4. TasksWell' /\ RowsWell' /\ PortsWell' /\ ContainersWell'
  <2>1. UNCHANGED <<world, admission, task, raised>> BY DEF Assign
  <2> QED BY <2>1 DEF Well, TasksWell, RowsWell, PortsWell, ContainersWell, world, AdmittedHold, Admitted
<1> QED BY <1>3, <1>4 DEF Well

LEMMA CapacityChanges ==
  ASSUME Well, NEW c \in Capacity, SetCapacity(c)
  PROVE  Well'
<1>1. changes' \in 0..MaxChange BY Untouched, Constants DEF PolicyWell, SetCapacity
<1>2. PolicyWell' BY <1>1, Untouched DEF PolicyWell, SetCapacity
<1>3. TasksWell' /\ RowsWell' /\ PortsWell' /\ ContainersWell'
  <2>1. UNCHANGED <<world, admission, task, raised>> BY DEF SetCapacity
  <2> QED BY <2>1 DEF Well, TasksWell, RowsWell, PortsWell, ContainersWell, world, AdmittedHold, Admitted
<1> QED BY <1>2, <1>3 DEF Well

LEMMA ContainerSteps ==
  ASSUME ContainersWell, NEW w \in Workspace, NEW state \in {"running", "exited"},
         \/ container' = [container EXCEPT ![w].state = state]
         \/ container' = container
         \/ container' = [container EXCEPT ![w] = NoContainer],
         UNCHANGED made
  PROVE  ContainersWell'
<1>1. container \in [Workspace -> Container] /\ made \in [Workspace -> 0..MaxContainer]
      /\ \A v \in Workspace : container[v].id # 0 => container[v].state # "absent"
  BY DEF ContainersWell
<1>2. CASE container' = [container EXCEPT ![w].state = state]
  <2>1. [container[w] EXCEPT !.state = state] \in Container BY <1>1 DEF Container
  <2>2. container' = [container EXCEPT ![w] = [container[w] EXCEPT !.state = state]]
    BY <1>1, <1>2 DEF Container
  <2>3. \A v \in Workspace : container'[v].id = container[v].id
        /\ container'[v].state = IF v = w THEN state ELSE container[v].state
    BY <1>1, <1>2 DEF Container
  <2> QED BY <1>1, <2>1, <2>2, <2>3 DEF ContainersWell
<1>3. CASE container' = container BY <1>1, <1>3 DEF ContainersWell
<1>4. CASE container' = [container EXCEPT ![w] = NoContainer]
  <2>1. NoContainer.id = 0 BY DEF NoContainer
  <2> QED BY <1>1, <1>4, <2>1, Constants DEF ContainersWell
<1> QED BY <1>2, <1>3, <1>4

LEMMA ExitsWell ==
  ASSUME Well, NEW w \in Workspace, ContainerExits(w)
  PROVE  Well'
<1>1. ContainersWell' BY Untouched, ContainerSteps DEF ContainerExits
<1>2. UNCHANGED <<policy, row, port, made, admission, task, raised>> BY DEF ContainerExits
<1>3. TasksWell' /\ RowsWell' /\ PortsWell' /\ PolicyWell'
  BY <1>2 DEF Well, TasksWell, RowsWell, PortsWell, PolicyWell, policy, AdmittedHold, Admitted
<1> QED BY <1>1, <1>3 DEF Well

LEMMA BeginningWell ==
  ASSUME Well, NEW p \in Request, NEW w \in Workspace,
         \/ \E u \in User, cpu \in Size : BeginCreate(p, w, u, cpu)
         \/ BeginStart(p, w)
         \/ \E op \in {"stop", "delete", "timeout"} : BeginChange(p, op, w)
         \/ Inspect(p, w)
  PROVE  Well'
<1> USE Untouched
<1>1. UNCHANGED <<policy, world, raised>> 
  BY DEF BeginCreate, BeginStart, BeginChange, Inspect
<1>2. PolicyWell' /\ RowsWell' /\ PortsWell' /\ ContainersWell' BY <1>1 DEF world
<1>3. row[w] \in Row /\ container[w] \in Container BY DEF RowsWell, ContainersWell
<1>4. TasksWell'
  <2>1. ASSUME NEW u \in User, NEW cpu \in Size, BeginCreate(p, w, u, cpu) PROVE TasksWell'
    <3> DEFINE r == [NoRow EXCEPT !.owner = u, !.cpu = cpu]
               t == [Idle EXCEPT !.op = "create", !.at = "check", !.ws = w, !.row = r]
    <3>1. r \in Row BY Constants DEF NoRow, Row
    <3>2. u # None BY AdmissionAssumption
    <3>3. t \in Task BY <3>1, Constants DEF Task, Idle, Op, Step
    <3>4. Proper(t) BY <3>2 DEF Proper, Way, Idle, NoRow
    <3>5. task' = [task EXCEPT ![p] = t] /\ AcquireAdmission(p, w) BY <2>1 DEF BeginCreate
    <3> HIDE DEF t
    <3> QED BY <3>3, <3>4, <3>5, Acquiring
  <2>2. CASE BeginStart(p, w)
    <3> DEFINE t == [Idle EXCEPT !.op = "start", !.at = "check", !.ws = w, !.row = row[w]]
    <3>1. t \in Task BY <1>3, Constants DEF Task, Idle, Op, Step
    <3>2. Proper(t)
      <4>1. t.op = "start" /\ t.at = "check" /\ t.ws = w /\ t.row = row[w] BY DEF Idle
      <4>2. row[w].owner # None BY <2>2 DEF BeginStart, Present
      <4> HIDE DEF t
      <4> QED BY <4>1, <4>2 DEF Proper, Way
    <3>3. task' = [task EXCEPT ![p] = t] /\ AcquireAdmission(p, w) BY <2>2 DEF BeginStart
    <3> HIDE DEF t
    <3> QED BY <3>1, <3>2, <3>3, Acquiring
  <2>3. ASSUME NEW op \in {"stop", "delete", "timeout"}, BeginChange(p, op, w) PROVE TasksWell'
    <3> DEFINE t == [Idle EXCEPT !.op = op, !.at = "await", !.ws = w, !.row = row[w]]
    <3>1. t \in Task BY <1>3, Constants DEF Task, Idle, Op, Step
    <3>2. Proper(t) BY DEF Proper, Way, Idle
    <3>3. task' = [task EXCEPT ![p] = t] /\ UNCHANGED admission BY <2>3 DEF BeginChange
    <3>4. ~Admitted(t) BY DEF Admitted, Idle
    <3> HIDE DEF t
    <3> QED BY <3>1, <3>2, <3>3, <3>4, Staying
  <2>4. CASE Inspect(p, w)
    <3> DEFINE r == IF container[w].id = 0 THEN NoRow
                    ELSE [NoRow EXCEPT !.rid = container[w].id,
                                       !.state = NormalizeObservedState(container[w].state)]
               t == [Idle EXCEPT !.op = "reconcile", !.at = "inspected", !.ws = w, !.row = r]
    <3>1. r \in Row
      <4>1. CASE container[w].id = 0 BY <4>1, Constants
      <4>2. CASE container[w].id # 0
        <5>1. container[w].id \in 0..MaxContainer
              /\ container[w].state \in {"absent", "created", "running", "exited"}
          BY <1>3 DEF Container
        <5>2. container[w].state # "absent" BY <4>2 DEF ContainersWell
        <5>3. NormalizeObservedState(container[w].state) \in State
          BY <5>1, <5>2 DEF State, NormalizeObservedState
        <5> QED BY <4>2, <5>1, <5>3, Constants DEF Row, NoRow
      <4> QED BY <4>1, <4>2
    <3>2. t \in Task BY <3>1, Constants DEF Task, Idle, Op, Step
    <3>3. Proper(t) BY DEF Proper, Way, Idle
    <3>4. task' = [task EXCEPT ![p] = t] /\ UNCHANGED admission BY <2>4 DEF Inspect
    <3>5. ~Admitted(t) BY DEF Admitted, Idle
    <3> HIDE DEF t
    <3> QED BY <3>2, <3>3, <3>4, <3>5, Staying
  <2> QED BY <2>1, <2>2, <2>3, <2>4
<1> QED BY <1>2, <1>4 DEF Well

LEMMA AbandonWell == ASSUME Well, NEW p \in Request, Abandon(p) PROVE Well'
BY Untouched, Ending DEF Abandon, Well, world

LEMMA CreateWell ==
  ASSUME Well, NEW p \in Request, CheckCreate(p) \/ RecordWorkspace(p) \/ Unrecord(p)
  PROVE  Well'
<1> USE Untouched
<1> DEFINE w == task[p].ws
<1>1. task[p].op = "create" /\ task[p].at \in {"check", "insert", "unrecord"}
  BY DEF CheckCreate, RecordWorkspace, Unrecord, At
<1>2. task[p] \in Task /\ w \in Workspace /\ Seen(p) \in Row /\ Seen(p).owner \in User
      /\ Proper(task[p]) /\ task \in [Request -> Task]
  <2>1. Seen(p).owner # None BY <1>1, TaskFacts DEF Proper, Seen
  <2> QED BY <1>1, <2>1, TaskFacts DEF Row
<1>3. CASE CheckCreate(p)
  <2> DEFINE u == Seen(p).owner
             t == [task[p] EXCEPT !.limit = LimitOf(u), !.at = "insert"]
  <2>1. LimitOf(u) \in Limits BY <1>2, LimitTyped DEF PolicyWell
  <2>2. t \in Task /\ t.ws = task[p].ws /\ t.op = "create" /\ t.at = "insert" /\ t.row = task[p].row
    BY <1>1, <1>2, <2>1 DEF Task, Step
  <2>3. Proper(t) BY <1>1, <1>2, <2>2 DEF Proper, Way
  <2>4. Admitted(t) => Admitted(task[p]) BY <1>1 DEF Admitted
  <2>5. task' = [task EXCEPT ![p] = t] BY <1>2, <1>3 DEF CheckCreate, Task
  <2>6. UNCHANGED <<policy, world, admission, raised>> BY <1>3 DEF CheckCreate
  <2>7. TasksWell'
    <3> HIDE DEF t
    <3> QED BY <2>2, <2>3, <2>4, <2>5, <2>6, Staying
  <2> QED BY <2>6, <2>7 DEF Well, world
<1>4. CASE RecordWorkspace(p)
  <2>1. row' = [row EXCEPT ![w] = Seen(p)] BY <1>4 DEF RecordWorkspace
  <2>2. RowsWell' BY <1>2, <2>1, <1>4, AdmissionAssumption DEF RowsWell, RecordWorkspace
  <2>3. TasksWell' BY <1>1, <1>4, Going DEF RecordWorkspace, Way
  <2> QED BY <1>4, <2>2, <2>3 DEF Well, RecordWorkspace
<1>5. CASE Unrecord(p)
  <2>1. RowsWell' /\ PortsWell' BY <1>2, <1>5, Deleting DEF Unrecord
  <2>2. TasksWell' BY <1>5, Ending DEF Unrecord
  <2> QED BY <1>5, <2>1, <2>2 DEF Well, Unrecord
<1> QED BY <1>3, <1>4, <1>5

LEMMA PortSteps ==
  ASSUME PortsWell, NEW w \in Workspace
  PROVE  /\ [port EXCEPT ![w] = NoPorts] \in [Workspace -> Allocation]
         /\ \A s \in Service, n \in Port : [port EXCEPT ![w][s] = n] \in [Workspace -> Allocation]
<1>1. port \in [Workspace -> Allocation] BY DEF PortsWell
<1>2. ASSUME NEW s \in Service, NEW n \in Port
      PROVE  [port EXCEPT ![w][s] = n] \in [Workspace -> Allocation]
  <2>1. port[w] \in [Service -> Port \cup {None}] BY <1>1 DEF Allocation
  <2>2. [port[w] EXCEPT ![s] = n] \in Allocation BY <2>1 DEF Allocation
  <2>3. [port EXCEPT ![w][s] = n] = [port EXCEPT ![w] = [port[w] EXCEPT ![s] = n]] BY <1>1
  <2> QED BY <1>1, <2>2, <2>3
<1> QED BY <1>1, <1>2, Constants

LEMMA PortsStepWell ==
  ASSUME Well, NEW p \in Request,
         \/ \E n \in Port : ReservePort(p, n)
         \/ AllReserved(p) \/ PoolUnavailable(p) \/ EnsurePorts(p)
  PROVE  Well'
<1> USE Untouched
<1> DEFINE w == task[p].ws
<1>1. task[p].at \in {"reserve", "ports"} /\ task[p].op \in {"create", "start"} /\ w \in Workspace
  <2>1. task[p].at \in {"reserve", "ports"}
    BY DEF ReservePort, AllReserved, PoolUnavailable, EnsurePorts, At
  <2>2. task[p].op \in {"create", "start"} BY <2>1, TaskFacts DEF Proper, Way, Task, Op
  <2> QED BY <2>1, <2>2, TaskFacts
<1>2. UNCHANGED <<policy, row, container, made, raised>>
  BY DEF ReservePort, AllReserved, PoolUnavailable, EnsurePorts, world
<1>3. PortsWell'
  <2>1. ASSUME NEW n \in Port, ReservePort(p, n) PROVE PortsWell'
    BY <1>1, <2>1, PortSteps DEF ReservePort, Unreserved, PortsWell
  <2>2. CASE AllReserved(p) BY <2>2 DEF AllReserved, world
  <2>3. CASE PoolUnavailable(p) BY <1>1, <2>3, PortSteps DEF PoolUnavailable, PortsWell
  <2>4. CASE EnsurePorts(p) BY <1>1, <2>4, PortSteps DEF EnsurePorts, PortsWell
  <2> QED BY <2>1, <2>2, <2>3, <2>4
<1>4. TasksWell'
  <2>1. ASSUME NEW n \in Port, ReservePort(p, n) PROVE TasksWell'
    BY <2>1 DEF ReservePort, TasksWell, AdmittedHold, Admitted
  <2>2. CASE AllReserved(p)
    <3>1. CASE task[p].op = "start" BY <1>1, <2>2, <3>1, Going DEF AllReserved, Way
    <3>2. CASE task[p].op # "start" BY <2>2, <3>2, Ending DEF AllReserved
    <3> QED BY <3>1, <3>2
  <2>3. CASE PoolUnavailable(p)
    <3>1. CASE task[p].op = "create" BY <1>1, <2>3, <3>1, Going DEF PoolUnavailable, Way
    <3>2. CASE task[p].op # "create" BY <2>3, <3>2, Ending DEF PoolUnavailable
    <3> QED BY <3>1, <3>2
  <2>4. CASE EnsurePorts(p)
    <3>1. task[p].op = "start" /\ UNCHANGED admission BY <2>4 DEF EnsurePorts, At
    <3>2. Goto(p, "create") \/ Goto(p, "reserve") BY <2>4 DEF EnsurePorts
    <3>3. {"create", "reserve"} \subseteq Way(task[p].op) BY <3>1 DEF Way
    <3> QED BY <1>1, <3>1, <3>2, <3>3, Going
  <2> QED BY <2>1, <2>2, <2>3, <2>4
<1> QED BY <1>2, <1>3, <1>4 DEF Well

(* What a step observes, it writes to one row. *)
LEMMA ObservingEnds ==
  ASSUME Well, NEW p \in Request, task[p].op # "none", NEW state \in State, NEW rid \in 0..MaxContainer,
         Observe(task[p].ws, state, rid), raised' \subseteq Workspace, TasksWell',
         UNCHANGED <<policy, port, container, made>>
  PROVE  Well'
<1>1. task[p].ws \in Workspace BY TaskFacts DEF Well
<1>2. RowsWell' BY <1>1, Untouched, Observing
<1> QED BY <1>2, Untouched DEF Well

LEMMA StartWell ==
  ASSUME Well, NEW p \in Request,
         \/ CheckStart(p) \/ CreateContainer(p) \/ CreateRefused(p)
         \/ RecordCreated(p) \/ StartContainer(p) \/ StartRefused(p) \/ RecordRunning(p)
  PROVE  Well'
<1> USE Untouched
<1> DEFINE w == task[p].ws
<1>1. task[p].op = "start" /\ task[p].at \in {"check", "create", "created", "boot", "booted"}
  BY DEF CheckStart, CreateContainer, CreateRefused, RecordCreated, StartContainer, StartRefused,
         RecordRunning, At
<1>2. task[p] \in Task /\ w \in Workspace /\ Proper(task[p]) /\ task \in [Request -> Task]
      /\ Seen(p) \in Row /\ Seen(p).rid \in 0..MaxContainer
  BY <1>1, TaskFacts
<1>3. {"failed", "created", "running"} \subseteq State /\ 0 \in 0..MaxContainer
      /\ raised \subseteq Workspace /\ raised \ {w} \subseteq Workspace
  BY Constants DEF State, RowsWell
<1>4. CASE CheckStart(p)
  <2> DEFINE u == Seen(p).owner
             at == IF NeedsContainer(Seen(p)) THEN "ports" ELSE "boot"
             t == [task[p] EXCEPT !.limit = LimitOf(u), !.host = capacity, !.at = at]
  <2>0. u \in User BY <1>1, <1>2 DEF Proper, Seen, Row
  <2>1. LimitOf(u) \in Limits BY <2>0, LimitTyped DEF PolicyWell
  <2>2. at \in Step /\ at \in Way("start") /\ at # "await" /\ capacity \in Capacity
    BY DEF Step, Way, PolicyWell
  <2> HIDE DEF at
  <2>3. t \in Task /\ t.ws = task[p].ws /\ t.op = "start" /\ t.at = at
    BY <1>1, <1>2, <2>1, <2>2 DEF Task
  <2>4. Proper(t)
    <3>1. t.row = task[p].row BY <1>2 DEF Task
    <3> QED BY <1>1, <1>2, <2>2, <2>3, <3>1 DEF Proper
  <2>5. Admitted(t) => Admitted(task[p]) BY <1>1 DEF Admitted
  <2>6. task' = [task EXCEPT ![p] = t]
    <3>1. task' = [task EXCEPT ![p].limit = LimitOf(u), ![p].host = capacity, ![p].at = at]
      BY <1>4 DEF CheckStart, at
    <3> QED BY <1>2, <3>1 DEF Task
  <2>7. UNCHANGED <<policy, world, admission, raised>> BY <1>4 DEF CheckStart
  <2>8. TasksWell'
    <3> HIDE DEF t
    <3> QED BY <2>3, <2>4, <2>5, <2>6, <2>7, Staying
  <2> QED BY <2>7, <2>8 DEF Well, world
<1>5. CASE CreateContainer(p)
  <2> DEFINE n == made[w] + 1
             c == [id |-> n, state |-> "created", port |-> port[w]]
             t == [task[p] EXCEPT !.at = "created", !.row.rid = n]
  <2>1. made' = [made EXCEPT ![w] = n] /\ made[w] < MaxContainer BY <1>5 DEF CreateContainer
  <2>2. made[w] \in 0..MaxContainer /\ made \in [Workspace -> 0..MaxContainer] BY <1>2 DEF ContainersWell
  <2>3. n \in 0..MaxContainer /\ n # 0 BY <2>1, <2>2, Constants
  <2>4. made' \in [Workspace -> 0..MaxContainer] /\ made'[w] = n BY <1>2, <2>1, <2>2, <2>3
  <2>5. c \in Container BY <1>2, <2>3 DEF Container, PortsWell
  <2>6. container' = [container EXCEPT ![w] = c] BY <1>5, <2>4 DEF CreateContainer
  <2> HIDE DEF n
  <2>7. c.state # "absent" OBVIOUS
  <2>8. ContainersWell'
    <3> HIDE DEF c
    <3> QED BY <1>2, <2>4, <2>5, <2>6, <2>7 DEF ContainersWell
  <2>9. TasksWell'
    <3>1. [Seen(p) EXCEPT !.rid = n] \in Row BY <1>2, <2>3 DEF Row
    <3>2. t = [task[p] EXCEPT !.at = "created", !.row = [Seen(p) EXCEPT !.rid = n]]
      BY <1>2 DEF Task, Seen
    <3>3. t \in Task /\ t.ws = task[p].ws /\ t.op = "start" /\ t.at = "created"
      BY <1>1, <1>2, <3>1, <3>2 DEF Task, Step
    <3>4. Proper(t)
      <4>1. t.row.owner = task[p].row.owner BY <1>2, <3>2 DEF Row, Seen
      <4> QED BY <1>1, <1>2, <3>3, <4>1 DEF Proper, Way
    <3>5. Admitted(t) => Admitted(task[p]) BY <1>1 DEF Admitted
    <3>6. task' = [task EXCEPT ![p] = t]
      <4>1. task' = [task EXCEPT ![p].at = "created", ![p].row.rid = n]
        BY <1>5, <2>4 DEF CreateContainer
      <4> QED BY <1>2, <4>1 DEF Task
    <3>7. UNCHANGED admission BY <1>5 DEF CreateContainer
    <3> HIDE DEF t
    <3> QED BY <3>3, <3>4, <3>5, <3>6, <3>7, Staying
  <2>10. UNCHANGED <<policy, row, port, raised>> BY <1>5 DEF CreateContainer
  <2> QED BY <2>8, <2>9, <2>10 DEF Well
<1>6. CASE CreateRefused(p)
  <2>1. TasksWell' BY <1>6, Ending DEF CreateRefused
  <2> QED BY <1>1, <1>3, <1>6, <2>1, ObservingEnds DEF CreateRefused
<1>7. CASE RecordCreated(p)
  <2>1. TasksWell' BY <1>1, <1>7, Going DEF RecordCreated, Way
  <2> QED BY <1>1, <1>2, <1>3, <1>7, <2>1, ObservingEnds DEF RecordCreated
<1>8. CASE StartContainer(p)
  <2>1. TasksWell' BY <1>1, <1>8, Going DEF StartContainer, Way
  <2>2. ContainersWell' BY <1>2, <1>8, ContainerSteps DEF StartContainer
  <2> QED BY <1>8, <2>1, <2>2 DEF Well, StartContainer
<1>9. CASE StartRefused(p)
  <2>1. TasksWell' BY <1>9, Ending DEF StartRefused
  <2> QED BY <1>1, <1>2, <1>3, <1>9, <2>1, ObservingEnds DEF StartRefused
<1>10. CASE RecordRunning(p)
  <2>1. TasksWell' BY <1>10, Ending DEF RecordRunning
  <2> QED BY <1>1, <1>2, <1>3, <1>10, <2>1, ObservingEnds DEF RecordRunning
<1> QED BY <1>4, <1>5, <1>6, <1>7, <1>8, <1>9, <1>10

LEMMA ChangeWell ==
  ASSUME Well, NEW p \in Request,
         \/ ProceedToChange(p) \/ StopContainer(p) \/ RecordStopped(p) \/ RemoveContainer(p)
         \/ NothingToRemove(p) \/ ForgetWorkspace(p) \/ RecordRemoved(p)
  PROVE  Well'
<1> USE Untouched
<1> DEFINE w == task[p].ws
<1>1. /\ task[p].op \in {"stop", "delete", "timeout"}
      /\ task[p].at \in {"await", "act", "halted", "removed"}
  <2>1. task[p].at \in {"await", "act", "halted", "removed"}
    BY DEF ProceedToChange, StopContainer, RecordStopped, RemoveContainer, NothingToRemove,
           ForgetWorkspace, RecordRemoved, At
  <2> QED BY <2>1, TaskFacts DEF Proper, Way, Task, Op
<1>2. task[p] \in Task /\ w \in Workspace /\ Proper(task[p]) /\ task \in [Request -> Task]
      /\ Seen(p) \in Row /\ Seen(p).rid \in 0..MaxContainer
  BY <1>1, TaskFacts
<1>3. {"stopped", "removed"} \subseteq State /\ raised \subseteq Workspace /\ raised \ {w} \subseteq Workspace
  BY DEF State, RowsWell
<1>4. CASE ProceedToChange(p)
  <2> DEFINE t == [task[p] EXCEPT !.at = "act"]
  <2>1. t \in Task /\ t.at = "act" /\ t.op = task[p].op /\ t.ws = task[p].ws /\ t.row = task[p].row
    BY <1>2 DEF Task, Step
  <2>2. Proper(t) BY <1>1, <1>2, <2>1 DEF Proper, Way
  <2>3. task' = [task EXCEPT ![p] = t] /\ AcquireAdmission(p, task[p].ws)
    BY <1>2, <1>4 DEF ProceedToChange, Goto, Task
  <2>4. TasksWell'
    <3> HIDE DEF t
    <3> QED BY <2>1, <2>2, <2>3, Acquiring
  <2> QED BY <1>4, <2>4 DEF Well, ProceedToChange, world
<1>5. CASE StopContainer(p)
  <2>1. TasksWell'
    <3>1. "halted" \in Way(task[p].op) BY <1>5 DEF StopContainer, Way
    <3> QED BY <1>1, <1>5, <3>1, Going DEF StopContainer
  <2>2. ContainersWell'
    <3>1. container' = [container EXCEPT ![w].state = "exited"] \/ container' = container
      <4>1. CASE container[w].state = "running" BY <1>5, <4>1 DEF StopContainer
      <4>2. CASE container[w].state # "running"
        <5>1. container' = [container EXCEPT ![w] = [container[w] EXCEPT !.state = container[w].state]]
          BY <1>2, <1>5, <4>2 DEF StopContainer, ContainersWell, Container
        <5>2. [container[w] EXCEPT !.state = container[w].state] = container[w]
          BY <1>2 DEF ContainersWell, Container
        <5> QED BY <1>2, <5>1, <5>2 DEF ContainersWell
      <4> QED BY <4>1, <4>2
    <3>2. UNCHANGED made BY <1>5 DEF StopContainer
    <3> QED BY <1>2, <3>1, <3>2, ContainerSteps
  <2> QED BY <1>5, <2>1, <2>2 DEF Well, StopContainer
<1>6. CASE RecordStopped(p)
  <2>1. TasksWell' BY <1>6, Ending DEF RecordStopped
  <2> QED BY <1>1, <1>2, <1>3, <1>6, <2>1, ObservingEnds DEF RecordStopped
<1>7. CASE RemoveContainer(p)
  <2>1. TasksWell'
    <3>1. "removed" \in Way(task[p].op) BY <1>7 DEF RemoveContainer, Way
    <3> QED BY <1>1, <1>7, <3>1, Going DEF RemoveContainer
  <2>2. ContainersWell' BY <1>2, <1>7, ContainerSteps DEF RemoveContainer
  <2> QED BY <1>7, <2>1, <2>2 DEF Well, RemoveContainer
<1>8. CASE NothingToRemove(p)
  <2>1. TasksWell'
    <3>1. "removed" \in Way(task[p].op) /\ task[p].at = "act" BY <1>8 DEF NothingToRemove, At, Way
    <3> QED BY <1>1, <1>8, <3>1, Going DEF NothingToRemove
  <2> QED BY <1>8, <2>1 DEF Well, NothingToRemove, world
<1>9. CASE ForgetWorkspace(p)
  <2>1. RowsWell' /\ PortsWell' BY <1>2, <1>9, Deleting DEF ForgetWorkspace
  <2>2. TasksWell' BY <1>9, Ending DEF ForgetWorkspace
  <2> QED BY <1>9, <2>1, <2>2 DEF Well, ForgetWorkspace
<1>10. CASE RecordRemoved(p)
  <2>1. TasksWell' BY <1>10, Ending DEF RecordRemoved
  <2>2. PortsWell' BY <1>2, <1>10, PortSteps DEF RecordRemoved, PortsWell
  <2>3. RowsWell'
    <3>1. CASE Observe(w, "removed", Seen(p).rid) /\ raised' = raised \ {w}
      BY <1>2, <1>3, <3>1, Observing
    <3>2. CASE UNCHANGED <<row, raised>> BY <3>2
    <3> QED BY <1>10, <3>1, <3>2 DEF RecordRemoved
  <2> QED BY <1>10, <2>1, <2>2, <2>3 DEF Well, RecordRemoved
<1> QED BY <1>4, <1>5, <1>6, <1>7, <1>8, <1>9, <1>10

LEMMA ReconcileWell ==
  ASSUME Well, NEW p \in Request, ListRows(p) \/ RecordObserved(p)
  PROVE  Well'
<1> USE Untouched
<1> DEFINE w == task[p].ws
<1>1. task[p].op = "reconcile" /\ task[p].at \in {"inspected", "write"}
  BY DEF ListRows, RecordObserved, At
<1>2. task[p] \in Task /\ w \in Workspace /\ Proper(task[p]) /\ task \in [Request -> Task]
      /\ Seen(p) \in Row /\ Seen(p).rid \in 0..MaxContainer /\ Seen(p).state \in State
  BY <1>1, TaskFacts
<1>3. CASE ListRows(p)
  <2> DEFINE r == IF Seen(p).rid # 0 THEN Seen(p)
                  ELSE [NoRow EXCEPT !.rid = row[w].rid, !.state = "missing"]
             t == [task[p] EXCEPT !.at = "write", !.row = r]
  <2>1. r \in Row
    <3>1. row[w].rid \in 0..MaxContainer BY <1>2 DEF RowsWell, Row
    <3>2. [NoRow EXCEPT !.rid = row[w].rid, !.state = "missing"] \in Row
      BY <3>1, Constants DEF Row, NoRow, State
    <3> QED BY <1>2, <3>2
  <2> HIDE DEF r
  <2>2. t \in Task /\ t.at = "write" /\ t.op = "reconcile" /\ t.ws = task[p].ws
    BY <1>1, <1>2, <2>1 DEF Task, Step
  <2>3. Proper(t) BY <1>2, <2>2 DEF Proper, Way
  <2>4. task' = [task EXCEPT ![p] = t]
    <3>1. task' = [task EXCEPT ![p].at = "write", ![p].row =
              IF @.rid # 0 THEN @ ELSE [NoRow EXCEPT !.rid = row[w].rid, !.state = "missing"]]
      BY <1>3 DEF ListRows
    <3>2. task' = [task EXCEPT ![p] = [task[p] EXCEPT !.at = "write", !.row = r]]
      BY <1>2, <3>1 DEF Task, Seen, r
    <3> QED BY <3>2
  <2>5. ~Admitted(t) BY <2>2 DEF Admitted
  <2>6. TasksWell'
    <3>1. UNCHANGED admission BY <1>3 DEF ListRows
    <3> HIDE DEF t
    <3> QED BY <2>2, <2>3, <2>4, <2>5, <3>1, Staying
  <2> QED BY <1>3, <2>6 DEF Well, ListRows, world
<1>4. CASE RecordObserved(p)
  <2>1. TasksWell' BY <1>4, Ending DEF RecordObserved
  <2>2. raised' \subseteq Workspace BY <1>2, <1>4 DEF RecordObserved, RowsWell
  <2> QED BY <1>1, <1>2, <1>4, <2>1, <2>2, ObservingEnds DEF RecordObserved
<1> QED BY <1>3, <1>4

LEMMA NextWell == ASSUME Well, [Next]_vars PROVE Well'
<1>1. CASE UNCHANGED vars
  BY <1>1 DEF vars, policy, world, Well, TasksWell, RowsWell, PortsWell, ContainersWell, PolicyWell,
              AdmittedHold, Admitted
<1>2. ASSUME NEW p \in Request,
             Abandon(p) \/ Create(p) \/ Ports(p) \/ Start(p) \/ Change(p) \/ Reconcile(p)
      PROVE  Well'
  <2>1. CASE Abandon(p) BY <2>1, AbandonWell
  <2>2. CASE Create(p) BY <2>2, BeginningWell, CreateWell DEF Create
  <2>3. CASE Ports(p) BY <2>3, PortsStepWell DEF Ports
  <2>4. CASE Start(p) BY <2>4, BeginningWell, StartWell, PortsStepWell DEF Start
  <2>5. CASE Change(p) BY <2>5, BeginningWell, ChangeWell DEF Change
  <2>6. CASE Reconcile(p) BY <2>6, BeginningWell, ReconcileWell DEF Reconcile
  <2> QED BY <1>2, <2>1, <2>2, <2>3, <2>4, <2>5, <2>6
<1>3. ASSUME NEW w \in Workspace, ContainerExits(w) PROVE Well' BY <1>3, ExitsWell
<1>4. ASSUME NEW u \in User, NEW q \in Quota \cup {None}, SetQuota(u, q) PROVE Well'
  BY <1>4, PolicyChanges DEF SetQuota
<1>5. ASSUME NEW g \in Group, NEW q \in Quota \cup {None}, SetGroupQuota(g, q) PROVE Well'
  BY <1>5, PolicyChanges DEF SetGroupQuota
<1>6. ASSUME NEW c \in Capacity, SetCapacity(c) PROVE Well' BY <1>6, CapacityChanges
<1> QED BY <1>1, <1>2, <1>3, <1>4, <1>5, <1>6 DEF Next

(* Every field of Admission keeps its type, every operation goes through   *)
(* the steps of the code it stands for (Way), and whoever is past its wait *)
(* for the mutex holds it, but for reconciliation (AdmittedHold).          *)
THEOREM AdmissionTyped == Spec => [](TypeOK /\ Well)
<1>1. Spec => []Well BY InitWell, NextWell, PTL DEF Spec
<1> QED BY <1>1, WellMeans, PTL

LEMMA OneAdmitted ==
  ASSUME Well, NEW p \in Request, NEW q \in Request, Admitted(task[p]), Admitted(task[q])
  PROVE  p = q
BY DEF Well, TasksWell, AdmittedHold

(* A step of one operation is no step of another. *)
Steps(q) == Abandon(q) \/ Create(q) \/ Ports(q) \/ Start(q) \/ Change(q) \/ Reconcile(q)

LEMMA OthersWait ==
  ASSUME Well, NEW q \in Request, Steps(q)
  PROVE  \A p \in Request \ {q} : task'[p] = task[p]
<1>1. task \in [Request -> Task] BY DEF Well, TasksWell
<1>2. UNCHANGED task \/ \E t : task' = [task EXCEPT ![q] = t]
  <2>1. ASSUME NEW at, Goto(q, at) PROVE \E t : task' = [task EXCEPT ![q] = t]
    BY <2>1 DEF Goto
  <2>2. CASE End(q) BY <2>2 DEF End
  <2>3. CASE Abandon(q) BY <2>2, <2>3 DEF Abandon
  <2>4. CASE Create(q)
    <3>1. ASSUME NEW w, NEW u, NEW cpu, BeginCreate(q, w, u, cpu) PROVE \E t : task' = [task EXCEPT ![q] = t]
      BY <3>1 DEF BeginCreate
    <3>2. CASE CheckCreate(q) 
      <4>1. task' = [task EXCEPT ![q].limit = LimitOf(Seen(q).owner), ![q].at = "insert"]
        BY <3>2 DEF CheckCreate
      <4> QED BY <4>1
    <3>3. CASE RecordWorkspace(q) BY <2>1, <3>3 DEF RecordWorkspace
    <3>4. CASE Unrecord(q) BY <2>2, <3>4 DEF Unrecord
    <3> QED BY <2>4, <3>1, <3>2, <3>3, <3>4 DEF Create
  <2>5. CASE Ports(q) BY <2>1, <2>2, <2>5 DEF Ports, ReservePort, AllReserved, PoolUnavailable
  <2>6. CASE Start(q)
    <3>1. ASSUME NEW w, BeginStart(q, w) PROVE \E t : task' = [task EXCEPT ![q] = t]
      BY <3>1 DEF BeginStart
    <3>2. CASE CheckStart(q)
      <4> DEFINE at == IF NeedsContainer(Seen(q)) THEN "ports" ELSE "boot"
      <4>1. task' = [task EXCEPT ![q].limit = LimitOf(Seen(q).owner), ![q].host = capacity, ![q].at = at]
        BY <3>2 DEF CheckStart
      <4> QED BY <4>1
    <3>3. CASE CreateContainer(q)
      <4> DEFINE n == made'[task[q].ws]
      <4>1. task' = [task EXCEPT ![q].at = "created", ![q].row.rid = n] BY <3>3 DEF CreateContainer
      <4> QED BY <4>1
    <3>4. EnsurePorts(q) \/ RecordCreated(q) \/ StartContainer(q) => \E at : Goto(q, at)
      BY DEF EnsurePorts, RecordCreated, StartContainer
    <3>5. CreateRefused(q) \/ StartRefused(q) \/ RecordRunning(q) => End(q)
      BY DEF CreateRefused, StartRefused, RecordRunning
    <3> QED BY <2>1, <2>2, <2>6, <3>1, <3>2, <3>3, <3>4, <3>5 DEF Start
  <2>7. CASE Change(q)
    <3>1. ASSUME NEW op, NEW w, BeginChange(q, op, w) PROVE \E t : task' = [task EXCEPT ![q] = t]
      BY <3>1 DEF BeginChange
    <3>2. ProceedToChange(q) \/ StopContainer(q) \/ RemoveContainer(q) \/ NothingToRemove(q)
          => \E at : Goto(q, at)
      BY DEF ProceedToChange, StopContainer, RemoveContainer, NothingToRemove
    <3>3. RecordStopped(q) \/ ForgetWorkspace(q) \/ RecordRemoved(q) => End(q)
      BY DEF RecordStopped, ForgetWorkspace, RecordRemoved
    <3> QED BY <2>1, <2>2, <2>7, <3>1, <3>2, <3>3 DEF Change
  <2>8. CASE Reconcile(q)
    <3>1. ASSUME NEW w, Inspect(q, w) PROVE \E t : task' = [task EXCEPT ![q] = t]
      BY <3>1 DEF Inspect
    <3>2. CASE ListRows(q)
      <4> DEFINE r == IF Seen(q).rid # 0 THEN Seen(q)
                      ELSE [NoRow EXCEPT !.rid = row[task[q].ws].rid, !.state = "missing"]
      <4>1. task' = [task EXCEPT ![q].at = "write", ![q].row =
              IF @.rid # 0 THEN @ ELSE [NoRow EXCEPT !.rid = row[task[q].ws].rid, !.state = "missing"]]
        BY <3>2 DEF ListRows
      <4> QED BY <4>1
    <3>3. CASE RecordObserved(q) BY <2>2, <3>3 DEF RecordObserved
    <3> QED BY <2>8, <3>1, <3>2, <3>3 DEF Reconcile
  <2> QED BY <2>3, <2>4, <2>5, <2>6, <2>7, <2>8 DEF Steps
<1> QED BY <1>1, <1>2

LEMMA EquippedStays ==
  ASSUME Well, StartsFindTheirPorts, NEW q \in Request, Steps(q),
         UNCHANGED port \/ Admitted(task[q]),
         task'[q].at = "create" => Unreserved(task[q].ws)' = {} /\ task'[q].ws = task[q].ws
  PROVE  StartsFindTheirPorts'
<1> SUFFICES ASSUME NEW p \in Request, task'[p].op = "start", task'[p].at = "create"
             PROVE  Unreserved(task[p].ws)' = {} 
  BY DEF StartsFindTheirPorts, At
<1>1. CASE p = q BY <1>1
<1>2. CASE p # q
  <2>1. task'[p] = task[p] BY <1>2, OthersWait
  <2>2. Admitted(task[p]) BY <2>1 DEF Admitted
  <2>3. UNCHANGED port BY <1>2, <2>2, OneAdmitted
  <2>4. Unreserved(task[p].ws) = {} BY <2>1 DEF StartsFindTheirPorts, At
  <2> QED BY <2>1, <2>3, <2>4 DEF Unreserved
<1> QED BY <1>1, <1>2

LEMMA Arrives ==
  ASSUME Well, NEW q \in Request
  PROVE  /\ End(q) => task'[q].at = "done"
         /\ \A at : Goto(q, at) => task'[q].at = at /\ task'[q].ws = task[q].ws
                                   /\ task'[q].op = task[q].op /\ task'[q].row = task[q].row
                                   /\ task'[q].limit = task[q].limit /\ task'[q].host = task[q].host
<1>1. task \in [Request -> Task] BY DEF Well, TasksWell
<1> QED BY <1>1 DEF End, Goto, Idle, Task

LEMMA EquippedNext ==
  ASSUME Well, StartsFindTheirPorts, NEW q \in Request, Steps(q) PROVE StartsFindTheirPorts'
<1>1. Well /\ TasksWell /\ task \in [Request -> Task] /\ task[q] \in Task /\ Proper(task[q])
  BY DEF Well, TasksWell
<1>2. CASE End(q) /\ UNCHANGED port BY <1>2, Arrives, EquippedStays
<1>3. ASSUME NEW at, Goto(q, at), at # "create", UNCHANGED port PROVE StartsFindTheirPorts'
  BY <1>3, Arrives, EquippedStays
<1>4. CASE Abandon(q) BY <1>2, <1>4 DEF Abandon, world
<1>5. CASE Create(q)
  <2>1. ASSUME NEW w \in Workspace, NEW u \in User, NEW cpu \in Size, BeginCreate(q, w, u, cpu) PROVE StartsFindTheirPorts'
    <3>1. task'[q].at = "check" BY <2>1, <1>1 DEF BeginCreate, Idle
    <3>2. UNCHANGED port BY <2>1 DEF BeginCreate, world
    <3> QED BY <3>1, <3>2, EquippedStays
  <2>2. CASE CheckCreate(q)
    <3>1. task'[q].at = "insert" BY <2>2, <1>1 DEF CheckCreate, Task
    <3>2. UNCHANGED port BY <2>2 DEF CheckCreate, world
    <3> QED BY <3>1, <3>2, EquippedStays
  <2>3. CASE RecordWorkspace(q) BY <1>3, <2>3 DEF RecordWorkspace
  <2>4. CASE Unrecord(q)
    <3>1. End(q) /\ Admitted(task[q]) BY <2>4 DEF Unrecord, At, Admitted
    <3> QED BY <3>1, Arrives, EquippedStays
  <2> QED BY <1>5, <2>1, <2>2, <2>3, <2>4 DEF Create
<1>6. ASSUME task[q].at \in {"reserve", "ports"}, Goto(q, "create"), UNCHANGED port,
             Unreserved(task[q].ws) = {}
      PROVE StartsFindTheirPorts'
  <2>1. task'[q].ws = task[q].ws BY <1>6, Arrives
  <2>2. Unreserved(task[q].ws)' = {} BY <1>6, <2>1 DEF Unreserved
  <2> QED BY <1>6, <2>1, <2>2, EquippedStays
<1>7. ASSUME NEW at, at # "create", Admitted(task[q]), Goto(q, at) PROVE StartsFindTheirPorts'
  BY <1>7, Arrives, EquippedStays
<1>8. CASE End(q) /\ Admitted(task[q]) BY <1>8, Arrives, EquippedStays
<1>9. task[q].at \in {"reserve", "ports"} => Admitted(task[q])
  BY <1>1 DEF Proper, Way, Idle, Admitted, Task, Op
<1>10. CASE Ports(q)
  <2>1. ASSUME NEW n \in Port, ReservePort(q, n) PROVE StartsFindTheirPorts'
    <3>1. UNCHANGED task /\ task[q].at = "reserve" BY <2>1 DEF ReservePort
    <3> QED BY <3>1, <1>9, EquippedStays
  <2>2. CASE AllReserved(q)
    <3>1. UNCHANGED port BY <2>2 DEF AllReserved, world
    <3> QED BY <1>2, <1>6, <2>2, <3>1 DEF AllReserved
  <2>3. CASE PoolUnavailable(q) BY <1>7, <1>8, <1>9, <2>3 DEF PoolUnavailable
  <2> QED BY <1>10, <2>1, <2>2, <2>3 DEF Ports
<1>11. CASE Start(q)
  <2>1. ASSUME NEW w \in Workspace, BeginStart(q, w) PROVE StartsFindTheirPorts'
    <3>1. task'[q].at = "check" BY <2>1, <1>1 DEF BeginStart, Idle
    <3>2. UNCHANGED port BY <2>1 DEF BeginStart, world
    <3> QED BY <3>1, <3>2, EquippedStays
  <2>2. CASE CheckStart(q)
    <3>1. task'[q].at \in {"ports", "boot"} BY <2>2, <1>1 DEF CheckStart, Task
    <3>2. UNCHANGED port BY <2>2 DEF CheckStart, world
    <3> QED BY <3>1, <3>2, EquippedStays
  <2>3. CASE EnsurePorts(q)
    <3>1. CASE Unreserved(task[q].ws) = {} BY <1>6, <2>3, <3>1 DEF EnsurePorts, At
    <3>2. CASE Unreserved(task[q].ws) # {} BY <1>7, <1>9, <2>3, <3>2 DEF EnsurePorts, At
    <3> QED BY <3>1, <3>2
  <2>4. CASE CreateContainer(q)
    <3> DEFINE n == made'[task[q].ws]
    <3>1. task' = [task EXCEPT ![q].at = "created", ![q].row.rid = n] BY <2>4 DEF CreateContainer
    <3>2. task'[q].at = "created" BY <1>1, <3>1 DEF Task
    <3>3. UNCHANGED port BY <2>4 DEF CreateContainer
    <3> QED BY <3>2, <3>3, EquippedStays
  <2>5. CASE RecordCreated(q) BY <1>3, <2>5 DEF RecordCreated
  <2>6. CASE StartContainer(q) BY <1>3, <2>6 DEF StartContainer
  <2>7. CASE CreateRefused(q) \/ StartRefused(q) \/ RecordRunning(q)
    BY <1>2, <2>7 DEF CreateRefused, StartRefused, RecordRunning
  <2> QED BY <1>11, <2>1, <2>2, <2>3, <2>4, <2>5, <2>6, <2>7 DEF Start
<1>12. CASE Change(q)
  <2>1. ASSUME NEW w \in Workspace, NEW op \in {"stop", "delete", "timeout"}, BeginChange(q, op, w) PROVE StartsFindTheirPorts'
    <3>1. task'[q].at = "await" BY <2>1, <1>1 DEF BeginChange, Idle
    <3>2. UNCHANGED port BY <2>1 DEF BeginChange, world
    <3> QED BY <3>1, <3>2, EquippedStays
  <2>2. CASE ProceedToChange(q) \/ NothingToRemove(q)
    BY <1>3, <2>2 DEF ProceedToChange, NothingToRemove, world
  <2>3. CASE StopContainer(q) BY <1>3, <2>3 DEF StopContainer
  <2>4. CASE RemoveContainer(q) BY <1>3, <2>4 DEF RemoveContainer
  <2>5. CASE RecordStopped(q) BY <1>2, <2>5 DEF RecordStopped
  <2>6. CASE ForgetWorkspace(q) BY <1>8, <2>6 DEF ForgetWorkspace, At, Admitted
  <2>7. CASE RecordRemoved(q) BY <1>8, <2>7 DEF RecordRemoved, At, Admitted
  <2> QED BY <1>12, <2>1, <2>2, <2>3, <2>4, <2>5, <2>6, <2>7 DEF Change
<1>13. CASE Reconcile(q)
  <2>1. ASSUME NEW w \in Workspace, Inspect(q, w) PROVE StartsFindTheirPorts'
    <3>1. task'[q].at = "inspected" BY <2>1, <1>1 DEF Inspect, Idle
    <3>2. UNCHANGED port BY <2>1 DEF Inspect, world
    <3> QED BY <3>1, <3>2, EquippedStays
  <2>2. CASE ListRows(q)
    <3> DEFINE r == IF Seen(q).rid # 0 THEN Seen(q)
                    ELSE [NoRow EXCEPT !.rid = row[task[q].ws].rid, !.state = "missing"]
    <3>1. task' = [task EXCEPT ![q].at = "write", ![q].row =
            IF @.rid # 0 THEN @ ELSE [NoRow EXCEPT !.rid = row[task[q].ws].rid, !.state = "missing"]]
      BY <2>2 DEF ListRows
    <3>2. task'[q].at = "write" BY <1>1, <3>1 DEF Task
    <3>3. UNCHANGED port BY <2>2 DEF ListRows, world
    <3> QED BY <3>2, <3>3, EquippedStays
  <2>3. CASE RecordObserved(q) BY <1>2, <2>3 DEF RecordObserved
  <2> QED BY <1>13, <2>1, <2>2, <2>3 DEF Reconcile
<1> QED BY <1>4, <1>5, <1>10, <1>11, <1>12, <1>13 DEF Steps

(* What is not a step of an operation. *)
Aside == \/ UNCHANGED vars
         \/ \E w \in Workspace : ContainerExits(w)
         \/ \E u \in User, q \in Quota \cup {None} : SetQuota(u, q)
         \/ \E g \in Group, q \in Quota \cup {None} : SetGroupQuota(g, q)
         \/ \E c \in Capacity : SetCapacity(c)

LEMMA NextSplits == [Next]_vars => Aside \/ \E q \in Request : Steps(q)
BY DEF Next, Aside, Steps

LEMMA AsideLeaves == Aside => UNCHANGED <<row, port, made, admission, task, raised>>
BY DEF Aside, ContainerExits, SetQuota, SetGroupQuota, Assign, SetCapacity, vars, world

(* A start that is about to make the container has every port, since ports *)
(* are given back only under the mutex that it holds (ensureWorkspacePorts,*)
(* resolveConfiguration).                                                  *)
THEOREM StartsAreEquipped == Spec => []StartsFindTheirPorts
<1>1. Init => StartsFindTheirPorts
  BY DEF Init, StartsFindTheirPorts, At, Idle
<1>2. Well /\ StartsFindTheirPorts /\ [Next]_vars => StartsFindTheirPorts'
  <2> SUFFICES ASSUME Well, StartsFindTheirPorts, [Next]_vars PROVE StartsFindTheirPorts' OBVIOUS
  <2>1. CASE Aside BY <2>1, AsideLeaves DEF StartsFindTheirPorts, At, Unreserved
  <2>2. ASSUME NEW q \in Request, Steps(q) PROVE StartsFindTheirPorts' BY <2>2, EquippedNext
  <2> QED BY <2>1, <2>2, NextSplits
<1> QED BY <1>1, <1>2, InitWell, NextWell, PTL DEF Spec

-----------------------------------------------------------------------------
(* Limits *)

Owned(r, u) == {w \in Workspace : r[w].owner = u}
Used(r, S) == SumOver([w \in Workspace |-> r[w].cpu], S \cap {w \in Workspace : r[w].state = "running"})

(* What a handler may still rely on of its check: a create, that the rows  *)
(* of its user leave room for one more; a start, that its row is as it was *)
(* read, and that what runs - leaving aside its own workspace, and what    *)
(* reconciliation took to running - leaves room for it.                    *)
Roomy(t, r, x) ==
    LET u == t.row.owner  w == t.ws IN
    /\ t.op = "create" /\ t.at = "insert" =>
          Within(Cardinality(Owned(r, u)) + 1, t.limit.workspaces)
    /\ t.op = "start" => r[w].owner = u /\ r[w].cpu = t.row.cpu
    /\ t.op = "start" /\ t.at # "check" =>
          /\ Within(Used(r, (Owned(r, u) \ x) \ {w}) + t.row.cpu, t.limit.cpu)
          /\ Used(r, (Workspace \ x) \ {w}) + t.row.cpu <= t.host
Rooms == \A p \in Request : Roomy(task[p], row, raised)

LEMMA Readings ==
  /\ \A u : OwnedBy(u) = Owned(row, u)
  /\ \A S : Allocated(S) = Used(row, S)
BY DEF OwnedBy, Owned, Allocated, Used, Running

LEMMA UsedIsNatural ==
  ASSUME NEW r \in [Workspace -> Row], NEW S \in SUBSET Workspace PROVE Used(r, S) \in Nat
<1> DEFINE f == [w \in Workspace |-> r[w].cpu]
           T == S \cap {w \in Workspace : r[w].state = "running"}
<1>1. T \in SUBSET Workspace OBVIOUS
<1>2. IsFiniteSet(T) BY <1>1, FS_Subset, AdmissionAssumption
<1>3. \A w \in T : f[w] \in Nat
  <2>1. 0..MaxLimit \subseteq Nat BY Constants
  <2> QED BY <2>1 DEF Row
<1> HIDE DEF f, T
<1>4. SumOver(f, T) \in Nat BY <1>2, <1>3, SumOfNaturals
<1> QED BY <1>4 DEF Used, f, T

(* Fewer workspaces that run, none of them larger, use no more. *)
LEMMA UsedShrinks ==
  ASSUME NEW r \in [Workspace -> Row], NEW s \in [Workspace -> Row],
         NEW A \in SUBSET Workspace, NEW B \in SUBSET Workspace,
         \A v \in A : s[v].state = "running" => v \in B /\ r[v].state = "running" /\ s[v].cpu = r[v].cpu
  PROVE  Used(s, A) <= Used(r, B)
<1> DEFINE f == [w \in Workspace |-> s[w].cpu]
           g == [w \in Workspace |-> r[w].cpu]
           S == A \cap {w \in Workspace : s[w].state = "running"}
           T == B \cap {w \in Workspace : r[w].state = "running"}
<1>1. T \in SUBSET Workspace /\ S \subseteq T OBVIOUS
<1>2. IsFiniteSet(T) BY <1>1, FS_Subset, AdmissionAssumption
<1>3. \A w \in Workspace : g[w] \in Nat /\ f[w] \in Nat
  <2>1. 0..MaxLimit \subseteq Nat BY Constants
  <2> QED BY <2>1 DEF Row
<1>4. \A w \in S : f[w] = g[w] OBVIOUS
<1>5. (\A w \in T : g[w] \in Nat) /\ \A w \in S : f[w] \in Nat /\ f[w] <= g[w]
  <2> HIDE DEF f, g
  <2> QED BY <1>1, <1>3, <1>4
<1> HIDE DEF f, g, S, T
<1>6. SumOver(f, S) <= SumOver(g, T) BY <1>1, <1>2, <1>5, SumIsMonotone
<1> QED BY <1>6 DEF Used, f, g, S, T

(* One workspace more uses at most what it asks for. *)
LEMMA UsedWithOneMore ==
  ASSUME NEW r \in [Workspace -> Row], NEW S \in SUBSET Workspace, NEW w \in Workspace
  PROVE  Used(r, S) <= Used(r, S \ {w}) + r[w].cpu
<1> DEFINE f == [v \in Workspace |-> r[v].cpu]
           On == {v \in Workspace : r[v].state = "running"}
           T == S \cap On
<1>1. T \in SUBSET Workspace /\ (S \ {w}) \cap On = T \ {w} OBVIOUS
<1>2. IsFiniteSet(T) BY <1>1, FS_Subset, AdmissionAssumption
<1>3. \A v \in Workspace : f[v] \in Nat
  <2>1. 0..MaxLimit \subseteq Nat BY Constants
  <2> QED BY <2>1 DEF Row
<1>4. f[w] = r[w].cpu /\ f[w] \in Nat BY <1>3
<1>5. Used(r, S) = SumOver(f, T) /\ Used(r, S \ {w}) = SumOver(f, T \ {w}) BY <1>1 DEF Used
<1>6. Used(r, S) \in Nat /\ Used(r, S \ {w}) \in Nat
  <2>1. S \ {w} \in SUBSET Workspace OBVIOUS
  <2> QED BY <2>1, UsedIsNatural
<1>7. CASE w \in T
  <2> HIDE DEF f, T
  <2>1. SumOver(f, T) = f[w] + SumOver(f, T \ {w}) BY <1>1, <1>2, <1>3, <1>7, SumTaking
  <2> QED BY <1>4, <1>5, <1>6, <2>1
<1>8. CASE w \notin T
  <2>1. T \ {w} = T BY <1>8
  <2> HIDE DEF f, T
  <2>2. Used(r, S) = Used(r, S \ {w}) BY <1>5, <2>1
  <2> QED BY <1>4, <1>6, <2>2
<1> QED BY <1>7, <1>8

LEMMA WithinLess ==
  ASSUME NEW m \in Nat, NEW n \in Nat, NEW l \in Nat, m <= n, Within(n, l) PROVE Within(m, l)
BY DEF Within

(* What changes of other rows leave of it. *)
LEMMA RoomStays ==
  ASSUME NEW t \in Task, Proper(t), NEW r \in [Workspace -> Row], NEW s \in [Workspace -> Row],
         NEW x \in SUBSET Workspace, NEW y \in SUBSET Workspace, Roomy(t, r, x),
         \A v \in Workspace : s[v].owner = r[v].owner /\ s[v].cpu = r[v].cpu,
         \A v \in Workspace \ {t.ws} :
            s[v].state = "running" /\ v \notin y => r[v].state = "running" /\ v \notin x
  PROVE  Roomy(t, s, y)
<1> DEFINE u == t.row.owner
           w == t.ws
           c == t.row.cpu
<1>1. Owned(s, u) = Owned(r, u) BY DEF Owned
<1>2. t.op = "start" => w \in Workspace BY DEF Proper
<1>3. c \in Nat /\ t.limit.cpu \in Nat /\ t.host \in Nat
  <2>1. 0..MaxLimit \subseteq Nat /\ Capacity \cup {0} \subseteq Nat BY Constants
  <2> QED BY <2>1 DEF Task, Row, Limits
<1>4. ASSUME NEW S \in SUBSET Workspace
      PROVE  /\ Used(s, (S \ y) \ {w}) <= Used(r, (S \ x) \ {w})
             /\ Used(s, (S \ y) \ {w}) \in Nat /\ Used(r, (S \ x) \ {w}) \in Nat
  <2> DEFINE A == (S \ y) \ {w}
             B == (S \ x) \ {w}
  <2>1. A \in SUBSET Workspace /\ B \in SUBSET Workspace OBVIOUS
  <2>2. \A v \in A : s[v].state = "running" => v \in B /\ r[v].state = "running" /\ s[v].cpu = r[v].cpu
    OBVIOUS
  <2> HIDE DEF A, B
  <2>3. Used(s, A) <= Used(r, B) BY <2>1, <2>2, UsedShrinks
  <2>4. Used(s, A) \in Nat /\ Used(r, B) \in Nat BY <2>1, UsedIsNatural
  <2> QED BY <2>3, <2>4 DEF A, B
<1>5. CASE t.op = "start" /\ t.at # "check"
  <2> DEFINE m == Used(s, (Owned(s, u) \ y) \ {w})
             n == Used(r, (Owned(r, u) \ x) \ {w})
             i == Used(s, (Workspace \ y) \ {w})
             j == Used(r, (Workspace \ x) \ {w})
  <2>1. Owned(r, u) \in SUBSET Workspace /\ Workspace \in SUBSET Workspace BY DEF Owned
  <2>2. m <= n /\ i <= j /\ m \in Nat /\ n \in Nat /\ i \in Nat /\ j \in Nat BY <1>1, <1>4, <2>1
  <2>3. Within(n + c, t.limit.cpu) /\ j + c <= t.host BY <1>5 DEF Roomy
  <2>4. r[w].owner = u /\ r[w].cpu = c BY <1>5 DEF Roomy
  <2>5. s[w].owner = u /\ s[w].cpu = c BY <1>2, <1>5, <2>4
  <2>6. Within(m + c, t.limit.cpu) /\ i + c <= t.host
    <3> HIDE DEF m, n, i, j, c
    <3>1. m + c \in Nat /\ n + c \in Nat /\ m + c <= n + c /\ i + c <= j + c BY <1>3, <2>2
    <3>2. Within(m + c, t.limit.cpu) BY <1>3, <2>3, <3>1, WithinLess
    <3>3. i + c <= t.host BY <1>3, <2>2, <2>3
    <3> QED BY <3>2, <3>3
  <2> QED BY <1>5, <2>5, <2>6 DEF Roomy
<1>6. CASE t.op = "start" /\ t.at = "check" BY <1>2, <1>6 DEF Roomy
<1>7. CASE t.op # "start" BY <1>1, <1>7 DEF Roomy
<1> QED BY <1>5, <1>6, <1>7

(* Only who holds the mutex writes rows, and reconciliation. *)
LEMMA RowsStay ==
  ASSUME Well, NEW q \in Request, Steps(q), ~Admitted(task[q])
  PROVE  UNCHANGED <<row, raised>> \/ RecordObserved(q)
<1>1. Proper(task[q]) /\ task[q] \in Task BY TaskFacts DEF Well
<1>2. CASE Abandon(q) BY <1>2 DEF Abandon, world
<1>3. CASE Create(q)
  BY <1>3 DEF Create, BeginCreate, CheckCreate, RecordWorkspace, Unrecord, At, Admitted, world
<1>4. CASE Ports(q) BY <1>4 DEF Ports, ReservePort, AllReserved, PoolUnavailable, world
<1>5. CASE Start(q)
  BY <1>5 DEF Start, BeginStart, CheckStart, EnsurePorts, CreateContainer, CreateRefused, RecordCreated,
              StartContainer, StartRefused, RecordRunning, At, Admitted, world
<1>6. CASE Change(q)
  <2>1. RecordStopped(q) => Admitted(task[q])
    BY <1>1 DEF RecordStopped, Proper, Way, Admitted, Task, Op
  <2> QED BY <1>6, <2>1
       DEF Change, BeginChange, ProceedToChange, StopContainer, RemoveContainer, NothingToRemove,
           ForgetWorkspace, RecordRemoved, At, Admitted, world
<1>7. CASE Reconcile(q) BY <1>7 DEF Reconcile, Inspect, ListRows, world
<1> QED BY <1>2, <1>3, <1>4, <1>5, <1>6, <1>7 DEF Steps

LEMMA ObservedIsRaised ==
  ASSUME Well, NEW q \in Request, RecordObserved(q)
  PROVE  /\ \A v \in Workspace : row'[v].owner = row[v].owner /\ row'[v].cpu = row[v].cpu
         /\ \A v \in Workspace :
               row'[v].state = "running" /\ v \notin raised' => row[v].state = "running" /\ v \notin raised
         /\ row' \in [Workspace -> Row] /\ raised' \subseteq Workspace
<1> DEFINE w == task[q].ws
<1>1. TasksWell /\ RowsWell BY DEF Well
<1>2. task[q].op # "none" BY DEF RecordObserved, At
<1>3. w \in Workspace /\ Seen(q).state \in State /\ Seen(q).rid \in 0..MaxContainer
  BY <1>1, <1>2, TaskFacts
<1>4. raised' \subseteq Workspace BY <1>1, <1>3 DEF RecordObserved, RowsWell
<1>5. /\ RowsWell'
      /\ \A v \in Workspace : row'[v].owner = row[v].owner /\ row'[v].cpu = row[v].cpu
      /\ \A v \in Workspace \ {w} : row'[v] = row[v]
      /\ row[w].owner = None => row'[w] = row[w]
      /\ row[w].owner # None => row'[w].state = Seen(q).state
  BY <1>1, <1>3, <1>4, Observing DEF RecordObserved
<1>6. ASSUME NEW v \in Workspace, row'[v].state = "running", v \notin raised'
      PROVE  row[v].state = "running" /\ v \notin raised
  <2>1. CASE v # w
    <3>1. row'[v] = row[v] BY <1>5, <2>1
    <3>2. v \in raised' <=> v \in raised BY <2>1 DEF RecordObserved
    <3> QED BY <1>6, <3>1, <3>2
  <2>2. CASE v = w /\ row[w].owner = None
    <3>1. row'[v] = NoRow BY <1>1, <1>5, <2>2 DEF RowsWell
    <3> QED BY <1>6, <3>1 DEF NoRow
  <2>3. CASE v = w /\ row[w].owner # None
    <3>1. Seen(q).state = "running" BY <1>5, <1>6, <2>3
    <3>2. row[w].state = "running" /\ raised' = raised
      BY <1>6, <2>3, <3>1 DEF RecordObserved, Present
    <3> QED BY <1>6, <2>3, <3>2
  <2> QED BY <2>1, <2>2, <2>3
<1> QED BY <1>4, <1>5, <1>6 DEF RowsWell

LEMMA RoomOfOthers ==
  ASSUME Well, Well', Rooms, NEW q \in Request, Steps(q), NEW p \in Request, p # q
  PROVE  Roomy(task'[p], row', raised')
<1>1. task'[p] = task[p] BY OthersWait
<1>2. task[p] \in Task /\ Proper(task[p]) BY TaskFacts DEF Well
<1>3. Roomy(task[p], row, raised) BY DEF Rooms
<1>4. CASE task[p].op \notin {"create", "start"} BY <1>1, <1>4 DEF Roomy
<1>5. CASE task[p].op \in {"create", "start"}
  <2>1. Admitted(task[p]) BY <1>2, <1>5 DEF Proper, Way, Admitted
  <2>2. ~Admitted(task[q]) BY <2>1, OneAdmitted
  <2>3. CASE UNCHANGED <<row, raised>> BY <1>1, <1>3, <2>3
  <2>4. CASE RecordObserved(q)
    <3>1. row \in [Workspace -> Row] /\ raised \subseteq Workspace BY DEF Well, RowsWell
    <3>2. Roomy(task[p], row', raised') BY <1>2, <1>3, <2>4, <3>1, ObservedIsRaised, RoomStays
    <3> QED BY <1>1, <3>2
  <2> QED BY <2>2, <2>3, <2>4, RowsStay
<1> QED BY <1>4, <1>5

LEMMA SameRoom ==
  ASSUME NEW t, NEW s, NEW r, NEW x, Roomy(t, r, x), t.op = "start", t.at # "check", s.op = "start",
         s.ws = t.ws, s.row.owner = t.row.owner, s.row.cpu = t.row.cpu, s.limit = t.limit, s.host = t.host
  PROVE  Roomy(s, r, x)
BY DEF Roomy

LEMMA CheckedCreate ==
  ASSUME Well, NEW q \in Request, CheckCreate(q) PROVE Roomy(task'[q], row', raised')
<1> DEFINE u == Seen(q).owner
<1>1. task[q] \in Task /\ task \in [Request -> Task] BY TaskFacts DEF Well
<1>2. task'[q].op = "create" /\ task'[q].row = task[q].row /\ task'[q].limit = LimitOf(u)
  BY <1>1 DEF CheckCreate, At, Task
<1>3. Within(Cardinality(Owned(row, u)) + 1, LimitOf(u).workspaces) BY Readings DEF CheckCreate
<1>4. row' = row BY DEF CheckCreate, world
<1> QED BY <1>2, <1>3, <1>4 DEF Roomy, Seen

LEMMA CheckedStart ==
  ASSUME Well, Rooms, NEW q \in Request, CheckStart(q) PROVE Roomy(task'[q], row', raised')
<1> DEFINE u == Seen(q).owner
           w == task[q].ws
           c == Seen(q).cpu
           limit == LimitOf(u)
<1>1. /\ task[q] \in Task /\ task \in [Request -> Task] /\ Proper(task[q]) /\ c \in Nat
      /\ task[q].op = "start" /\ w \in Workspace
  BY TaskFacts DEF Well, CheckStart, At
<1>2. u \in User BY <1>1 DEF Proper, Seen, Task, Row
<1>3. /\ task'[q].op = "start" /\ task'[q].row = task[q].row /\ task'[q].ws = w
      /\ task'[q].limit = limit /\ task'[q].host = capacity
  BY <1>1 DEF CheckStart, Task
<1>4. row' = row /\ raised' = raised BY DEF CheckStart, world
<1>5. row \in [Workspace -> Row] /\ capacity \in Nat /\ limit.cpu \in Nat
  <2>1. limit \in Limits BY <1>2, LimitTyped DEF Well, PolicyWell
  <2>2. 0..MaxLimit \subseteq Nat /\ Capacity \subseteq Nat BY Constants
  <2> QED BY <2>1, <2>2 DEF Well, RowsWell, PolicyWell, Limits
<1>6. Within(Used(row, Owned(row, u)) + c, limit.cpu) /\ Used(row, Workspace) + c <= capacity
  BY Readings DEF CheckStart
<1>7. ASSUME NEW S \in SUBSET Workspace
      PROVE  /\ Used(row, (S \ raised) \ {w}) <= Used(row, S)
             /\ Used(row, (S \ raised) \ {w}) \in Nat /\ Used(row, S) \in Nat
  <2> DEFINE A == (S \ raised) \ {w}
  <2>1. A \in SUBSET Workspace /\ A \subseteq S OBVIOUS
  <2> HIDE DEF A
  <2>2. Used(row, A) <= Used(row, S) BY <1>5, <2>1, UsedShrinks
  <2> QED BY <1>5, <2>1, <2>2, UsedIsNatural DEF A
<1>8. Owned(row, u) \in SUBSET Workspace /\ Workspace \in SUBSET Workspace BY DEF Owned
<1> DEFINE m == Used(row, (Owned(row, u) \ raised) \ {w})
           n == Used(row, Owned(row, u))
           i == Used(row, (Workspace \ raised) \ {w})
           j == Used(row, Workspace)
<1>9. m <= n /\ i <= j /\ m \in Nat /\ n \in Nat /\ i \in Nat /\ j \in Nat BY <1>7, <1>8
<1>10. Within(m + c, limit.cpu) /\ i + c <= capacity
  <2>1. Within(n + c, limit.cpu) /\ j + c <= capacity BY <1>6
  <2>2. c \in Nat /\ limit.cpu \in Nat /\ capacity \in Nat BY <1>1, <1>5
  <2> HIDE DEF m, n, i, j, c, limit
  <2>3. m + c \in Nat /\ n + c \in Nat /\ m + c <= n + c /\ i + c <= j + c BY <1>9, <2>2
  <2>4. Within(m + c, limit.cpu) BY <2>1, <2>2, <2>3, WithinLess
  <2>5. i + c <= capacity BY <1>9, <2>1, <2>2
  <2> QED BY <2>4, <2>5
<1>11. row[w].owner = u /\ row[w].cpu = c BY <1>1 DEF Rooms, Roomy, Seen
<1> QED BY <1>3, <1>4, <1>10, <1>11 DEF Roomy, Seen

LEMMA RoomOfOwn ==
  ASSUME Well, Rooms, NEW q \in Request, Steps(q)
  PROVE  Roomy(task'[q], row', raised')
<1> DEFINE Kept == Roomy(task'[q], row', raised')
           w == task[q].ws
<1>1. task[q] \in Task /\ task \in [Request -> Task] /\ Proper(task[q]) /\ Roomy(task[q], row, raised)
  BY TaskFacts DEF Well, Rooms
<1>2. ASSUME task'[q].op \notin {"create", "start"} PROVE Kept BY <1>2 DEF Roomy
<1>3. ASSUME task'[q].op = "create", task'[q].at # "insert" PROVE Kept BY <1>3 DEF Roomy
<1>4. CASE End(q)
  <2>1. task'[q] = Idle BY <1>1, <1>4 DEF End
  <2> QED BY <1>2, <2>1 DEF Idle
<1>5. ASSUME task[q].op \notin {"create", "start"}, NEW at, Goto(q, at) PROVE Kept
  BY <1>2, <1>5, Arrives
<1>6. ASSUME task[q].op = "create", NEW at, at # "insert", Goto(q, at) PROVE Kept
  BY <1>3, <1>6, Arrives
<1>7. ASSUME task[q].op = "start", task[q].at # "check", NEW at, Goto(q, at), UNCHANGED <<row, raised>> PROVE Kept
  BY <1>1, <1>7, Arrives, SameRoom
<1>8. CASE Abandon(q) BY <1>4, <1>8 DEF Abandon
<1>9. CASE Create(q)
  <2>1. ASSUME NEW v \in Workspace, NEW u \in User, NEW cpu \in Size, BeginCreate(q, v, u, cpu) PROVE Kept
    <3>1. task'[q].op = "create" /\ task'[q].at = "check" BY <1>1, <2>1 DEF BeginCreate, Idle
    <3> QED BY <1>3, <3>1
  <2>2. CASE CheckCreate(q) BY <2>2, CheckedCreate
  <2>3. CASE RecordWorkspace(q) BY <1>6, <2>3 DEF RecordWorkspace, At
  <2>4. CASE Unrecord(q) BY <1>4, <2>4 DEF Unrecord
  <2> QED BY <1>9, <2>1, <2>2, <2>3, <2>4 DEF Create
<1>10. task[q].at = "reserve" => task[q].op \in {"create", "start"}
  BY <1>1 DEF Proper, Way, Task, Op
<1>11. CASE Ports(q)
  <2>1. task[q].at = "reserve" /\ UNCHANGED <<row, raised>>
    BY <1>11 DEF Ports, ReservePort, AllReserved, PoolUnavailable, world
  <2>2. CASE UNCHANGED task BY <1>1, <2>1, <2>2
  <2>3. ASSUME NEW at, at # "insert", Goto(q, at) PROVE Kept BY <1>6, <1>7, <1>10, <2>1, <2>3
  <2> QED BY <1>4, <1>11, <2>2, <2>3 DEF Ports, ReservePort, AllReserved, PoolUnavailable
<1>12. CASE Start(q)
  <2>1. ASSUME NEW v \in Workspace, BeginStart(q, v) PROVE Kept
    <3>1. task'[q].op = "start" /\ task'[q].at = "check" /\ task'[q].ws = v /\ task'[q].row = row[v]
      BY <1>1, <2>1 DEF BeginStart, Idle
    <3>2. row' = row BY <2>1 DEF BeginStart, world
    <3> QED BY <3>1, <3>2 DEF Roomy
  <2>2. CASE CheckStart(q) BY <2>2, CheckedStart
  <2>3. CASE EnsurePorts(q)
    <3>1. \E at : Goto(q, at) BY <2>3 DEF EnsurePorts
    <3>2. task[q].op = "start" /\ task[q].at = "ports" /\ UNCHANGED <<row, raised>>
      BY <2>3 DEF EnsurePorts, At
    <3> QED BY <1>7, <3>1, <3>2
  <2>4. CASE CreateContainer(q)
    <3> DEFINE n == made'[w]
    <3>1. task' = [task EXCEPT ![q].at = "created", ![q].row.rid = n] BY <2>4 DEF CreateContainer
    <3>2. task[q].row \in Row BY <1>1 DEF Task
    <3>3. /\ task'[q].op = task[q].op /\ task'[q].ws = w /\ task'[q].limit = task[q].limit
          /\ task'[q].host = task[q].host /\ task'[q].row.owner = task[q].row.owner
          /\ task'[q].row.cpu = task[q].row.cpu
      BY <1>1, <3>1, <3>2 DEF Task, Row
    <3>4. task[q].op = "start" /\ task[q].at = "create" /\ UNCHANGED <<row, raised>>
      BY <2>4 DEF CreateContainer, At
    <3> QED BY <1>1, <3>3, <3>4, SameRoom
  <2>5. CASE RecordCreated(q)
    <3>1. task[q].op = "start" /\ task[q].at = "created" BY <2>5 DEF RecordCreated, At
    <3>2. w \in Workspace /\ Seen(q).rid \in 0..MaxContainer /\ RowsWell
      BY <3>1, TaskFacts DEF Well
    <3>3. Observe(w, "created", Seen(q).rid) /\ raised' = raised \ {w} /\ Goto(q, "boot")
      BY <2>5 DEF RecordCreated
    <3>4. raised' \subseteq Workspace /\ raised \subseteq Workspace /\ row \in [Workspace -> Row]
      BY <3>2, <3>3 DEF RowsWell
    <3>5. /\ row' \in [Workspace -> Row]
          /\ \A v \in Workspace : row'[v].owner = row[v].owner /\ row'[v].cpu = row[v].cpu
          /\ \A v \in Workspace \ {w} : row'[v] = row[v]
      BY <3>2, <3>3, <3>4, Observing DEF State, RowsWell
    <3>6. \A v \in Workspace \ {w} :
             row'[v].state = "running" /\ v \notin raised' => row[v].state = "running" /\ v \notin raised
      BY <3>3, <3>5
    <3>7. Roomy(task[q], row', raised') BY <1>1, <3>4, <3>5, <3>6, RoomStays
    <3> QED BY <3>1, <3>3, <3>7, Arrives, SameRoom
  <2>6. CASE StartContainer(q) BY <1>7, <2>6 DEF StartContainer, At
  <2>7. CASE CreateRefused(q) \/ StartRefused(q) \/ RecordRunning(q)
    BY <1>4, <2>7 DEF CreateRefused, StartRefused, RecordRunning
  <2> QED BY <1>12, <2>1, <2>2, <2>3, <2>4, <2>5, <2>6, <2>7 DEF Start
<1>13. CASE Change(q)
  <2>1. ASSUME NEW v \in Workspace, NEW op \in {"stop", "delete", "timeout"}, BeginChange(q, op, v) PROVE Kept
    <3>1. task'[q].op = op BY <2>1, <1>1 DEF BeginChange, Idle
    <3> QED BY <1>2, <3>1
  <2>2. CASE RecordStopped(q) \/ ForgetWorkspace(q) \/ RecordRemoved(q)
    BY <1>4, <2>2 DEF RecordStopped, ForgetWorkspace, RecordRemoved
  <2>3. CASE ProceedToChange(q) \/ StopContainer(q) \/ RemoveContainer(q) \/ NothingToRemove(q)
    <3>1. \E at : Goto(q, at)
      BY <2>3 DEF ProceedToChange, StopContainer, RemoveContainer, NothingToRemove
    <3>2. task[q].at \in {"await", "act"}
      BY <2>3 DEF ProceedToChange, StopContainer, RemoveContainer, NothingToRemove, At
    <3>3. task[q].op \notin {"create", "start"} BY <1>1, <3>2 DEF Proper, Way
    <3> QED BY <1>5, <3>1, <3>3
  <2> QED BY <1>13, <2>1, <2>2, <2>3 DEF Change
<1>14. CASE Reconcile(q)
  <2>1. ASSUME NEW v \in Workspace, Inspect(q, v) PROVE Kept
    <3>1. task'[q].op = "reconcile" BY <2>1, <1>1 DEF Inspect, Idle
    <3> QED BY <1>2, <3>1
  <2>2. CASE ListRows(q)
    <3>1. task' = [task EXCEPT ![q].at = "write", ![q].row =
            IF @.rid # 0 THEN @ ELSE [NoRow EXCEPT !.rid = row[w].rid, !.state = "missing"]]
      BY <2>2 DEF ListRows
    <3>2. task'[q].op = "reconcile" BY <1>1, <2>2, <3>1 DEF Task, ListRows, At
    <3> QED BY <1>2, <3>2
  <2>3. CASE RecordObserved(q) BY <1>4, <2>3 DEF RecordObserved
  <2> QED BY <1>14, <2>1, <2>2, <2>3 DEF Reconcile
<1> QED BY <1>8, <1>9, <1>11, <1>12, <1>13, <1>14 DEF Steps

LEMMA RoomsNext == ASSUME Well, Well', Rooms, [Next]_vars PROVE Rooms'
<1>1. CASE Aside BY <1>1, AsideLeaves DEF Rooms
<1>2. ASSUME NEW q \in Request, Steps(q) PROVE Rooms'
  <2>1. \A p \in Request : Roomy(task'[p], row', raised')
    BY <1>2, RoomOfOthers, RoomOfOwn
  <2> QED BY <2>1 DEF Rooms
<1> QED BY <1>1, <1>2, NextSplits

(* What takes a handler from one step to another. *)
LEMMA BootedEnds ==
  ASSUME Well, NEW q \in Request, Steps(q), task[q].at = "booted", task'[q].at = "done"
  PROVE  Abandon(q) \/ RecordRunning(q)
<1>1. task[q] \in Task /\ Proper(task[q]) BY TaskFacts DEF Well
<1>2. task[q].op = "start" BY <1>1 DEF Proper, Way, Task, Op
<1>3. task[q] # Idle BY DEF Idle
<1>4. ~Create(q)
  BY <1>3 DEF Create, BeginCreate, CheckCreate, RecordWorkspace, Unrecord, At
<1>5. ~Ports(q) BY DEF Ports, ReservePort, AllReserved, PoolUnavailable
<1>6. Start(q) => RecordRunning(q)
  BY <1>3 DEF Start, BeginStart, CheckStart, EnsurePorts, CreateContainer, CreateRefused, RecordCreated,
              StartContainer, StartRefused, At
<1>7. ~Change(q)
  BY <1>3 DEF Change, BeginChange, ProceedToChange, StopContainer, RecordStopped, RemoveContainer,
              NothingToRemove, ForgetWorkspace, RecordRemoved, At
<1>8. ~Reconcile(q) BY <1>3 DEF Reconcile, Inspect, ListRows, RecordObserved, At
<1> QED BY <1>4, <1>5, <1>6, <1>7, <1>8 DEF Steps

LEMMA InsertedEnds ==
  ASSUME Well, NEW q \in Request, Steps(q), task[q].at = "insert", task'[q].at = "reserve"
  PROVE  RecordWorkspace(q)
<1>1. task[q] \in Task /\ Proper(task[q]) BY TaskFacts DEF Well
<1>2. task[q].op = "create" BY <1>1 DEF Proper, Way, Task, Op
<1>3. task[q] # Idle BY DEF Idle
<1>4. ~Abandon(q) BY Arrives DEF Abandon
<1>5. Create(q) => RecordWorkspace(q)
  BY <1>3 DEF Create, BeginCreate, CheckCreate, Unrecord, At
<1>6. ~Ports(q) BY DEF Ports, ReservePort, AllReserved, PoolUnavailable
<1>7. ~Start(q)
  BY <1>3 DEF Start, BeginStart, CheckStart, EnsurePorts, CreateContainer, CreateRefused, RecordCreated,
              StartContainer, StartRefused, RecordRunning, At
<1>8. ~Change(q)
  BY <1>3 DEF Change, BeginChange, ProceedToChange, StopContainer, RecordStopped, RemoveContainer,
              NothingToRemove, ForgetWorkspace, RecordRemoved, At
<1>9. ~Reconcile(q) BY <1>3 DEF Reconcile, Inspect, ListRows, RecordObserved, At
<1> QED BY <1>4, <1>5, <1>6, <1>7, <1>8, <1>9 DEF Steps

(* When a start ends at its last step, recorded or not, what runs is what  *)
(* its check left room for, and its own workspace.                         *)
LEMMA StartedWithin ==
  ASSUME Well, Rooms, NEW q \in Request, task[q].op = "start", task[q].at = "booted",
         Abandon(q) \/ RecordRunning(q), NEW u, Seen(q).owner = u
  PROVE  /\ Within(Used(row', Owned(row', u) \ raised'), task[q].limit.cpu)
         /\ Used(row', Workspace \ raised') <= task[q].host
<1> DEFINE w == task[q].ws
           c == Seen(q).cpu
<1>1. /\ task[q] \in Task /\ Proper(task[q]) /\ w \in Workspace /\ Seen(q) \in Row /\ c \in Nat
      /\ Seen(q).rid \in 0..MaxContainer /\ task[q].limit \in Limits /\ task[q].host \in Nat
  BY TaskFacts DEF Well
<1>2. task[q].limit.cpu \in Nat
  <2>1. 0..MaxLimit \subseteq Nat BY Constants
  <2> QED BY <1>1, <2>1 DEF Limits
<1>3. row \in [Workspace -> Row] /\ raised \subseteq Workspace /\ RowsWell BY DEF Well, RowsWell
<1>4. Roomy(task[q], row, raised) BY DEF Rooms
<1>5. row[w].owner = u /\ row[w].cpu = c BY <1>4 DEF Roomy, Seen
<1>6. /\ row' \in [Workspace -> Row] /\ raised' \subseteq Workspace
      /\ \A v \in Workspace : row'[v].owner = row[v].owner /\ row'[v].cpu = row[v].cpu
      /\ \A v \in Workspace \ {w} : row'[v] = row[v] /\ (v \in raised' <=> v \in raised)
  <2>1. CASE Abandon(q) BY <1>3, <2>1 DEF Abandon, world
  <2>2. CASE RecordRunning(q)
    <3>1. Observe(w, "running", Seen(q).rid) /\ raised' = raised \ {w} BY <2>2 DEF RecordRunning
    <3>2. raised' \subseteq Workspace BY <1>3, <3>1
    <3>3. "running" \in State BY DEF State
    <3> QED BY <1>1, <1>3, <3>1, <3>2, <3>3, Observing DEF RowsWell
  <2> QED BY <2>1, <2>2
<1>7. ASSUME NEW S \in SUBSET Workspace
      PROVE  /\ Used(row', S \ raised') <= Used(row, (S \ raised) \ {w}) + c
             /\ Used(row', S \ raised') \in Nat /\ Used(row, (S \ raised) \ {w}) \in Nat
  <2> DEFINE A == S \ raised'
             B == (S \ raised) \ {w}
  <2>1. A \in SUBSET Workspace /\ B \in SUBSET Workspace /\ A \ {w} \in SUBSET Workspace OBVIOUS
  <2>2. \A v \in A \ {w} : row'[v].state = "running"
           => v \in B /\ row[v].state = "running" /\ row'[v].cpu = row[v].cpu
    BY <1>6
  <2>3. row'[w].cpu = c BY <1>1, <1>5, <1>6
  <2> HIDE DEF A, B, w, c
  <2>4. Used(row', A \ {w}) <= Used(row, B) BY <1>3, <1>6, <2>1, <2>2, UsedShrinks
  <2>5. Used(row', A) <= Used(row', A \ {w}) + row'[w].cpu BY <1>1, <1>6, <2>1, UsedWithOneMore
  <2>6. Used(row', A) \in Nat /\ Used(row', A \ {w}) \in Nat /\ Used(row, B) \in Nat
    BY <1>3, <1>6, <2>1, UsedIsNatural
  <2>7. Used(row', A) <= Used(row, B) + c BY <1>1, <2>3, <2>4, <2>5, <2>6
  <2> QED BY <2>6, <2>7 DEF A, B
<1>8. Owned(row', u) = Owned(row, u) /\ Owned(row, u) \in SUBSET Workspace
      /\ Workspace \in SUBSET Workspace
  BY <1>6 DEF Owned
<1> DEFINE m == Used(row', Owned(row', u) \ raised')
           n == Used(row, (Owned(row, u) \ raised) \ {w})
           i == Used(row', Workspace \ raised')
           j == Used(row, (Workspace \ raised) \ {w})
<1>9. m <= n + c /\ i <= j + c /\ m \in Nat /\ n \in Nat /\ i \in Nat /\ j \in Nat
  BY <1>7, <1>8
<1>10. Within(n + c, task[q].limit.cpu) /\ j + c <= task[q].host
  BY <1>4 DEF Roomy, Seen
<1>11. Within(m, task[q].limit.cpu) /\ i <= task[q].host
  <2> HIDE DEF m, n, i, j, c
  <2>1. n + c \in Nat BY <1>1, <1>9
  <2>2. Within(m, task[q].limit.cpu) BY <1>2, <1>9, <1>10, <2>1, WithinLess
  <2>3. i <= task[q].host BY <1>1, <1>9, <1>10
  <2> QED BY <2>2, <2>3
<1> QED BY <1>11

LEMMA RecordedWithin ==
  ASSUME Well, Rooms, NEW q \in Request, RecordWorkspace(q), task[q].at = "insert", NEW u, Seen(q).owner = u
  PROVE  Within(Cardinality(Owned(row', u)), task[q].limit.workspaces)
<1> DEFINE w == task[q].ws
<1>1. task[q].op = "create" BY DEF RecordWorkspace, At
<1>2. row \in [Workspace -> Row] /\ w \in Workspace /\ task[q].limit \in Limits
  BY <1>1, TaskFacts DEF Well, RowsWell
<1>3. task[q].limit.workspaces \in Nat
  <2>1. 0..MaxLimit \subseteq Nat BY Constants
  <2> QED BY <1>2, <2>1 DEF Limits
<1>4. Within(Cardinality(Owned(row, u)) + 1, task[q].limit.workspaces)
  BY <1>1 DEF Rooms, Roomy, Seen
<1>5. row' = [row EXCEPT ![w] = Seen(q)] BY DEF RecordWorkspace
<1>6. Owned(row', u) = Owned(row, u) \cup {w} BY <1>2, <1>5 DEF Owned
<1>7. Owned(row, u) \in SUBSET Workspace /\ IsFiniteSet(Workspace) BY AdmissionAssumption DEF Owned
<1>8. IsFiniteSet(Owned(row, u)) BY <1>7, FS_Subset
<1> DEFINE n == Cardinality(Owned(row, u))
           m == Cardinality(Owned(row', u))
<1>9. n \in Nat /\ (m = n \/ m = n + 1)
  <2>1. n \in Nat BY <1>8, FS_CardinalityType
  <2>2. Cardinality(Owned(row, u) \cup {w}) = IF w \in Owned(row, u) THEN n ELSE n + 1
    BY <1>8, FS_AddElement
  <2>3. m = IF w \in Owned(row, u) THEN n ELSE n + 1 BY <1>6, <2>2
  <2> HIDE DEF m, n
  <2> QED BY <2>1, <2>3
<1>10. Within(m, task[q].limit.workspaces)
  <2>1. Within(n + 1, task[q].limit.workspaces) BY <1>4
  <2> HIDE DEF m, n
  <2>2. m \in Nat /\ n + 1 \in Nat /\ m <= n + 1 BY <1>9
  <2> QED BY <1>3, <2>1, <2>2, WithinLess
<1> QED BY <1>10

LEMMA LimitsNext ==
  ASSUME Well, Rooms, [Next]_vars, NEW p \in Request, NEW u \in User
  PROVE  LET limit == task[p].limit IN
    Seen(p).owner = u =>
       /\ task[p].at = "booted" /\ task'[p].at = "done" =>
             /\ Within(Allocated(OwnedBy(u) \ raised)', limit.cpu)
             /\ Allocated(Workspace \ raised)' <= task[p].host
       /\ task[p].at = "insert" /\ task'[p].at = "reserve" =>
             Within(Cardinality(OwnedBy(u))', limit.workspaces)
<1>1. /\ Allocated(OwnedBy(u) \ raised)' = Used(row', Owned(row', u) \ raised')
      /\ Allocated(Workspace \ raised)' = Used(row', Workspace \ raised')
      /\ OwnedBy(u)' = Owned(row', u)
  BY DEF OwnedBy, Owned, Allocated, Used, Running
<1>2. CASE task'[p] = task[p] BY <1>2
<1>3. ASSUME Steps(p), Seen(p).owner = u, task[p].at = "booted", task'[p].at = "done"
      PROVE  /\ Within(Used(row', Owned(row', u) \ raised'), task[p].limit.cpu)
             /\ Used(row', Workspace \ raised') <= task[p].host
  <2>1. Abandon(p) \/ RecordRunning(p) BY <1>3, BootedEnds
  <2>2. task[p].op = "start" BY <1>3, TaskFacts DEF Well, Proper, Way, Task, Op
  <2> QED BY <1>3, <2>1, <2>2, StartedWithin
<1>4. ASSUME Steps(p), Seen(p).owner = u, task[p].at = "insert", task'[p].at = "reserve"
      PROVE  Within(Cardinality(Owned(row', u)), task[p].limit.workspaces)
  BY <1>4, InsertedEnds, RecordedWithin
<1>5. CASE Steps(p) BY <1>1, <1>3, <1>4, <1>5
<1>6. CASE ~Steps(p)
  <2>1. CASE Aside BY <1>2, <2>1, AsideLeaves
  <2>2. ASSUME NEW q \in Request, Steps(q) PROVE task'[p] = task[p] BY <1>6, <2>2, OthersWait
  <2> QED BY <1>2, <2>1, <2>2, NextSplits
<1> QED BY <1>5, <1>6

(* What COWS itself lets run is within the limits the start was checked    *)
(* against, and a user's rows within those of the create.                  *)
THEOREM LimitsAreKept == Spec => AdmittedWithinLimits
<1>1. Init => Rooms BY DEF Init, Rooms, Roomy, Idle
<1>2. Well /\ Well' /\ Rooms /\ [Next]_vars => Rooms' BY RoomsNext
<1>3. Well /\ Rooms /\ [Next]_vars =>
        [\A p \in Request, u \in User :
           LET limit == task[p].limit IN
           Seen(p).owner = u =>
              /\ task[p].at = "booted" /\ task'[p].at = "done" =>
                    /\ Within(Allocated(OwnedBy(u) \ raised)', limit.cpu)
                    /\ Allocated(Workspace \ raised)' <= task[p].host
              /\ task[p].at = "insert" /\ task'[p].at = "reserve" =>
                    Within(Cardinality(OwnedBy(u))', limit.workspaces)]_vars
  BY LimitsNext
<1> QED BY <1>1, <1>2, <1>3, InitWell, NextWell, PTL DEF Spec, AdmittedWithinLimits

-----------------------------------------------------------------------------
(* The outbox: the types *)

MailRow == [status : {"none", "pending", "sent", "canceled"}, body : Statement,
        attempts : Nat, due : BOOLEAN]
Stage == {"idle", "warn", "lookUp", "queue", "list", "next", "cancel", "send",
          "sent", "failed", "giveUp"}
Worked == [step : Stage, seen : Evaluated, todo : SUBSET Key, held : [Key -> MailRow], key : Key]
Deletion == [step : {"none", "cancel", "record", "lookUp", "notice"},
             by : {"timeout", "owner", "administrator"}, number : Statement]
Counts == [Key -> [Statement -> Nat]]

Typed ==
    /\ ws \in Evaluated /\ disabled \in BOOLEAN /\ deletion \in Deletion
    /\ mail \in [Key -> MailRow] /\ pass \in Worked
    /\ sends \in Counts /\ tries \in Counts
    /\ restarts \in 0..MaxRestart

-----------------------------------------------------------------------------
(* The invariants. *)

Handling(k, steps) == pass.key = k /\ pass.step \in steps
Listed(k) == k \in pass.todo \/ Handling(k, {"cancel", "send", "sent", "failed", "giveUp"})
ToSend(k) == k \in pass.todo \/ Handling(k, {"send"})

(* Where the goroutine has nothing listed, and what it has listed. *)
InPass ==
    /\ pass.todo # {} => pass.step \in {"next", "cancel", "send", "sent", "failed", "giveUp"}
    /\ pass.step \in {"lookUp", "queue"} => Phase(pass.seen) # "none"
    /\ pass.step \in {"cancel", "send", "sent", "failed", "giveUp"} => pass.key \notin pass.todo
    /\ pass.step = "cancel" => pass.key \in Warning

(* A row's text is never later than what it can speak of. *)
InTime(k) ==
    /\ k \in Warning => /\ mail[k].body <= ws.deadline
                        /\ pass.step \in {"warn", "lookUp", "queue"} =>
                             mail[k].body <= pass.seen.deadline /\ pass.seen.deadline <= ws.deadline
    /\ k = "notice" => /\ mail[k].body <= deletion.number
                       /\ deletion.step # "none" => mail[k].body < deletion.number
    /\ k \in Letter => mail[k].body = 0

(* The copy of a listed row is of its text, or of the one before. *)
InCopy(k) ==
    Listed(k) => /\ mail[k].status # "none"
                 /\ pass.held[k].body <= mail[k].body
                 /\ k # "notice" => pass.held[k].body = mail[k].body
                 /\ pass.held[k].body = mail[k].body =>
                      mail[k].attempts = IF Handling(k, {"giveUp"}) THEN pass.held[k].attempts + 1
                                                              ELSE pass.held[k].attempts

(* Nothing was sent of a text that is still to come. *)
Unsent(k) ==
    \A n \in Statement :
        mail[k].status = "none" \/ n > mail[k].body => sends[k][n] = 0 /\ tries[k][n] = 0

Ordered == \A k \in Key : InTime(k) /\ InCopy(k) /\ Unsent(k)

Now(k) == mail[k].body
Copy(k) == pass.held[k].body

(* Nor of one that replaced what is being delivered. *)
Fresh ==
    \A k \in Key : Listed(k) /\ Copy(k) < Now(k) => sends[k][Now(k)] = 0 /\ tries[k][Now(k)] = 0

SentOf(k) ==
    /\ \A n \in Statement : sends[k][n] <= 1 + restarts
    /\ mail[k].status = "pending" /\ ~Handling(k, {"sent"}) => sends[k][Now(k)] <= restarts
    /\ ToSend(k) => sends[k][Copy(k)] <= restarts
    /\ Handling(k, {"sent"}) => sends[k][Copy(k)] > 0
    /\ k # "notice" /\ mail[k].status = "sent" => sends[k][Now(k)] > 0
Sent == \A k \in Key : SentOf(k)

TriedOf(k) ==
    /\ \A n \in Statement : tries[k][n] <= MaxAttempts + restarts
    /\ mail[k].status = "pending" =>
         \/ tries[k][Now(k)] <= mail[k].attempts + restarts
         \/ /\ Handling(k, {"sent", "failed"}) /\ Copy(k) = Now(k)
            /\ tries[k][Now(k)] <= mail[k].attempts + restarts + 1
    /\ mail[k].status = "pending" /\ ~Handling(k, {"sent", "failed", "giveUp"}) =>
         tries[k][Now(k)] < MaxAttempts + restarts
    /\ ToSend(k) => tries[k][Copy(k)] < MaxAttempts + restarts
Tried == \A k \in Key : TriedOf(k)

(* The last notice is queued. *)
Over == ws.state = "gone" /\ deletion.step = "none"

(* A notice is queued once by a timeout, then once by an administrator. *)
NoticeOrder ==
    /\ ws.state = "gone" => deletion.step \in {"none", "lookUp", "notice"}
    /\ ~ws.removed /\ ws.state # "gone" => mail["notice"].status = "none"
    /\ deletion.step \in {"cancel", "record"} /\ deletion.by = "timeout" => ~ws.removed
    /\ deletion.step \in {"lookUp", "notice"} =>
         \/ /\ deletion.by = "timeout" /\ ws.removed /\ ws.state # "gone"
            /\ mail["notice"].status = "none"
         \/ deletion.by = "administrator" /\ ws.state = "gone"

NoticeCount ==
    /\ ~Over => mail["notice"].attempts <= tries["notice"][Now("notice")]
    /\ Listed("notice") /\ ~Over => Copy("notice") = Now("notice")
    /\ Listed("notice") /\ (Copy("notice") < Now("notice") \/ ~Over) =>
         /\ pass.held["notice"].attempts <= tries["notice"][Copy("notice")]
         /\ Handling("notice", {"sent", "failed", "giveUp"}) =>
              pass.held["notice"].attempts < tries["notice"][Copy("notice")]
    /\ Handling("notice", {"giveUp"}) => pass.held["notice"].attempts + 1 >= MaxAttempts

Notices == NoticeOrder /\ NoticeCount /\ NoticeSurvivesSweep

OutboxInv == InPass /\ Ordered /\ Fresh /\ Sent /\ Tried /\ Notices

-----------------------------------------------------------------------------
(* Typing *)

LEMMA NoMailTyped == NoMail \in MailRow /\ IdlePass \in Worked
  BY OutboxAssumption DEF NoMail, MailRow, IdlePass, Worked, Evaluated, Stage, Statement, Key, Warning

LEMMA TypedMeans ==
  Typed => /\ ws \in Evaluated /\ disabled \in BOOLEAN /\ deletion \in Deletion
           /\ mail \in [Key -> MailRow] /\ pass \in Worked
           /\ sends \in Counts /\ tries \in Counts
           /\ restarts \in 0..MaxRestart
  BY DEF Typed

LEMMA InitTyped == OutboxInit => Typed
  <1> SUFFICES ASSUME OutboxInit PROVE Typed
    OBVIOUS
  <1>1. ws \in Evaluated
    BY OutboxAssumption DEF OutboxInit, Evaluated, Statement
  <1>2. deletion \in Deletion
    BY OutboxAssumption DEF OutboxInit, Deletion, Statement
  <1>3. mail \in [Key -> MailRow] /\ sends \in Counts /\ tries \in Counts
    BY NoMailTyped DEF OutboxInit, Counts
  <1>4. restarts \in 0..MaxRestart
    BY OutboxAssumption DEF OutboxInit
  <1>5. disabled \in BOOLEAN /\ pass \in Worked
    BY NoMailTyped DEF OutboxInit
  <1> QED
    BY <1>1, <1>2, <1>3, <1>4, <1>5 DEF Typed

LEMMA UpsertTyped ==
  ASSUME Typed, NEW k \in Key, NEW n \in Statement, Upsert(k, n)
  PROVE  mail' \in [Key -> MailRow]
  BY DEF Typed, Upsert, MailRow

LEMMA DoneTyped ==
  ASSUME Typed, Done
  PROVE  pass' \in Worked
  BY NoMailTyped DEF Typed, Done, Worked, Stage, Key, Warning

LEMMA GoTyped ==
  ASSUME Typed, NEW step \in Stage, Go(step)
  PROVE  pass' \in Worked
  BY DEF Typed, Go, Worked

LEMMA PhaseTyped ==
  ASSUME NEW w \in Evaluated
  PROVE  Phase(w) \in {"stop", "delete", "none"}
  BY DEF Phase

LEMMA LatestTyped ==
  ASSUME Typed
  PROVE  /\ Latest \in Nat /\ Latest >= ws.deadline /\ Latest >= deletion.number
         /\ Latest < MaxStatement => Latest + 1 \in Statement
  BY OutboxAssumption DEF Typed, Latest, Evaluated, Deletion, Statement

LEMMA NextTyped ==
  ASSUME Typed, InPass, [OutboxNext]_everything
  PROVE  Typed'
  <1>1. CASE UNCHANGED everything
    BY <1>1 DEF Typed, everything
  <1>2. CASE StartWorkspace \/ Disconnect \/ StopWorkspace
    <2>1. PICK state \in {"idle", "stopped"} : Live(state)
      BY <1>2 DEF StartWorkspace, Disconnect, StopWorkspace
    <2>2. ws' \in Evaluated
      BY <2>1, LatestTyped DEF Live, Typed, Evaluated
    <2> QED
      BY <2>1, <2>2 DEF Live, relay, Typed
  <1>3. CASE Connect \/ SetUserDisabled
    BY <1>3 DEF Connect, SetUserDisabled, relay, Typed, Evaluated
  <1>4. ASSUME NEW by \in {"timeout", "owner", "administrator"}, BeginDeletion(by)
        PROVE  Typed'
    BY <1>4, LatestTyped DEF BeginDeletion, relay, Typed, Deletion
  <1>5. CASE CancelPending
    BY <1>5 DEF CancelPending, SweptClean, relay, Typed, Deletion, MailRow
  <1>6. CASE RecordDeletion \/ LookUpForNotice
    BY <1>6 DEF RecordDeletion, LookUpForNotice, relay, Typed, Evaluated, Deletion
  <1>7. CASE QueueNotice
    <2>1. deletion.number \in Statement /\ deletion' \in Deletion
      BY <1>7 DEF QueueNotice, Typed, Deletion
    <2>2. mail' \in [Key -> MailRow]
      BY <1>7, <2>1, UpsertTyped DEF QueueNotice, Key
    <2> QED
      BY <1>7, <2>1, <2>2 DEF QueueNotice, relay, Typed
  <1>8. ASSUME NEW k \in Letter, QueueLetter(k) PROVE Typed'
    <2>1. 0 \in Statement /\ k \in Key
      BY OutboxAssumption DEF Statement, Key
    <2> QED
      BY <1>8, <2>1, UpsertTyped DEF QueueLetter, lifecycle, relay, Typed
  <1>9. ASSUME NEW k \in Key, RetryDue(k) PROVE Typed'
    BY <1>9 DEF RetryDue, lifecycle, relay, Typed, MailRow
  <1>10. CASE ListForWarnings
    BY <1>10 DEF ListForWarnings, lifecycle, relay, Typed, Worked, Stage
  <1>11. CASE CheckLead \/ LookUpOwner
    BY <1>11, GoTyped DEF CheckLead, LookUpOwner, lifecycle, relay, Typed, Stage
  <1>12. CASE QueueWarning
    <2>1. pass.seen \in Evaluated /\ pass.seen.deadline \in Statement
      BY DEF Typed, Worked, Evaluated
    <2>2. Phase(pass.seen) \in Key
      BY <1>12, <2>1, PhaseTyped DEF QueueWarning, InPass, Key, Warning
    <2> QED
      BY <1>12, <2>1, <2>2, UpsertTyped, GoTyped
         DEF QueueWarning, lifecycle, relay, Typed, Stage
  <1>13. CASE ListPending
    BY <1>13, NoMailTyped
       DEF ListPending, Pending, lifecycle, relay, Typed, Worked, Stage
  <1>14. ASSUME NEW k \in Key, CheckCurrent(k) PROVE Typed'
    BY <1>14 DEF CheckCurrent, lifecycle, relay, Typed, Worked, Stage
  <1>15. CASE Cancel
    BY <1>15, DoneTyped DEF Cancel, lifecycle, relay, Typed, MailRow, Worked
  <1>16. CASE Accept \/ Refuse
    <2>1. pass.key \in Key /\ Held.body \in Statement
      BY DEF Held, Typed, Worked, MailRow
    <2>2. Plus(sends) \in Counts /\ Plus(tries) \in Counts
      BY <2>1 DEF Plus, Typed, Counts
    <2> QED
      BY <1>16, <2>2, GoTyped DEF Accept, Refuse, lifecycle, Typed, Stage
  <1>17. CASE MarkSent
    BY <1>17, DoneTyped, NoMailTyped DEF MarkSent, lifecycle, relay, Typed, MailRow
  <1>18. CASE MarkFailed
    <2>1. pass.key \in Key /\ Held.attempts \in Nat
      BY DEF Held, Typed, Worked, MailRow
    <2>2. mail' \in [Key -> MailRow]
      BY <1>18, <2>1 DEF MarkFailed, Typed, MailRow
    <2>3. pass' \in Worked
      BY <1>18, DoneTyped, GoTyped, NoMailTyped DEF MarkFailed, Stage
    <2> QED
      BY <1>18, <2>2, <2>3 DEF MarkFailed, lifecycle, relay, Typed
  <1>19. CASE Restart
    BY <1>19, NoMailTyped, OutboxAssumption DEF Restart, Typed, Deletion
  <1> QED
    BY <1>1, <1>2, <1>3, <1>4, <1>5, <1>6, <1>7, <1>8, <1>9, <1>10, <1>11, <1>12, <1>13,
       <1>14, <1>15, <1>16, <1>17, <1>18, <1>19
       DEF OutboxNext, Surroundings, Worker, Answer

-----------------------------------------------------------------------------
(* Where the goroutine is *)

HandSteps == {"cancel", "send", "sent", "failed", "giveUp"}

(* What was in hand is put down; what is still listed is as it was. *)
Drops ==
    /\ pass'.step \in {"idle", "next"}
    /\ \A k \in pass'.todo : k \in pass.todo /\ pass'.held[k] = pass.held[k]
    /\ pass'.todo # {} => pass'.step = "next"

(* The worker, when it lists nothing before and after. *)
Leaves ==
    /\ pass.step \in {"idle", "warn", "lookUp", "queue"} /\ pass.todo = {}
    /\ pass'.step \in {"warn", "lookUp", "queue", "list"} /\ pass'.todo = {}

LEMMA DropsInHand ==
  ASSUME Typed, InPass, Done \/ pass' = IdlePass, pass.step \in HandSteps
  PROVE  Drops /\ \A k \in pass'.todo : k # pass.key
  <1>1. CASE pass' = IdlePass
    BY <1>1 DEF Drops, IdlePass
  <1>2. CASE Done /\ pass' # IdlePass
    <2>1. /\ pass'.step = "next" /\ pass'.todo = pass.todo
          /\ \A k \in Key \ {pass.key} : pass'.held[k] = pass.held[k]
      BY <1>2 DEF Typed, Worked, Done
    <2> QED
      BY <2>1 DEF Drops, InPass, HandSteps, Typed, Worked
  <1> QED
    BY <1>1, <1>2

LEMMA InitInPass == OutboxInit => InPass
  BY DEF OutboxInit, InPass, IdlePass

LEMMA NextInPass ==
  ASSUME Typed, InPass, [OutboxNext]_everything
  PROVE  InPass'
  <1>1. CASE UNCHANGED pass
    BY <1>1 DEF InPass
  <1>2. CASE ListForWarnings \/ CheckLead \/ LookUpOwner \/ QueueWarning
    BY <1>2 DEF ListForWarnings, CheckLead, LookUpOwner, QueueWarning, Go, InPass, Typed, Worked
  <1>3. CASE ListPending
    BY <1>3 DEF ListPending, InPass, IdlePass
  <1>4. ASSUME NEW k \in Key, CheckCurrent(k) PROVE InPass'
    BY <1>4 DEF CheckCurrent, Current, InPass, Typed, Worked
  <1>5. CASE pass.step \in HandSteps /\ (Done \/ pass' = IdlePass)
    BY <1>5, DropsInHand DEF Drops, InPass
  <1>6. CASE pass.step \in HandSteps /\ pass.step # "cancel" /\ \E step \in HandSteps \ {"cancel"} : Go(step)
    BY <1>6 DEF InPass, Go, Typed, Worked, HandSteps
  <1>7. CASE Restart
    BY <1>7 DEF Restart, InPass, IdlePass
  <1> QED
    BY <1>1, <1>2, <1>3, <1>4, <1>5, <1>6, <1>7
       DEF OutboxNext, everything, Surroundings, StartWorkspace, Disconnect, StopWorkspace, Live,
           Connect,
           SetUserDisabled, BeginDeletion, CancelPending, RecordDeletion, LookUpForNotice,
           QueueNotice, QueueLetter, RetryDue, Worker, Answer, Cancel, Accept, Refuse, MarkSent,
           MarkFailed, HandSteps

-----------------------------------------------------------------------------
(* The order of the texts *)

LEMMA Keys ==
  /\ "stop" \in Key /\ "delete" \in Key /\ "notice" \in Key
  /\ "notice" \notin Warning /\ "notice" \notin Letter
  /\ \A k \in Key : k \in Warning \/ k \in Letter \/ k = "notice"
  /\ \A k \in Letter : k \notin Warning /\ k \in Key
  BY OutboxAssumption DEF Key, Warning

LEMMA UpsertMeans ==
  ASSUME Typed, NEW k \in Key, NEW n, Upsert(k, n)
  PROVE  /\ \A j \in Key \ {k} : mail'[j] = mail[j]
         /\ \/ mail'[k] = mail[k] /\ mail[k].status # "none" /\ mail[k].body = n
            \/ /\ mail'[k] = [status |-> "pending", body |-> n, attempts |-> 0, due |-> TRUE]
               /\ mail[k].status = "none" \/ mail[k].body # n
  BY DEF Typed, Upsert

LEMMA UpsertBodies ==
  ASSUME Typed, NEW k \in Key, NEW n \in Statement, Upsert(k, n)
  PROVE  /\ \A j \in Key : mail'[j].body = IF j = k THEN n ELSE mail[j].body
         /\ mail'[k].status # "none"
  <1>1. mail'[k].body = n /\ mail'[k].status # "none"
    <2>1. CASE mail'[k] = [status |-> "pending", body |-> n, attempts |-> 0, due |-> TRUE]
      BY <2>1
    <2> QED
      BY <2>1, UpsertMeans
  <1>2. \A j \in Key \ {k} : mail'[j].body = mail[j].body
    BY UpsertMeans
  <1> QED
    BY <1>1, <1>2

LEMMA SweptMeans ==
  ASSUME Typed, mail' = SweptClean
  PROVE  \A k \in Key : /\ mail'[k].body = mail[k].body /\ mail'[k].attempts = mail[k].attempts
                        /\ \/ mail'[k].status = mail[k].status
                           \/ mail[k].status = "pending" /\ mail'[k].status = "canceled"
  BY DEF Typed, SweptClean, MailRow

LEMMA InitInTime == ASSUME OutboxInit PROVE \A k \in Key : InTime(k)
  BY OutboxAssumption DEF OutboxInit, InTime, NoMail, IdlePass

(* Steps that leave the texts alone. *)
LEMMA BodiesStay ==
  ASSUME Typed, \A k \in Key : InTime(k),
         \A k \in Key : mail'[k].body = mail[k].body,
         ws' = ws, deletion' = deletion, pass'.seen = pass.seen,
         pass.step \in {"warn", "lookUp", "queue"} \/ pass'.step \notin {"warn", "lookUp", "queue"}
  PROVE  \A k \in Key : InTime(k)'
  BY Keys DEF InTime

LEMMA NextInTime ==
  ASSUME Typed, InPass, \A k \in Key : InTime(k), [OutboxNext]_everything
  PROVE  \A k \in Key : InTime(k)'
  <1>1. CASE UNCHANGED everything
    BY <1>1 DEF everything, InTime
  <1>2. CASE StartWorkspace \/ Disconnect \/ StopWorkspace
    <2>1. PICK state \in {"idle", "stopped"} : Live(state)
      BY <1>2 DEF StartWorkspace, Disconnect, StopWorkspace
    <2>2. /\ ws'.deadline >= ws.deadline
          /\ deletion' = deletion /\ mail' = mail /\ pass' = pass
      BY <2>1, LatestTyped DEF Live, Typed, Evaluated, Statement
    <2>3. ws'.deadline \in Nat
      BY <2>1, LatestTyped DEF Live, Typed, Evaluated, Statement
    <2> QED
      BY <2>2, <2>3, Keys DEF InTime, Typed, Evaluated, MailRow, Worked, Statement
  <1>3. CASE Connect \/ SetUserDisabled
    BY <1>3, Keys DEF Connect, SetUserDisabled, InTime, Typed, Evaluated
  <1>4. ASSUME NEW by \in {"timeout", "owner", "administrator"}, BeginDeletion(by)
        PROVE  \A k \in Key : InTime(k)'
    BY <1>4, LatestTyped, Keys DEF BeginDeletion, InTime, Typed, Deletion, MailRow, Statement
  <1>5. CASE CancelPending
    BY <1>5, SweptMeans, Keys DEF CancelPending, InTime, Typed, Deletion
  <1>6. CASE RecordDeletion \/ LookUpForNotice
    BY <1>6, Keys
       DEF RecordDeletion, LookUpForNotice, InTime, Typed, Deletion, Evaluated, MailRow, Statement
  <1>7. CASE QueueNotice
    <2>1. deletion.number \in Statement /\ deletion'.number = deletion.number
          /\ deletion'.step = "none"
      BY <1>7 DEF QueueNotice, Typed, Deletion
    <2>2. \A j \in Key : mail'[j].body = IF j = "notice" THEN deletion.number ELSE mail[j].body
      BY <1>7, <2>1, UpsertBodies, Keys DEF QueueNotice
    <2> QED
      BY <1>7, <2>1, <2>2, Keys DEF QueueNotice, InTime, Statement
  <1>8. ASSUME NEW k \in Letter, QueueLetter(k) PROVE \A j \in Key : InTime(j)'
    <2>1. \A j \in Key : mail'[j].body = IF j = k THEN 0 ELSE mail[j].body
      BY <1>8, UpsertBodies, Keys, OutboxAssumption DEF QueueLetter, Statement
    <2> QED
      BY <1>8, <2>1, Keys DEF QueueLetter, lifecycle, InTime
  <1>9. ASSUME NEW k \in Key, RetryDue(k) PROVE \A j \in Key : InTime(j)'
    BY <1>9, BodiesStay DEF RetryDue, lifecycle, Typed, MailRow
  <1>10. CASE ListForWarnings
    BY <1>10, Keys DEF ListForWarnings, lifecycle, InTime, Typed, Evaluated, Worked, Statement
  <1>11. CASE CheckLead \/ LookUpOwner
    BY <1>11, BodiesStay DEF CheckLead, LookUpOwner, Go, lifecycle, Typed, Worked
  <1>12. CASE QueueWarning
    <2>1. Phase(pass.seen) \in Warning
      BY <1>12, PhaseTyped DEF QueueWarning, InPass, Typed, Worked, Warning
    <2>2. pass'.step = "list"
      BY <1>12 DEF QueueWarning, Go, Typed, Worked
    <2>3. pass.seen.deadline \in Statement
      BY DEF Typed, Worked, Evaluated
    <2>4. \A j \in Key : mail'[j].body = IF j = Phase(pass.seen) THEN pass.seen.deadline
                                                              ELSE mail[j].body
      BY <1>12, <2>1, <2>3, UpsertBodies DEF QueueWarning, Key
    <2> QED
      BY <1>12, <2>1, <2>2, <2>4, Keys DEF QueueWarning, lifecycle, InTime
  <1>13. CASE ListPending
    BY <1>13, Keys DEF ListPending, IdlePass, lifecycle, InTime
  <1>14. ASSUME NEW k \in Key, CheckCurrent(k) PROVE \A j \in Key : InTime(j)'
    BY <1>14, BodiesStay DEF CheckCurrent, lifecycle, Typed, Worked
  <1>15. CASE Cancel \/ Accept \/ Refuse \/ MarkSent \/ MarkFailed
    <2>1. \A k \in Key : mail'[k].body = mail[k].body
      BY <1>15 DEF Accept, Refuse, Cancel, MarkSent, MarkFailed, Typed, MailRow
    <2>2. pass'.step \notin {"warn", "lookUp", "queue"}
      BY <1>15, DropsInHand
         DEF Accept, Refuse, Cancel, MarkSent, MarkFailed, HandSteps, Drops, Typed, Worked, Go
    <2>3. UNCHANGED lifecycle
      BY <1>15 DEF Accept, Refuse, Cancel, MarkSent, MarkFailed
    <2> QED
      BY <2>1, <2>2, <2>3, Keys DEF InTime, lifecycle
  <1>16. CASE Restart
    BY <1>16, Keys DEF Restart, IdlePass, InTime, Typed, Deletion, MailRow, Statement
  <1> QED
    BY <1>1, <1>2, <1>3, <1>4, <1>5, <1>6, <1>7, <1>8, <1>9, <1>10, <1>11, <1>12, <1>13,
       <1>14, <1>15, <1>16 DEF OutboxNext, Surroundings, Worker, Answer

-----------------------------------------------------------------------------
(* The copies *)

LEMMA InitInCopy == ASSUME OutboxInit PROVE \A k \in Key : InCopy(k)
  BY DEF OutboxInit, InCopy, Listed, Handling, IdlePass

(* Steps that leave the goroutine alone and give no row a text it had not. *)
LEMMA RowsMoveOn ==
  ASSUME Typed, \A k \in Key : InCopy(k), pass' = pass,
         \A k \in Key : Listed(k) =>
            /\ mail'[k].status # "none"
            /\ \/ mail'[k].body = mail[k].body /\ mail'[k].attempts = mail[k].attempts
               \/ k = "notice" /\ mail'[k].body > mail[k].body /\ mail'[k].body \in Nat
  PROVE  \A k \in Key : InCopy(k)'
  BY DEF InCopy, Listed, Handling, Typed, Worked, MailRow, Statement

LEMMA NextInCopy ==
  ASSUME Typed, InPass, \A k \in Key : InTime(k), \A k \in Key : InCopy(k), [OutboxNext]_everything
  PROVE  \A k \in Key : InCopy(k)'
  <1>1. CASE UNCHANGED <<mail, pass>>
    BY <1>1 DEF InCopy, Listed, Handling
  <1>2. CASE CancelPending
    BY <1>2, SweptMeans, RowsMoveOn DEF CancelPending, InCopy
  <1>3. CASE QueueNotice
    <2>1. deletion.number \in Statement /\ deletion.number > mail["notice"].body
      BY <1>3, Keys DEF QueueNotice, Typed, Deletion, InTime, MailRow, Statement
    <2>2. Upsert("notice", deletion.number) /\ pass' = pass
      BY <1>3 DEF QueueNotice
    <2>3. mail'["notice"].status # "none"
      BY <2>1, <2>2, UpsertBodies, Keys
    <2>4. mail'["notice"].body = deletion.number
      BY <2>1, <2>2, UpsertBodies, Keys
    <2>5. \A k \in Key \ {"notice"} : mail'[k] = mail[k]
      BY <2>2, UpsertMeans, Keys
    <2> QED
      BY <2>1, <2>2, <2>3, <2>4, <2>5, RowsMoveOn DEF InCopy, Statement
  <1>4. ASSUME NEW k \in Letter, QueueLetter(k) PROVE \A j \in Key : InCopy(j)'
    <2>1. \A j \in Key \ {k} : mail'[j] = mail[j]
      BY <1>4, UpsertMeans, Keys DEF QueueLetter
    <2>2. ~Listed(k)
      BY <1>4, Keys DEF QueueLetter, InCopy
    <2> QED
      BY <1>4, <2>1, <2>2, RowsMoveOn DEF QueueLetter, InCopy
  <1>5. ASSUME NEW k \in Key, RetryDue(k) PROVE \A j \in Key : InCopy(j)'
    <2>1. \A j \in Key : /\ mail'[j].status = mail[j].status /\ mail'[j].body = mail[j].body
                         /\ mail'[j].attempts = mail[j].attempts
      BY <1>5 DEF RetryDue, Typed, MailRow
    <2> QED
      BY <1>5, <2>1, RowsMoveOn DEF RetryDue, InCopy
  <1>6. CASE ListForWarnings \/ CheckLead \/ LookUpOwner \/ QueueWarning
    <2>1. Leaves
      BY <1>6
         DEF ListForWarnings, CheckLead, LookUpOwner, QueueWarning, Go, Leaves, InPass, Typed, Worked
    <2> QED
      BY <2>1 DEF Leaves, InCopy, Listed, Handling
  <1>7. CASE ListPending
    BY <1>7 DEF ListPending, Pending, IdlePass, InCopy, Listed, Handling, Typed, MailRow, Statement
  <1>8. ASSUME NEW k \in Key, CheckCurrent(k) PROVE \A j \in Key : InCopy(j)'
    <2>1. /\ pass'.held = pass.held /\ mail' = mail /\ pass.step = "next"
          /\ pass'.step \in {"send", "cancel"} /\ pass'.key = k /\ k \in pass.todo
          /\ pass'.todo = pass.todo \ {k}
      BY <1>8 DEF CheckCurrent, Typed, Worked
    <2> QED
      BY <2>1 DEF InCopy, Listed, Handling
  <1>9. CASE /\ pass.step \in HandSteps /\ (Done \/ pass' = IdlePass)
             /\ \A k \in Key \ {pass.key} : mail'[k] = mail[k]
    BY <1>9, DropsInHand DEF Drops, InCopy, Listed, Handling
  <1>10. CASE Accept \/ Refuse
    <2>1. /\ mail' = mail /\ pass.step = "send" /\ pass'.step \in {"sent", "failed"}
          /\ pass'.key = pass.key /\ pass'.todo = pass.todo /\ pass'.held = pass.held
      BY <1>10 DEF Accept, Refuse, Go, Typed, Worked
    <2> QED
      BY <2>1 DEF InCopy, Listed, Handling
  <1>11. CASE MarkFailed /\ Go("giveUp") /\ mail[pass.key].status = "pending"
    <2>1. /\ pass.step = "failed" /\ pass'.step = "giveUp"
          /\ pass'.key = pass.key /\ pass'.todo = pass.todo /\ pass'.held = pass.held
      BY <1>11 DEF MarkFailed, Go, Typed, Worked
    <2>2. /\ \A k \in Key \ {pass.key} : mail'[k] = mail[k]
          /\ mail'[pass.key].attempts = pass.held[pass.key].attempts + 1
          /\ mail'[pass.key].status = mail[pass.key].status
          /\ mail'[pass.key].body = mail[pass.key].body
      BY <1>11 DEF MarkFailed, Held, Typed, Worked, MailRow
    <2>3. pass.key \notin pass.todo
      BY <2>1 DEF InPass
    <2> QED
      BY <2>1, <2>2, <2>3 DEF InCopy, Listed, Handling
  <1>12. CASE Restart
    BY <1>12 DEF Restart, IdlePass, InCopy, Listed, Handling
  <1>13. ASSUME Cancel \/ MarkSent \/ MarkFailed
         PROVE  \A k \in Key \ {pass.key} : mail'[k] = mail[k]
    BY <1>13 DEF Cancel, MarkSent, MarkFailed, Typed
  <1> QED
    BY <1>1, <1>2, <1>3, <1>4, <1>5, <1>6, <1>7, <1>8, <1>9, <1>10, <1>11, <1>12, <1>13
       DEF OutboxNext, everything, Surroundings, StartWorkspace, Disconnect, StopWorkspace, Live,
           Connect,
           SetUserDisabled, BeginDeletion, RecordDeletion, LookUpForNotice, Worker, Answer,
           Cancel, MarkSent, MarkFailed, HandSteps

-----------------------------------------------------------------------------
(* Nothing is sent of a text before it is queued *)

LEMMA InitUnsent == ASSUME OutboxInit PROVE \A k \in Key : Unsent(k)
  BY DEF OutboxInit, Unsent

LEMMA CountsStay ==
  ASSUME Typed, \A k \in Key : Unsent(k), UNCHANGED <<sends, tries>>,
         \A k \in Key : \/ mail'[k].body = mail[k].body /\ mail[k].status # "none"
                        \/ mail'[k] = mail[k]
                        \/ mail[k].status = "none"
                        \/ mail'[k].body > mail[k].body /\ mail'[k].body \in Nat
                           /\ mail'[k].status # "none",
         \A k \in Key : mail'[k].status = "none" => mail[k].status = "none"
  PROVE  \A k \in Key : Unsent(k)'
  BY DEF Unsent, Typed, MailRow, Statement

LEMMA NextUnsent ==
  ASSUME Typed, InPass, Ordered, [OutboxNext]_everything
  PROVE  \A k \in Key : Unsent(k)'
  <1>1. CASE UNCHANGED <<mail, sends, tries>>
    BY <1>1 DEF Ordered, Unsent
  <1>2. CASE CancelPending
    BY <1>2, SweptMeans, CountsStay DEF CancelPending, relay, Ordered
  <1>3. CASE QueueNotice
    <2>1. deletion.number \in Statement /\ deletion.number > mail["notice"].body
      BY <1>3, Keys DEF QueueNotice, Typed, Deletion, Ordered, InTime, MailRow, Statement
    <2>2. Upsert("notice", deletion.number)
      BY <1>3 DEF QueueNotice
    <2>3. mail'["notice"].status # "none" /\ mail'["notice"].body = deletion.number
      BY <2>1, <2>2, UpsertBodies, Keys
    <2>4. \A k \in Key \ {"notice"} : mail'[k] = mail[k]
      BY <2>2, UpsertMeans, Keys
    <2> QED
      BY <1>3, <2>1, <2>3, <2>4, CountsStay DEF QueueNotice, relay, Ordered, Statement
  <1>4. ASSUME NEW k \in Letter, QueueLetter(k) PROVE \A j \in Key : Unsent(j)'
    <2>1. \A j \in Key \ {k} : mail'[j] = mail[j]
      BY <1>4, UpsertMeans, Keys DEF QueueLetter
    <2> QED
      BY <1>4, <2>1, CountsStay, UpsertMeans, Keys DEF QueueLetter, relay, Ordered
  <1>5. ASSUME NEW k \in Key, RetryDue(k) PROVE \A j \in Key : Unsent(j)'
    <2>1. \A j \in Key : mail'[j].status = mail[j].status /\ mail'[j].body = mail[j].body
      BY <1>5 DEF RetryDue, Typed, MailRow
    <2> QED
      BY <1>5, <2>1 DEF RetryDue, relay, Ordered, Unsent
  <1>6. CASE QueueWarning
    <2> DEFINE k == Phase(pass.seen)
               n == pass.seen.deadline
    <2>1. k \in Warning /\ n \in Statement
      BY <1>6, PhaseTyped DEF QueueWarning, InPass, Typed, Worked, Evaluated, Warning
    <2>2. k \in Key /\ mail[k].body <= n
      BY <1>6, <2>1 DEF QueueWarning, Ordered, InTime, Key
    <2>3. Upsert(k, n)
      BY <1>6 DEF QueueWarning
    <2> HIDE DEF k, n
    <2>4. mail'[k].status # "none" /\ mail'[k].body = n
      BY <2>1, <2>2, <2>3, UpsertBodies
    <2>5. \A j \in Key \ {k} : mail'[j] = mail[j]
      BY <2>2, <2>3, UpsertMeans
    <2>6. mail[k].body \in Nat /\ n \in Nat
      BY <2>1, <2>2 DEF Typed, MailRow, Statement
    <2>7. mail[k].body = n \/ n > mail[k].body
      BY <2>2, <2>6
    <2> QED
      BY <1>6, <2>4, <2>5, <2>6, <2>7, CountsStay DEF QueueWarning, relay, Ordered
  <1>7. CASE Cancel \/ MarkSent \/ MarkFailed
    <2>1. \A j \in Key : mail'[j].body = mail[j].body
      BY <1>7 DEF Cancel, MarkSent, MarkFailed, Typed, MailRow
    <2>2. \A j \in Key : mail'[j].status = "none" <=> mail[j].status = "none"
      BY <1>7 DEF Cancel, MarkSent, MarkFailed, Typed, MailRow
    <2> QED
      BY <1>7, <2>1, <2>2 DEF Cancel, MarkSent, MarkFailed, relay, Ordered, Unsent
  <1>8. CASE Accept \/ Refuse
    <2>1. /\ pass.key \in Key /\ Held = pass.held[pass.key] /\ Listed(pass.key)
          /\ mail' = mail
      BY <1>8 DEF Accept, Refuse, Held, Listed, Handling, Typed, Worked
    <2>2. \A k \in Key, n \in Statement :
             k # pass.key \/ n # Held.body => sends'[k][n] = sends[k][n] /\ tries'[k][n] = tries[k][n]
      BY <1>8, <2>1 DEF Accept, Refuse, Plus, Typed, Counts
    <2>3. Held.body <= mail[pass.key].body /\ mail[pass.key].status # "none"
      BY <2>1 DEF Ordered, InCopy
    <2>4. Held.body \in Nat /\ mail[pass.key].body \in Nat
      BY <2>1 DEF Typed, Worked, MailRow, Statement
    <2> QED
      BY <2>1, <2>2, <2>3, <2>4 DEF Ordered, Unsent, Statement
  <1> QED
    BY <1>1, <1>2, <1>3, <1>4, <1>5, <1>6, <1>7, <1>8
       DEF OutboxNext, everything, relay, Surroundings, StartWorkspace, Disconnect,
           StopWorkspace, Live, Connect,
           SetUserDisabled, BeginDeletion, RecordDeletion, LookUpForNotice, Worker, Answer,
           ListForWarnings, CheckLead, LookUpOwner, ListPending, CheckCurrent, Restart

-----------------------------------------------------------------------------
(* What takes the place of a listed text is new *)

LEMMA NothingQueued ==
  ASSUME Typed, Ordered, NEW k \in Key, NEW n \in Statement, Upsert(k, n), n >= mail[k].body
  PROVE  \/ mail'[k] = mail[k]
         \/ /\ mail'[k].status = "pending" /\ mail'[k].body = n /\ mail'[k].attempts = 0
            /\ sends[k][n] = 0 /\ tries[k][n] = 0
  <1>1. CASE mail[k].status = "none" \/ mail[k].body # n
    <2>1. mail[k].body \in Nat /\ n \in Nat
      BY DEF Typed, MailRow, Statement
    <2>2. sends[k][n] = 0 /\ tries[k][n] = 0
      BY <1>1, <2>1 DEF Ordered, Unsent
    <2> QED
      BY <1>1, <2>2 DEF Upsert, Typed
  <1> QED
    BY <1>1 DEF Upsert

(* What QueueNotice, QueueLetter and QueueWarning have in common. *)
LEMMA QueuedLater ==
  ASSUME Typed, InPass, Ordered, QueueNotice \/ QueueWarning \/ \E k \in Letter : QueueLetter(k)
  PROVE  \E k \in Key, n \in Statement :
            /\ Upsert(k, n) /\ n >= mail[k].body
            /\ UNCHANGED <<sends, tries, restarts>>
            /\ \/ pass' = pass \/ Leaves
            /\ Listed(k) => k = "notice" /\ n > mail[k].body
            /\ k = "notice" => n = deletion.number /\ QueueNotice
  <1>1. CASE QueueNotice
    <2>1. deletion.number \in Statement /\ deletion.number > mail["notice"].body
      BY <1>1, Keys DEF QueueNotice, Typed, Deletion, Ordered, InTime, MailRow, Statement
    <2> QED
      BY <1>1, <2>1, Keys DEF QueueNotice, relay, Statement, Typed, MailRow
  <1>2. CASE QueueWarning
    <2>1. Phase(pass.seen) \in Warning /\ pass.seen.deadline \in Statement
      BY <1>2, PhaseTyped DEF QueueWarning, InPass, Typed, Worked, Evaluated, Warning
    <2>2. Phase(pass.seen) \in Key /\ mail[Phase(pass.seen)].body <= pass.seen.deadline
      BY <1>2, <2>1 DEF QueueWarning, Ordered, InTime, Key
    <2>3. Leaves /\ \A k \in Key : ~Listed(k)
      BY <1>2 DEF QueueWarning, Go, Leaves, InPass, Listed, Handling, Typed, Worked
    <2>4. mail[Phase(pass.seen)].body \in Nat /\ pass.seen.deadline \in Nat
      BY <2>1, <2>2 DEF Typed, MailRow, Statement
    <2> QED
      BY <1>2, <2>1, <2>2, <2>3, <2>4, Keys DEF QueueWarning, relay
  <1>3. ASSUME NEW k \in Letter, QueueLetter(k)
        PROVE  /\ k \in Key /\ k # "notice" /\ 0 \in Statement /\ Upsert(k, 0) /\ 0 >= mail[k].body
               /\ UNCHANGED <<sends, tries, restarts>> /\ pass' = pass /\ ~Listed(k)
    BY <1>3, Keys, OutboxAssumption
       DEF QueueLetter, relay, Ordered, InTime, InCopy, Statement
  <1> QED
    BY <1>1, <1>2, <1>3

LEMMA InitFresh == OutboxInit => Fresh
  BY DEF OutboxInit, Fresh, Listed, Handling, IdlePass

LEMMA NextFresh ==
  ASSUME Typed, InPass, Ordered, Fresh, [OutboxNext]_everything
  PROVE  Fresh'
  <1>1. CASE /\ UNCHANGED <<sends, tries>> /\ (pass' = pass \/ Leaves)
             /\ \A k \in Key : mail'[k].body = mail[k].body
    BY <1>1 DEF Fresh, Listed, Handling, Now, Copy, Leaves
  <1>2. CASE QueueNotice \/ QueueWarning \/ \E k \in Letter : QueueLetter(k)
    <2>1. PICK k \in Key, n \in Statement :
            /\ Upsert(k, n) /\ n >= mail[k].body
            /\ UNCHANGED <<sends, tries, restarts>> /\ (pass' = pass \/ Leaves)
      BY <1>2, QueuedLater
    <2>2. \A j \in Key \ {k} : mail'[j] = mail[j]
      BY <2>1, UpsertMeans
    <2>3. mail'[k] = mail[k] \/ (mail'[k].body = n /\ sends[k][n] = 0 /\ tries[k][n] = 0)
      BY <2>1, NothingQueued
    <2> QED
      BY <2>1, <2>2, <2>3 DEF Fresh, Listed, Handling, Now, Copy, Leaves
  <1>3. CASE ListPending
    <2>1. \A k \in Key : Listed(k)' => pass'.held[k] = mail[k]
      BY <1>3 DEF ListPending, IdlePass, Listed, Handling
    <2> QED
      BY <1>3, <2>1 DEF ListPending, Fresh, Now, Copy, Typed, MailRow, Statement
  <1>4. ASSUME NEW k \in Key, CheckCurrent(k) PROVE Fresh'
    <2>1. /\ pass'.held = pass.held /\ pass.step = "next" /\ UNCHANGED <<mail, sends, tries>>
          /\ pass'.step \in {"send", "cancel"} /\ pass'.key = k /\ k \in pass.todo
          /\ pass'.todo = pass.todo \ {k}
      BY <1>4 DEF CheckCurrent, relay, Typed, Worked
    <2> QED
      BY <2>1 DEF Fresh, Listed, Handling, Now, Copy
  <1>5. CASE /\ pass.step \in HandSteps /\ (Done \/ pass' = IdlePass) /\ UNCHANGED <<sends, tries>>
             /\ \A k \in Key : mail'[k].body = mail[k].body
    BY <1>5, DropsInHand DEF Drops, Fresh, Listed, Handling, Now, Copy
  <1>6. CASE /\ \/ pass.step = "send" /\ (Go("sent") \/ Go("failed"))
                \/ pass.step = "failed" /\ Go("giveUp")
             /\ \A k \in Key : mail'[k].body = mail[k].body
             /\ Accept \/ Refuse \/ UNCHANGED <<sends, tries>>
    <2>0. PICK j \in Key : j = pass.key
      BY DEF Typed, Worked
    <2>1. /\ pass'.key = j /\ pass.key = j /\ pass.step \in HandSteps
          /\ pass'.todo = pass.todo /\ pass'.held = pass.held
      BY <1>6, <2>0 DEF Go, Typed, Worked, HandSteps
    <2>2. \A k \in Key, n \in Statement :
             k # j \/ n # Copy(j) => sends'[k][n] = sends[k][n] /\ tries'[k][n] = tries[k][n]
      BY <1>6, <2>1 DEF Accept, Refuse, Plus, Held, Copy, Typed, Counts
    <2>3. \A k \in Key : Now(k) \in Statement /\ Copy(k) \in Statement
      BY DEF Now, Copy, Typed, MailRow, Worked
    <2>4. \A k \in Key : Listed(k)' => Listed(k)
      BY <2>1 DEF Listed, Handling, HandSteps
    <2> QED
      BY <1>6, <2>1, <2>2, <2>3, <2>4 DEF Fresh, Now, Copy, Statement
  <1>7. CASE Restart
    BY <1>7 DEF Restart, Fresh, Listed, Handling, IdlePass
  <1>8. CASE UNCHANGED <<sends, tries, mail, pass>>
    BY <1>1, <1>8
  <1>9. CASE CancelPending
    BY <1>1, <1>9, SweptMeans DEF CancelPending, relay
  <1>10. CASE \E k \in Key : RetryDue(k)
    BY <1>1, <1>10 DEF RetryDue, relay, Typed, MailRow
  <1>11. CASE ListForWarnings \/ CheckLead \/ LookUpOwner
    <2>1. Leaves
      BY <1>11 DEF ListForWarnings, CheckLead, LookUpOwner, Go, Leaves, InPass, Typed, Worked
    <2> QED
      BY <1>1, <1>11, <2>1 DEF ListForWarnings, CheckLead, LookUpOwner, relay
  <1>12. CASE Cancel \/ Accept \/ Refuse \/ MarkSent \/ MarkFailed
    <2>1. \A k \in Key : mail'[k].body = mail[k].body
      BY <1>12 DEF Cancel, Accept, Refuse, MarkSent, MarkFailed, Typed, MailRow
    <2> QED
      BY <1>5, <1>6, <1>12, <2>1
         DEF Cancel, Accept, Refuse, MarkSent, MarkFailed, HandSteps, relay
  <1> QED
    BY <1>2, <1>3, <1>4, <1>7, <1>8, <1>9, <1>10, <1>11, <1>12
       DEF OutboxNext, everything, relay, Surroundings, StartWorkspace, Disconnect,
           StopWorkspace, Live, Connect,
           SetUserDisabled, BeginDeletion, RecordDeletion, LookUpForNotice, Worker, Answer

-----------------------------------------------------------------------------
(* How often a text is sent *)

LEMMA InitSent == OutboxInit => Sent
  BY OutboxAssumption DEF OutboxInit, Sent, SentOf, IdlePass, NoMail, Handling, ToSend, Statement

(* Steps of rows alone, by which none becomes pending or sent. *)
LEMMA SentByRows ==
  ASSUME Typed, Sent, UNCHANGED <<sends, restarts>>, pass' = pass \/ Leaves,
         \A k \in Key :
            \/ /\ mail'[k].body = mail[k].body
               /\ mail'[k].status = mail[k].status \/ mail'[k].status \notin {"pending", "sent"}
            \/ mail'[k].status # "sent" /\ sends[k][mail'[k].body] = 0
  PROVE  Sent'
  <1> SUFFICES ASSUME NEW k \in Key PROVE SentOf(k)'
    BY DEF Sent
  <1>1. /\ ToSend(k)' => ToSend(k) /\ pass' = pass
        /\ Handling(k, {"sent"})' => Handling(k, {"sent"}) /\ pass' = pass
        /\ Handling(k, {"sent"}) => Handling(k, {"sent"})' \/ Leaves
    BY DEF ToSend, Handling, Leaves
  <1>2. SentOf(k)
    BY DEF Sent
  <1> QED
    BY <1>1, <1>2 DEF SentOf, Now, Copy, ToSend, Handling, Typed, Counts, Leaves, Worked

LEMMA NextSent ==
  ASSUME Typed, InPass, Ordered, Sent, [OutboxNext]_everything
  PROVE  Sent'
  <1>1. CASE UNCHANGED <<mail, pass, sends, restarts>>
    BY <1>1 DEF Sent, SentOf, Now, Copy, ToSend, Handling
  <1>2. CASE CancelPending
    <2>1. \A k \in Key : /\ mail'[k].body = mail[k].body
                         /\ mail'[k].status \in {mail[k].status, "canceled"}
      BY <1>2, SweptMeans DEF CancelPending
    <2> QED
      BY <1>2, <2>1, SentByRows DEF CancelPending, relay
  <1>3. CASE QueueNotice \/ QueueWarning \/ \E k \in Letter : QueueLetter(k)
    <2>1. PICK k \in Key, n \in Statement :
            /\ Upsert(k, n) /\ n >= mail[k].body
            /\ UNCHANGED <<sends, tries, restarts>> /\ (pass' = pass \/ Leaves)
      BY <1>3, QueuedLater
    <2>2. \A j \in Key \ {k} : mail'[j] = mail[j]
      BY <2>1, UpsertMeans
    <2>3. mail'[k] = mail[k] \/ (mail'[k].status # "sent" /\ sends[k][mail'[k].body] = 0)
      BY <2>1, NothingQueued
    <2> QED
      BY <2>1, <2>2, <2>3, SentByRows
  <1>4. ASSUME NEW k \in Key, RetryDue(k) PROVE Sent'
    <2>1. \A j \in Key : mail'[j].status = mail[j].status /\ mail'[j].body = mail[j].body
      BY <1>4 DEF RetryDue, Typed, MailRow
    <2> QED
      BY <1>4, <2>1, SentByRows DEF RetryDue, relay
  <1>5. CASE ListForWarnings \/ CheckLead \/ LookUpOwner
    <2>1. Leaves /\ UNCHANGED <<mail, sends, restarts>>
      BY <1>5
         DEF ListForWarnings, CheckLead, LookUpOwner, Go, Leaves, InPass, Typed, Worked, relay
    <2> QED
      BY <2>1, SentByRows
  <1>6. CASE ListPending
    <2>1. pass.step = "list" /\ UNCHANGED <<mail, sends, restarts>>
      BY <1>6 DEF ListPending, relay
    <2>2. /\ pass'.step \in {"idle", "next"}
          /\ \A k \in pass'.todo : k \in Pending /\ pass'.held[k] = mail[k]
      BY <1>6 DEF ListPending, Pending, IdlePass
    <2> QED
      BY <2>1, <2>2 DEF Sent, SentOf, Now, Copy, ToSend, Handling, Pending
  <1>7. ASSUME NEW k \in Key, CheckCurrent(k) PROVE Sent'
    <2>1. /\ pass'.held = pass.held /\ pass.step = "next" /\ UNCHANGED <<mail, sends, restarts>>
          /\ pass'.step \in {"send", "cancel"} /\ pass'.key = k /\ k \in pass.todo
          /\ pass'.todo = pass.todo \ {k}
      BY <1>7 DEF CheckCurrent, relay, Typed, Worked
    <2> QED
      BY <2>1 DEF Sent, SentOf, Now, Copy, ToSend, Handling
  <1>8. CASE /\ pass.step \in HandSteps /\ (Done \/ pass' = IdlePass) /\ UNCHANGED <<sends, restarts>>
             /\ \A k \in Key : /\ mail'[k].body = mail[k].body
                               /\ \/ mail'[k].status = mail[k].status /\ ~Handling(k, {"sent"})
                                  \/ mail'[k].status \notin {"pending", "sent"}
                                  \/ mail'[k].status = "sent" /\ Handling(k, {"sent"})
    <2>1. Drops
      BY <1>8, DropsInHand
    <2>2. \A k \in Key \ {"notice"} : Handling(k, {"sent"}) => sends[k][Now(k)] > 0
      BY DEF Sent, SentOf, Ordered, InCopy, Listed, Handling, Now, Copy
    <2> QED
      BY <1>8, <2>1, <2>2 DEF Drops, Sent, SentOf, Now, Copy, ToSend, Handling
  <1>9. CASE Refuse
    <2>1. /\ UNCHANGED <<mail, sends, restarts>> /\ pass.step = "send" /\ pass'.step = "failed"
          /\ pass'.key = pass.key /\ pass'.todo = pass.todo /\ pass'.held = pass.held
      BY <1>9 DEF Refuse, Go, Typed, Worked
    <2> QED
      BY <2>1 DEF Sent, SentOf, Now, Copy, ToSend, Handling
  <1>10. CASE Accept
    <2>1. /\ UNCHANGED <<mail, restarts>> /\ pass.step = "send" /\ pass'.step = "sent"
          /\ pass'.key = pass.key /\ pass'.todo = pass.todo /\ pass'.held = pass.held
          /\ pass.key \in Key /\ Copy(pass.key) \in Statement
      BY <1>10 DEF Accept, Go, Typed, Worked, Copy, MailRow
    <2>2. /\ sends'[pass.key][Copy(pass.key)] = sends[pass.key][Copy(pass.key)] + 1
          /\ \A k \in Key, n \in Statement :
               k # pass.key \/ n # Copy(pass.key) => sends'[k][n] = sends[k][n]
      BY <1>10, <2>1 DEF Accept, Plus, Held, Copy, Typed, Counts
    <2>3. ToSend(pass.key) /\ pass.key \notin pass.todo
      BY <2>1 DEF ToSend, Handling, InPass
    <2>4. \A k \in Key, n \in Statement : sends[k][n] \in Nat
      BY DEF Typed, Counts
    <2>5. restarts \in Nat
      BY DEF Typed
    <2>6. \A k \in Key : Now(k) \in Statement /\ Copy(k) \in Statement
      BY DEF Now, Copy, Typed, MailRow, Worked
    <2> QED
      BY <2>1, <2>2, <2>3, <2>4, <2>5, <2>6 DEF Sent, SentOf, Now, Copy, ToSend, Handling
  <1>11. CASE MarkFailed /\ Go("giveUp") /\ mail[pass.key].status = "pending"
    <2>1. /\ pass.step = "failed" /\ pass'.step = "giveUp" /\ UNCHANGED <<sends, restarts>>
          /\ pass'.key = pass.key /\ pass'.todo = pass.todo /\ pass'.held = pass.held
      BY <1>11 DEF MarkFailed, relay, Go, Typed, Worked
    <2>2. \A k \in Key : mail'[k].status = mail[k].status /\ mail'[k].body = mail[k].body
      BY <1>11 DEF MarkFailed, Typed, MailRow
    <2> QED
      BY <2>1, <2>2 DEF Sent, SentOf, Now, Copy, ToSend, Handling
  <1>12. CASE Restart
    <2>1. /\ UNCHANGED <<mail, sends>> /\ restarts' = restarts + 1 /\ restarts \in Nat
          /\ pass'.step = "idle" /\ pass'.todo = {}
      BY <1>12 DEF Restart, IdlePass, Typed
    <2>2. \A k \in Key, n \in Statement : sends[k][n] \in Nat
      BY DEF Typed, Counts
    <2>3. \A k \in Key : Now(k) \in Statement
      BY DEF Now, Typed, MailRow
    <2> QED
      BY <2>1, <2>2, <2>3 DEF Sent, SentOf, Now, Copy, ToSend, Handling
  <1>13. ASSUME Cancel \/ MarkSent \/ MarkFailed
         PROVE  /\ UNCHANGED <<sends, restarts>>
                /\ \A k \in Key : /\ mail'[k].body = mail[k].body
                                  /\ \/ mail'[k].status = mail[k].status /\ ~Handling(k, {"sent"})
                                     \/ mail'[k].status \notin {"pending", "sent"}
                                     \/ mail'[k].status = "sent" /\ Handling(k, {"sent"})
    BY <1>13 DEF Cancel, MarkSent, MarkFailed, relay, Handling, Typed, MailRow
  <1> QED
    BY <1>1, <1>2, <1>3, <1>4, <1>5, <1>6, <1>7, <1>8, <1>9, <1>10, <1>11, <1>12, <1>13
       DEF OutboxNext, everything, relay, Surroundings, StartWorkspace, Disconnect,
           StopWorkspace, Live, Connect,
           SetUserDisabled, BeginDeletion, RecordDeletion, LookUpForNotice, Worker, Answer,
           Cancel, MarkSent, MarkFailed, HandSteps

-----------------------------------------------------------------------------
(* How often a text is handed to the relay *)

LEMMA InitTried == OutboxInit => Tried
  BY OutboxAssumption DEF OutboxInit, Tried, TriedOf, IdlePass, NoMail, Handling, ToSend, Statement

LEMMA TriedByRows ==
  ASSUME Typed, Tried, UNCHANGED <<tries, restarts>>, pass' = pass \/ Leaves,
         \A k \in Key :
            \/ /\ mail'[k].body = mail[k].body /\ mail'[k].attempts = mail[k].attempts
               /\ mail'[k].status = mail[k].status \/ mail'[k].status # "pending"
            \/ mail'[k].attempts = 0 /\ tries[k][mail'[k].body] = 0
  PROVE  Tried'
  <1>1. MaxAttempts \in Nat \ {0} /\ restarts \in Nat
    BY OutboxAssumption DEF Typed
  <1> QED
    BY <1>1 DEF Tried, TriedOf, Now, Copy, ToSend, Handling, Typed, Counts, Leaves, Worked

LEMMA NextTried ==
  ASSUME Typed, InPass, Ordered, Fresh, Tried, [OutboxNext]_everything
  PROVE  Tried'
  <1>1. CASE UNCHANGED <<mail, pass, tries, restarts>>
    BY <1>1 DEF Tried, TriedOf, Now, Copy, ToSend, Handling
  <1>2. CASE CancelPending
    <2>1. \A k \in Key : /\ mail'[k].body = mail[k].body /\ mail'[k].attempts = mail[k].attempts
                         /\ mail'[k].status \in {mail[k].status, "canceled"}
      BY <1>2, SweptMeans DEF CancelPending
    <2> QED
      BY <1>2, <2>1, TriedByRows DEF CancelPending, relay
  <1>3. CASE QueueNotice \/ QueueWarning \/ \E k \in Letter : QueueLetter(k)
    <2>1. PICK k \in Key, n \in Statement :
            /\ Upsert(k, n) /\ n >= mail[k].body
            /\ UNCHANGED <<sends, tries, restarts>> /\ (pass' = pass \/ Leaves)
      BY <1>3, QueuedLater
    <2>2. \A j \in Key \ {k} : mail'[j] = mail[j]
      BY <2>1, UpsertMeans
    <2>3. mail'[k] = mail[k] \/ (mail'[k].attempts = 0 /\ tries[k][mail'[k].body] = 0)
      BY <2>1, NothingQueued
    <2> QED
      BY <2>1, <2>2, <2>3, TriedByRows
  <1>4. ASSUME NEW k \in Key, RetryDue(k) PROVE Tried'
    <2>1. \A j \in Key : /\ mail'[j].status = mail[j].status /\ mail'[j].body = mail[j].body
                         /\ mail'[j].attempts = mail[j].attempts
      BY <1>4 DEF RetryDue, Typed, MailRow
    <2> QED
      BY <1>4, <2>1, TriedByRows DEF RetryDue, relay
  <1>5. CASE ListForWarnings \/ CheckLead \/ LookUpOwner
    <2>1. Leaves /\ UNCHANGED <<mail, tries, restarts>>
      BY <1>5
         DEF ListForWarnings, CheckLead, LookUpOwner, Go, Leaves, InPass, Typed, Worked, relay
    <2> QED
      BY <2>1, TriedByRows
  <1>6. CASE ListPending
    <2>1. pass.step = "list" /\ UNCHANGED <<mail, tries, restarts>>
      BY <1>6 DEF ListPending, relay
    <2>2. /\ pass'.step \in {"idle", "next"}
          /\ \A k \in pass'.todo : k \in Pending /\ pass'.held[k] = mail[k]
      BY <1>6 DEF ListPending, Pending, IdlePass
    <2> QED
      BY <2>1, <2>2 DEF Tried, TriedOf, Now, Copy, ToSend, Handling, Pending
  <1>7. ASSUME NEW k \in Key, CheckCurrent(k) PROVE Tried'
    <2>1. /\ pass'.held = pass.held /\ pass.step = "next" /\ UNCHANGED <<mail, tries, restarts>>
          /\ pass'.step \in {"send", "cancel"} /\ pass'.key = k /\ k \in pass.todo
          /\ pass'.todo = pass.todo \ {k}
      BY <1>7 DEF CheckCurrent, relay, Typed, Worked
    <2> QED
      BY <2>1 DEF Tried, TriedOf, Now, Copy, ToSend, Handling
  <1>8. CASE /\ pass.step \in HandSteps /\ (Done \/ pass' = IdlePass) /\ UNCHANGED <<tries, restarts>>
             /\ \A k \in Key : \/ mail'[k] = mail[k] /\ ~Handling(k, {"sent", "failed", "giveUp"})
                               \/ mail'[k].status # "pending"
    <2>1. Drops
      BY <1>8, DropsInHand
    <2> QED
      BY <1>8, <2>1 DEF Drops, Tried, TriedOf, Now, Copy, ToSend, Handling
  <1>9. CASE Accept \/ Refuse
    <2>0. PICK j \in Key : j = pass.key
      BY DEF Typed, Worked
    <2>1. /\ UNCHANGED <<mail, restarts>> /\ pass.step = "send" /\ pass'.step \in {"sent", "failed"}
          /\ pass'.key = j /\ pass'.todo = pass.todo /\ pass'.held = pass.held
          /\ pass.key = j /\ Copy(j) \in Statement
      BY <1>9, <2>0 DEF Accept, Refuse, Go, Typed, Worked, Copy, MailRow
    <2>2. /\ tries'[j][Copy(j)] = tries[j][Copy(j)] + 1
          /\ \A k \in Key, n \in Statement :
               k # j \/ n # Copy(j) => tries'[k][n] = tries[k][n]
      BY <1>9, <2>1 DEF Accept, Refuse, Plus, Held, Copy, Typed, Counts
    <2>3. ToSend(j) /\ j \notin pass.todo
      BY <2>1 DEF ToSend, Handling, InPass
    <2>4. \A k \in Key, n \in Statement : tries[k][n] \in Nat
      BY DEF Typed, Counts
    <2>5. restarts \in Nat /\ MaxAttempts \in Nat
      BY OutboxAssumption DEF Typed
    <2>6. \A k \in Key : Now(k) \in Statement /\ Copy(k) \in Statement /\ mail[k].attempts \in Nat
      BY DEF Now, Copy, Typed, MailRow, Worked
    <2>7. \A k \in Key \ {j} : TriedOf(k)'
      BY <2>1, <2>2, <2>6 DEF Tried, TriedOf, Now, Copy, ToSend, Handling
    <2>8. \A n \in Statement : tries'[j][n] <= MaxAttempts + restarts
      BY <2>1, <2>2, <2>3, <2>4, <2>5 DEF Tried, TriedOf
    <2>9. mail[j].status = "pending" =>
            tries[j][Now(j)] <= mail[j].attempts + restarts
      BY <2>1 DEF Tried, TriedOf, Handling
    <2>10. TriedOf(j)'
      BY <2>1, <2>2, <2>3, <2>4, <2>5, <2>6, <2>8, <2>9 DEF TriedOf, Now, Copy, ToSend, Handling
    <2> QED
      BY <2>7, <2>10 DEF Tried
  <1>10. CASE MarkFailed /\ mail[pass.key].status = "pending"
    <2>0. PICK j \in Key : j = pass.key
      BY DEF Typed, Worked
    <2>1. /\ pass.step = "failed" /\ UNCHANGED <<tries, restarts>> /\ pass.key = j
          /\ \/ Drops
             \/ /\ pass'.step = "giveUp" /\ pass'.key = j
                /\ pass'.todo = pass.todo /\ pass'.held = pass.held
      BY <1>10, <2>0, DropsInHand DEF MarkFailed, HandSteps, relay, Go, Typed, Worked
    <2>2. /\ \A k \in Key \ {j} : mail'[k] = mail[k]
          /\ mail'[j].attempts = pass.held[j].attempts + 1
          /\ mail'[j].status = mail[j].status /\ mail'[j].body = mail[j].body
      BY <1>10, <2>0 DEF MarkFailed, Held, Typed, Worked, MailRow
    <2>3. j \notin pass.todo /\ j \notin pass'.todo
      BY <1>10, <2>1, DropsInHand DEF InPass, Drops
    <2>4. pass'.step # "giveUp" => pass.held[j].attempts + 1 < MaxAttempts
      BY <1>10, <2>1, OutboxAssumption DEF MarkFailed, Held, Go, Typed, Worked, MailRow
    <2>5. Listed(j) /\ Copy(j) <= Now(j) /\ (Copy(j) = Now(j) => mail[j].attempts = pass.held[j].attempts)
      BY <2>1 DEF Ordered, InCopy, Listed, Handling, Copy, Now
    <2>6. /\ restarts \in Nat /\ MaxAttempts \in Nat \ {0} /\ pass.held[j].attempts \in Nat
          /\ Copy(j) \in Nat /\ Now(j) \in Statement /\ Now(j) \in Nat /\ tries[j][Now(j)] \in Nat
      BY <2>1, OutboxAssumption DEF Typed, Worked, MailRow, Counts, Copy, Now, Statement
    <2>7. Copy(j) < Now(j) => tries[j][Now(j)] = 0
      BY <2>5 DEF Fresh
    <2>8. tries[j][Now(j)] <= pass.held[j].attempts + 1 + restarts
      <3>1. CASE Copy(j) = Now(j)
        BY <1>10, <2>0, <2>1, <2>5, <2>6, <3>1 DEF Tried, TriedOf
      <3>2. CASE Copy(j) < Now(j)
        BY <2>6, <2>7, <3>2
      <3> QED
        BY <2>5, <2>6, <3>1, <3>2
    <2>9. TriedOf(j)'
      BY <1>10, <2>0, <2>1, <2>2, <2>3, <2>4, <2>6, <2>8
         DEF Tried, TriedOf, Drops, Now, ToSend, Handling
    <2>10. ASSUME NEW k \in Key \ {j} PROVE TriedOf(k)'
      BY <2>1, <2>2, <2>10 DEF Tried, TriedOf, Drops, Now, Copy, ToSend, Handling
    <2> QED
      BY <2>9, <2>10 DEF Tried
  <1>11. CASE Restart
    <2>1. /\ UNCHANGED <<mail, tries>> /\ restarts' = restarts + 1 /\ restarts \in Nat
          /\ pass'.step = "idle" /\ pass'.todo = {}
      BY <1>11 DEF Restart, IdlePass, Typed
    <2>2. \A k \in Key, n \in Statement : tries[k][n] \in Nat
      BY DEF Typed, Counts
    <2>3. \A k \in Key : Now(k) \in Statement /\ mail[k].attempts \in Nat
      BY DEF Now, Typed, MailRow
    <2> QED
      BY <2>1, <2>2, <2>3, OutboxAssumption DEF Tried, TriedOf, Now, Copy, ToSend, Handling
  <1>12. ASSUME Cancel \/ MarkSent \/ (MarkFailed /\ mail[pass.key].status # "pending")
         PROVE  /\ pass.step \in HandSteps /\ (Done \/ pass' = IdlePass)
                /\ UNCHANGED <<tries, restarts>>
                /\ \A k \in Key : \/ mail'[k] = mail[k] /\ ~Handling(k, {"sent", "failed", "giveUp"})
                                  \/ mail'[k].status # "pending"
    BY <1>12 DEF Cancel, MarkSent, MarkFailed, HandSteps, relay, Handling, Typed, MailRow
  <1> QED
    BY <1>1, <1>2, <1>3, <1>4, <1>5, <1>6, <1>7, <1>8, <1>9, <1>10, <1>11, <1>12
       DEF OutboxNext, everything, relay, Surroundings, StartWorkspace, Disconnect,
           StopWorkspace, Live, Connect,
           SetUserDisabled, BeginDeletion, RecordDeletion, LookUpForNotice, Worker, Answer

-----------------------------------------------------------------------------
(* The notices *)

LEMMA InitNotices == OutboxInit => Notices
  BY Keys, OutboxAssumption
     DEF OutboxInit, Notices, NoticeOrder, NoticeCount, NoticeSurvivesSweep, Over, Listed,
         Handling, IdlePass,
         NoMail, Now, Statement

LEMMA NextNoticeOrder ==
  ASSUME Typed, InPass, Ordered, NoticeOrder, [OutboxNext]_everything
  PROVE  NoticeOrder'
  <1>1. CASE UNCHANGED <<ws, deletion, mail>>
    BY <1>1 DEF NoticeOrder
  <1>2. CASE StartWorkspace \/ Disconnect \/ StopWorkspace \/ Connect
    BY <1>2
       DEF StartWorkspace, Disconnect, StopWorkspace, Live, Connect, NoticeOrder, Typed, Evaluated
  <1>3. ASSUME NEW by \in {"timeout", "owner", "administrator"}, BeginDeletion(by)
        PROVE  NoticeOrder'
    BY <1>3 DEF BeginDeletion, Phase, NoticeOrder, Typed, Deletion
  <1>4. CASE CancelPending
    BY <1>4, SweptMeans, Keys DEF CancelPending, NoticeOrder, Typed, Deletion
  <1>5. CASE RecordDeletion
    BY <1>5 DEF RecordDeletion, NoticeOrder, Typed, Evaluated, Deletion
  <1>6. CASE LookUpForNotice
    BY <1>6 DEF LookUpForNotice, NoticeOrder, Typed, Deletion
  <1>7. CASE QueueNotice
    BY <1>7 DEF QueueNotice, NoticeOrder, Typed, Deletion
  <1>8. CASE Restart
    BY <1>8 DEF Restart, NoticeOrder, Typed, Deletion
  <1>9. CASE /\ UNCHANGED <<ws, deletion>>
             /\ mail["notice"].status = "none" => mail'["notice"].status = "none"
    BY <1>9 DEF NoticeOrder
  <1>10. ASSUME NEW k \in Letter, QueueLetter(k) PROVE mail'["notice"] = mail["notice"]
    BY <1>10, UpsertMeans, Keys, OutboxAssumption DEF QueueLetter
  <1>11. ASSUME NEW k \in Key, RetryDue(k) PROVE mail'["notice"].status = mail["notice"].status
    BY <1>11, Keys DEF RetryDue, Typed, MailRow
  <1>12. ASSUME QueueWarning PROVE mail'["notice"] = mail["notice"]
    <2>1. Phase(pass.seen) \in Warning
      BY <1>12, PhaseTyped DEF QueueWarning, InPass, Typed, Worked, Warning
    <2>2. Phase(pass.seen) \in Key /\ Phase(pass.seen) # "notice"
      BY <2>1, Keys DEF Key
    <2>3. mail' = mail \/ \E n : Upsert(Phase(pass.seen), n)
      BY <1>12 DEF QueueWarning
    <2> QED
      BY <2>2, <2>3, UpsertMeans, Keys
  <1>13. ASSUME Cancel \/ MarkSent \/ MarkFailed
         PROVE  mail["notice"].status = "none" => mail'["notice"].status = "none"
    BY <1>13, Keys DEF Cancel, MarkSent, MarkFailed, Typed, MailRow
  <1>14. ASSUME Worker \/ (\E k \in Letter : QueueLetter(k)) \/ \E k \in Key : RetryDue(k)
         PROVE  UNCHANGED <<ws, deletion>>
    BY <1>14
       DEF Worker, Answer, QueueLetter, RetryDue, ListForWarnings, CheckLead, LookUpOwner, QueueWarning,
           ListPending, CheckCurrent, Cancel, Accept, Refuse, MarkSent, MarkFailed, lifecycle
  <1>15. CASE (\E k \in Letter : QueueLetter(k)) \/ \E k \in Key : RetryDue(k)
    BY <1>9, <1>10, <1>11, <1>14, <1>15
  <1>16. CASE QueueWarning \/ Cancel \/ MarkSent \/ MarkFailed
    BY <1>9, <1>12, <1>13, <1>14, <1>16 DEF Worker
  <1> QED
    BY <1>1, <1>2, <1>3, <1>4, <1>5, <1>6, <1>7, <1>8, <1>14, <1>15, <1>16
       DEF OutboxNext, everything, Surroundings, SetUserDisabled, Worker, Answer,
           ListForWarnings, CheckLead,
           LookUpOwner, ListPending, CheckCurrent, Accept, Refuse

LEMMA OverStays ==
  ASSUME Typed, NoticeOrder, [OutboxNext]_everything, Over
  PROVE  Over'
  <1>1. ws' = ws /\ deletion'.step = "none"
    BY DEF OutboxNext, everything, Over, Surroundings, StartWorkspace, Disconnect, StopWorkspace,
           Live, Connect,
           SetUserDisabled, BeginDeletion, Phase, CancelPending, RecordDeletion, LookUpForNotice,
           QueueNotice, QueueLetter, RetryDue, Worker, Answer, ListForWarnings, CheckLead,
           LookUpOwner, QueueWarning, ListPending, CheckCurrent, Cancel, Accept, Refuse,
           MarkSent, MarkFailed, Restart, lifecycle, Typed, Deletion
  <1> QED
    BY <1>1 DEF Over

(* Steps that count nothing for the notice. *)
LEMMA CountedAsBefore ==
  ASSUME Typed, NoticeCount, Over => Over', UNCHANGED tries, pass' = pass \/ Leaves,
         mail'["notice"].body = mail["notice"].body,
         mail'["notice"].attempts = mail["notice"].attempts
  PROVE  NoticeCount'
  BY DEF NoticeCount, Listed, Handling, Now, Copy, Leaves

LEMMA NextNoticeCount ==
  ASSUME Typed, InPass, Ordered, NoticeOrder, NoticeCount, [OutboxNext]_everything
  PROVE  NoticeCount'
  <1> USE Keys
  <1>0. Over => Over'
    BY OverStays
  <1>1. CASE UNCHANGED <<mail, pass, tries>>
    BY <1>0, <1>1, CountedAsBefore
  <1>2. CASE CancelPending
    BY <1>0, <1>2, SweptMeans, CountedAsBefore DEF CancelPending, relay
  <1>3. CASE QueueNotice
    <2>1. /\ deletion.number \in Statement /\ deletion.number > mail["notice"].body
          /\ Upsert("notice", deletion.number) /\ pass' = pass /\ tries' = tries /\ ws' = ws
          /\ deletion'.step = "none" /\ deletion.step = "notice"
      BY <1>3 DEF QueueNotice, relay, Typed, Deletion, Ordered, InTime, MailRow, Statement
    <2>2. mail'["notice"].body = deletion.number /\ mail'["notice"].attempts = 0
      BY <2>1 DEF Upsert, Typed, MailRow, Statement
    <2>3. ~Over /\ (deletion.by = "administrator" => Over')
      BY <2>1 DEF Over, NoticeOrder
    <2>4. deletion.by # "administrator" => ~Listed("notice")
      BY <2>1 DEF NoticeOrder, Ordered, InCopy
    <2>5. \A n \in Statement : tries["notice"][n] \in Nat
      BY DEF Typed, Counts
    <2> QED
      BY <2>1, <2>2, <2>3, <2>4, <2>5 DEF NoticeCount, Listed, Handling, Now, Copy
  <1>4. CASE (\E k \in Letter : QueueLetter(k)) \/ QueueWarning
    <2>1. PICK k \in Key, n \in Statement :
            /\ Upsert(k, n) /\ UNCHANGED tries /\ (pass' = pass \/ Leaves)
            /\ k = "notice" => QueueNotice
      BY <1>4, QueuedLater
    <2>2. CASE k # "notice"
      <3>1. mail'["notice"] = mail["notice"]
        BY <2>1, <2>2, UpsertMeans
      <3> QED
        BY <1>0, <2>1, <3>1, CountedAsBefore
    <2> QED
      BY <1>3, <2>1, <2>2
  <1>5. ASSUME NEW k \in Key, RetryDue(k) PROVE NoticeCount'
    BY <1>0, <1>5, CountedAsBefore DEF RetryDue, relay, Typed, MailRow
  <1>6. CASE ListForWarnings \/ CheckLead \/ LookUpOwner
    <2>1. Leaves
      BY <1>6 DEF ListForWarnings, CheckLead, LookUpOwner, Go, Leaves, InPass, Typed, Worked
    <2> QED
      BY <1>0, <1>6, <2>1, CountedAsBefore DEF ListForWarnings, CheckLead, LookUpOwner, relay
  <1>7. CASE ListPending
    <2>1. /\ pass'.step \in {"idle", "next"} /\ UNCHANGED <<mail, tries>>
          /\ \A k \in pass'.todo : k \in Key /\ pass'.held[k] = mail[k]
      BY <1>7 DEF ListPending, Pending, IdlePass, relay
    <2>2. Now("notice") \in Nat
      BY DEF Now, Typed, MailRow, Statement
    <2> QED
      BY <1>0, <2>1, <2>2 DEF NoticeCount, Listed, Handling, Now, Copy
  <1>8. ASSUME NEW k \in Key, CheckCurrent(k) PROVE NoticeCount'
    <2>1. /\ pass'.held = pass.held /\ pass.step = "next" /\ UNCHANGED <<mail, tries>>
          /\ pass'.step \in {"send", "cancel"} /\ pass'.key = k /\ k \in pass.todo
          /\ pass'.todo = pass.todo \ {k}
      BY <1>8 DEF CheckCurrent, relay, Typed, Worked
    <2> QED
      BY <1>0, <2>1 DEF NoticeCount, Listed, Handling, Now, Copy
  <1>9. CASE /\ pass.step \in HandSteps /\ (Done \/ pass' = IdlePass) /\ tries' = tries
             /\ mail'["notice"].body = mail["notice"].body
             /\ \/ mail'["notice"].attempts = mail["notice"].attempts
                \/ Handling("notice", {"failed"}) /\ mail'["notice"].attempts = pass.held["notice"].attempts + 1
    <2>1. Drops /\ \A k \in pass'.todo : k # pass.key
      BY <1>9, DropsInHand
    <2>2. Listed("notice")' => Listed("notice") /\ pass'.held["notice"] = pass.held["notice"]
      BY <2>1 DEF Drops, Listed, Handling
    <2>3. ~Over' => mail'["notice"].attempts <= tries["notice"][Now("notice")]
      <3>1. CASE Handling("notice", {"failed"}) /\ mail'["notice"].attempts = pass.held["notice"].attempts + 1
        <4>1. pass.held["notice"].attempts \in Nat /\ Copy("notice") \in Statement
          BY DEF Copy, Typed, Worked, MailRow
        <4>2. tries["notice"][Copy("notice")] \in Nat
          BY <4>1 DEF Typed, Counts
        <4> QED
          BY <1>0, <3>1, <4>1, <4>2 DEF NoticeCount, Listed, Handling
      <3> QED
        BY <1>0, <1>9, <3>1 DEF NoticeCount
    <2> QED
      BY <1>0, <1>9, <2>1, <2>2, <2>3 DEF Drops, NoticeCount, Handling, Now, Copy
  <1>10. CASE Accept \/ Refuse
    <2>0. PICK j \in Key : j = pass.key
      BY DEF Typed, Worked
    <2>1. /\ UNCHANGED mail /\ pass.step = "send" /\ pass'.step \in {"sent", "failed"}
          /\ pass'.key = j /\ pass'.todo = pass.todo /\ pass'.held = pass.held
          /\ pass.key = j /\ Copy(j) \in Statement
      BY <1>10, <2>0 DEF Accept, Refuse, Go, Typed, Worked, Copy, MailRow
    <2>2. \A k \in Key, n \in Statement :
             tries'[k][n] = IF k = j /\ n = Copy(j) THEN tries[k][n] + 1 ELSE tries[k][n]
      BY <1>10, <2>1 DEF Accept, Refuse, Plus, Held, Copy, Typed, Counts
    <2>3. Listed("notice")' <=> Listed("notice")
      BY <2>1 DEF Listed, Handling
    <2>4. /\ Now("notice") \in Statement /\ Copy("notice") \in Statement
          /\ mail["notice"].attempts \in Nat /\ pass.held["notice"].attempts \in Nat
          /\ \A n \in Statement : tries["notice"][n] \in Nat
      BY DEF Now, Copy, Typed, MailRow, Worked, Counts
    <2> QED
      BY <1>0, <2>1, <2>2, <2>3, <2>4 DEF NoticeCount, Handling, Now, Copy
  <1>11. CASE MarkFailed /\ Go("giveUp") /\ mail[pass.key].status = "pending"
    <2>0. PICK j \in Key : j = pass.key
      BY DEF Typed, Worked
    <2>1. /\ pass.step = "failed" /\ pass'.step = "giveUp" /\ tries' = tries
          /\ pass'.key = j /\ pass'.todo = pass.todo /\ pass'.held = pass.held /\ pass.key = j
      BY <1>11, <2>0 DEF MarkFailed, relay, Go, Typed, Worked
    <2>2. /\ mail'["notice"].body = mail["notice"].body
          /\ mail'["notice"].attempts = IF j = "notice" THEN pass.held["notice"].attempts + 1
                                                       ELSE mail["notice"].attempts
      BY <1>11, <2>0 DEF MarkFailed, Held, Typed, MailRow
    <2>3. pass.held[j].attempts + 1 >= MaxAttempts
      BY <1>11, <2>0, <2>1, DropsInHand DEF MarkFailed, Held, Drops, HandSteps
    <2>4. /\ mail["notice"].attempts \in Nat /\ pass.held["notice"].attempts \in Nat
          /\ Now("notice") \in Statement /\ Copy("notice") \in Statement
          /\ \A n \in Statement : tries["notice"][n] \in Nat
      BY DEF Now, Copy, Typed, MailRow, Worked, Counts
    <2>5. Listed("notice")' <=> Listed("notice")
      BY <2>1 DEF Listed, Handling
    <2>6. j = "notice" => Listed("notice")
      BY <2>1 DEF Listed, Handling
    <2> QED
      BY <1>0, <2>1, <2>2, <2>3, <2>4, <2>5, <2>6 DEF NoticeCount, Handling, Now, Copy
  <1>12. CASE Restart
    BY <1>0, <1>12 DEF Restart, IdlePass, NoticeCount, Listed, Handling, Now
  <1>13. CASE Cancel \/ MarkSent \/ (MarkFailed /\ (Done \/ pass' = IdlePass))
    <2>1. /\ pass.step \in HandSteps /\ (Done \/ pass' = IdlePass) /\ tries' = tries
      BY <1>13 DEF Cancel, MarkSent, MarkFailed, HandSteps, relay
    <2>2. /\ mail'["notice"].body = mail["notice"].body
          /\ \/ mail'["notice"].attempts = mail["notice"].attempts
             \/ Handling("notice", {"failed"}) /\ mail'["notice"].attempts = pass.held["notice"].attempts + 1
      BY <1>13 DEF Cancel, MarkSent, MarkFailed, Held, Handling, Typed, MailRow, Worked
    <2> QED
      BY <1>9, <2>1, <2>2
  <1> QED
    BY <1>1, <1>2, <1>3, <1>4, <1>5, <1>6, <1>7, <1>8, <1>10, <1>11, <1>12, <1>13
       DEF OutboxNext, everything, relay, Surroundings, StartWorkspace, Disconnect,
           StopWorkspace, Live, Connect,
           SetUserDisabled, BeginDeletion, RecordDeletion, LookUpForNotice, Worker, Answer,
           MarkFailed

(* A step cancels the notice, untried, only in the sweep or at the end of  *)
(* another notice.                                                         *)
LEMMA NextNoticeSurvives ==
  ASSUME Typed, InPass, Ordered, NoticeOrder, NoticeCount, NoticeSurvivesSweep, [OutboxNext]_everything
  PROVE  NoticeSurvivesSweep'
  <1> USE Keys
  <1> DEFINE Lost == mail["notice"].status = "canceled" /\ mail["notice"].attempts = 0
  <1>0. /\ deletion.number \in Nat /\ mail["notice"].body \in Nat
        /\ \A n \in Statement : tries["notice"][n] \in Nat /\ n \in Nat
    <2>1. deletion.number \in Nat /\ mail["notice"].body \in Nat
      BY DEF Typed, Deletion, MailRow, Statement
    <2>2. \A n \in Statement : tries["notice"][n] \in Nat
      BY DEF Typed, Counts
    <2> QED
      BY <2>1, <2>2 DEF Statement
  <1>1. deletion'.number \in Nat /\ deletion'.number >= deletion.number
    <2>1. CASE deletion'.number = deletion.number
      BY <1>0, <2>1
    <2>2. ASSUME NEW by \in {"timeout", "owner", "administrator"}, BeginDeletion(by)
          PROVE  deletion'.number \in Nat /\ deletion'.number >= deletion.number
      BY <1>0, <2>2, LatestTyped DEF BeginDeletion, Statement
    <2>3. CASE CancelPending \/ RecordDeletion \/ LookUpForNotice \/ QueueNotice \/ Restart
      BY <2>1, <2>3
         DEF CancelPending, RecordDeletion, LookUpForNotice, QueueNotice, Restart, Typed, Deletion
    <2> QED
      BY <2>1, <2>2, <2>3
         DEF OutboxNext, everything, Surroundings, StartWorkspace, Disconnect, StopWorkspace,
             Live, Connect,
             SetUserDisabled, QueueLetter, RetryDue, Worker, Answer, ListForWarnings, CheckLead,
             LookUpOwner, QueueWarning, ListPending, CheckCurrent, Cancel, Accept, Refuse,
             MarkSent, MarkFailed, lifecycle
  <1>2. \A n \in Statement : tries'["notice"][n] \in Nat /\ tries'["notice"][n] >= tries["notice"][n]
    <2>1. CASE Accept \/ Refuse
      BY <1>0, <2>1 DEF Accept, Refuse, Plus, Held, Typed, Counts, Worked, MailRow
    <2>2. CASE tries' = tries
      BY <1>0, <2>2
    <2> QED
      BY <2>1, <2>2
         DEF OutboxNext, everything, relay, Surroundings, StartWorkspace, Disconnect,
             StopWorkspace, Live, Connect,
             SetUserDisabled, BeginDeletion, CancelPending, RecordDeletion, LookUpForNotice,
             QueueNotice, QueueLetter, RetryDue, Worker, Answer, ListForWarnings, CheckLead,
             LookUpOwner, QueueWarning, ListPending, CheckCurrent, Cancel, MarkSent, MarkFailed, Restart
  <1>3. CASE mail'["notice"].body = mail["notice"].body /\ (Lost' => Lost)
    BY <1>0, <1>1, <1>2, <1>3, OutboxAssumption DEF NoticeSurvivesSweep
  <1>4. CASE ~Lost'
    BY <1>4 DEF NoticeSurvivesSweep
  <1>5. CASE CancelPending
    <2>1. mail'["notice"].body = mail["notice"].body /\ deletion'.number = deletion.number
      BY <1>5, SweptMeans DEF CancelPending, Typed, Deletion
    <2>2. mail["notice"].body < deletion.number
      BY <1>5 DEF CancelPending, Ordered, InTime
    <2> QED
      BY <2>1, <2>2 DEF NoticeSurvivesSweep
  <1>6. CASE QueueNotice \/ QueueWarning \/ \E k \in Letter : QueueLetter(k)
    <2>1. PICK k \in Key, n \in Statement : Upsert(k, n)
      BY <1>6, QueuedLater
    <2>2. mail'["notice"] = mail["notice"] \/ mail'["notice"].status = "pending"
      BY <2>1 DEF Upsert, Typed
    <2> QED
      BY <1>3, <1>4, <2>2
  <1>7. ASSUME NEW k \in Key, RetryDue(k) PROVE NoticeSurvivesSweep'
    BY <1>3, <1>7 DEF RetryDue, Typed, MailRow
  <1>8. CASE MarkSent \/ MarkFailed
    BY <1>3, <1>4, <1>8 DEF MarkSent, MarkFailed, Typed, MailRow
  <1>9. CASE Cancel /\ pass.key # "notice"
    BY <1>3, <1>9 DEF Cancel, Typed
  <1>10. CASE Cancel /\ pass.key = "notice"
    <2>1. Handling("notice", {"giveUp"}) /\ Listed("notice") /\ tries' = tries /\ deletion' = deletion
          /\ mail'["notice"].body = mail["notice"].body
          /\ mail'["notice"].attempts = mail["notice"].attempts
      BY <1>10 DEF Cancel, InPass, Handling, Listed, relay, lifecycle, Typed, MailRow
    <2>2. /\ Copy("notice") \in Statement /\ Copy("notice") <= mail["notice"].body
          /\ pass.held["notice"].attempts \in Nat
      BY <2>1 DEF Copy, Typed, Worked, MailRow, Ordered, InCopy
    <2>3. CASE Copy("notice") = mail["notice"].body
      BY <2>1, <2>2, <2>3, <1>4 DEF Ordered, InCopy, Copy
    <2>4. CASE Copy("notice") < mail["notice"].body
      <3>1. tries["notice"][Copy("notice")] >= MaxAttempts
        BY <1>0, <2>1, <2>2, <2>4, OutboxAssumption DEF NoticeCount, Now, Handling
      <3> QED
        BY <2>1, <2>2, <2>4, <3>1 DEF NoticeSurvivesSweep
    <2> QED
      BY <1>0, <2>2, <2>3, <2>4 DEF Statement
  <1>11. CASE UNCHANGED mail
    BY <1>3, <1>11
  <1> QED
    BY <1>5, <1>6, <1>7, <1>8, <1>9, <1>10, <1>11
       DEF OutboxNext, everything, relay, Surroundings, StartWorkspace, Disconnect,
           StopWorkspace, Live, Connect,
           SetUserDisabled, BeginDeletion, RecordDeletion, LookUpForNotice, Worker, Answer,
           ListForWarnings, CheckLead, LookUpOwner, ListPending, CheckCurrent, Accept, Refuse, Restart

-----------------------------------------------------------------------------

LEMMA InitInv == OutboxInit => Typed /\ OutboxInv
  BY InitTyped, InitInPass, InitInTime, InitInCopy, InitUnsent, InitFresh, InitSent, InitTried,
     InitNotices
     DEF OutboxInv, Ordered

LEMMA NextInv == (Typed /\ OutboxInv) /\ [OutboxNext]_everything => (Typed /\ OutboxInv)'
  <1> SUFFICES ASSUME Typed, OutboxInv, [OutboxNext]_everything PROVE (Typed /\ OutboxInv)'
    OBVIOUS
  <1>1. Typed' /\ InPass'
    BY NextTyped, NextInPass DEF OutboxInv
  <1>2. Ordered'
    BY NextInTime, NextInCopy, NextUnsent DEF OutboxInv, Ordered
  <1>3. Fresh' /\ Sent' /\ Tried'
    BY NextFresh, NextSent, NextTried DEF OutboxInv
  <1>4. Notices'
    BY NextNoticeOrder, NextNoticeCount, NextNoticeSurvives DEF OutboxInv, Notices
  <1> QED
    BY <1>1, <1>2, <1>3, <1>4 DEF OutboxInv

(* What the outbox counts is what the relay saw (ADR 0015, ADR 0027): for  *)
(* any number of letters, deadlines and crashes, a text is delivered twice *)
(* only by a crash, tried no more than maxDeliveryAttempts allows, and     *)
(* marked as sent only when it was.                                        *)
THEOREM OutboxTellsTheTruth == OutboxSpec => []OutboxIsTrue
  <1>1. Typed /\ OutboxInv => OutboxIsTrue
    BY DEF OutboxInv, Sent, SentOf, Tried, TriedOf, Now, OutboxIsTrue, DeliveredOnce, AttemptsBounded,
           SentMeansDelivered
  <1> QED
    BY <1>1, InitInv, NextInv, PTL DEF OutboxSpec

(* No deletion that ran to its end cancels the notice it queued (ADR 0027, *)
(* deleteWorkspace and RunTimeouts), but where Deliver gives up an earlier *)
(* notice whose row the new one took.                                      *)
THEOREM NoticesSurvive == OutboxSpec => []NoticeSurvivesSweep
  <1>1. OutboxInv => NoticeSurvivesSweep
    BY DEF OutboxInv, Notices
  <1> QED
    BY <1>1, InitInv, NextInv, PTL DEF OutboxSpec
=============================================================================
