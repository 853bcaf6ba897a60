------------------------ MODULE NativeRunnerProofs ------------------------
(***************************************************************************)
(* Proofs about the resource manager and the native runner, for any nodes, *)
(* jobs, tasks, limits and configurations.                                 *)
(***************************************************************************)
EXTENDS NativeRunner, FiniteSetTheorems, TLAPS

RunnerType ==
    /\ node_name \in Node \cup {NoNode}
    /\ future \in [Id -> FutureState]
    /\ attempts \in [Id -> 0 .. MaxAttempts]
    /\ rescheduled \subseteq Job
    /\ seen \subseteq Task

(* What an iteration of the scheduler has at hand in each of its phases. *)
Choosing == phase \in {"jobs", "tasks", "morejobs"}

IterationInv ==
    /\ pending \subseteq Id
    /\ phase \in {"idle", "updated", "claim"} \/ Choosing
    /\ queue \subseteq pending
    /\ ~Choosing => queue = {}
    /\ plan \subseteq pending \X Known
    /\ phase \in {"idle", "updated"} => plan = {} /\ draft = <<>>
    /\ phase = "claim" \/ Choosing => draft \in [Known -> Amount]

(* The units that the jobs and tasks of S ask for can be counted. *)
Sized(S) == \A k \in Resource : IsFiniteSet(Shares(S, k))

Asked(rec) == rec.jobs \cup rec.tasks

(* The account of one node. *)
Balanced(rec, extra) ==
    /\ Sized(Asked(rec))
    /\ \A k \in Resource : rec.reserved[k] = Total(Asked(rec))[k] + (IF k = "disk" THEN extra ELSE 0)
    /\ rec.status = "HEALTHY" => AtMost(rec.reserved, rec.available)

(* The accounts of all nodes: what is reserved there has been claimed. *)
Accounts ==
    /\ Known \subseteq Node
    /\ system_status \in [Known -> NodeRecord]
    /\ config \subseteq Id
    /\ kept \in [Node -> Nat]
    /\ \A n \in Known : Asked(system_status[n]) \subseteq config /\ Balanced(system_status[n], kept[n])
    /\ \A m, n \in Known : m # n => Asked(system_status[m]) \cap Asked(system_status[n]) = {}

AccountInv ==
    /\ Accounts /\ RunnerType /\ IterationInv
    /\ pending \cap config = {}
    /\ raised \in BOOLEAN
    /\ cancel \subseteq Id

-----------------------------------------------------------------------------
(* Sums of limits: nothing asks for nothing. *)
LEMMA TotalEmpty == Sized({}) /\ \A k \in Resource : Total({})[k] = 0
<1>1. \A k : Shares({}, k) = {}
  BY Zenon DEF Shares
<1> QED
  BY Zenon, <1>1, FS_EmptySet DEF Sized, Total

(* The limits as the assumption on the constants gives them. *)
LEMMA Limits ==
    /\ Job \cap Task = {}
    /\ \A i \in Id, k \in Resource : limits[i][k] \in Nat
    /\ NodeConf \subseteq [available : Amount, jobsAllowed : BOOLEAN, tasksAllowed : BOOLEAN]
    /\ Reporting \subseteq Node
    /\ KeepDisk \subseteq Nat
    /\ max_running_jobs \in Nat
  BY ManagerConstants DEF Amount

(* A sum of limits is an amount. *)
LEMMA TotalNat ==
    ASSUME NEW S, Sized(S)
    PROVE  \A k \in Resource : Total(S)[k] \in Nat
  BY Zenon, FS_CardinalityType DEF Sized, Total

(* The sum grows by what a new member asks for. *)
LEMMA TotalAdd ==
    ASSUME NEW S \in SUBSET Id, NEW i \in Id, i \notin S, Sized(S)
    PROVE  Sized(S \cup {i}) /\ \A k \in Resource : Total(S \cup {i})[k] = Total(S)[k] + limits[i][k]
<1> SUFFICES ASSUME NEW k \in Resource
             PROVE  /\ IsFiniteSet(Shares(S \cup {i}, k))
                    /\ Cardinality(Shares(S \cup {i}, k)) = Cardinality(Shares(S, k)) + limits[i][k]
  BY Zenon DEF Sized, Total
<1> DEFINE A == Shares(S, k)
           I == 1 .. limits[i][k]
           B == {i} \X I
<1>1. limits[i][k] \in Nat
  BY Zenon, Limits
<1>2. IsFiniteSet(I) /\ Cardinality(I) = limits[i][k]
  <2> DEFINE l == limits[i][k]
  <2> HIDE DEF l
  <2>1. l \in Nat => IsFiniteSet(1 .. l) /\ Cardinality(1 .. l) = l
    <3> SUFFICES ASSUME l \in Nat PROVE IsFiniteSet(1 .. l) /\ Cardinality(1 .. l) = l
      BY Zenon
    <3>1. IsFiniteSet(1 .. l) /\ Cardinality(1 .. l) = IF 1 > l THEN 0 ELSE l - 1 + 1
      BY FS_Interval
    <3> QED
      BY <3>1
  <2> QED
    BY Zenon, <1>1, <2>1 DEF l
<1>3. IsFiniteSet({i}) /\ Cardinality({i}) = 1
  BY Zenon, FS_Singleton
<1>4. IsFiniteSet(B) /\ Cardinality(B) = limits[i][k]
  <2> HIDE DEF I
  <2>1. IsFiniteSet(B) /\ Cardinality(B) = Cardinality({i}) * Cardinality(I)
    BY Zenon, <1>2, <1>3, FS_Product
  <2> QED
    BY <2>1, <1>1, <1>2, <1>3
<1>5. Shares(S \cup {i}, k) = A \cup B
  BY Zenon DEF Shares
<1>6. A \cap B = {}
  BY DEF Shares
<1>7. IsFiniteSet(A)
  BY Zenon DEF Sized
<1> HIDE DEF A, B
<1>8. IsFiniteSet(A \cup B) /\ Cardinality(A \cup B) = Cardinality(A) + Cardinality(B) - Cardinality(A \cap B)
  BY Zenon, <1>4, <1>7, FS_Union
<1>9. Cardinality(A \cap B) = 0 /\ Cardinality(A) \in Nat
  BY Zenon, <1>6, <1>7, FS_EmptySet, FS_CardinalityType
<1>10. Cardinality(A \cup B) = Cardinality(A) + limits[i][k]
  BY <1>1, <1>4, <1>8, <1>9
<1> QED
  BY Zenon, <1>5, <1>8, <1>10 DEF A

(* The sum without a member. *)
LEMMA TotalRemove ==
    ASSUME NEW S \in SUBSET Id, NEW i \in S, Sized(S)
    PROVE  Sized(S \ {i}) /\ \A k \in Resource : Total(S)[k] = Total(S \ {i})[k] + limits[i][k]
<1>1. Sized(S \ {i})
  <2> SUFFICES ASSUME NEW k \in Resource PROVE IsFiniteSet(Shares(S \ {i}, k))
    BY Zenon DEF Sized
  <2>1. Shares(S \ {i}, k) \subseteq Shares(S, k)
    BY Zenon DEF Shares
  <2> QED
    BY Zenon, <2>1, FS_Subset DEF Sized
<1>2. (S \ {i}) \cup {i} = S
  BY Zenon
<1>3. S \ {i} \in SUBSET Id /\ i \in Id /\ i \notin S \ {i}
  BY Zenon
<1>4. \A k \in Resource : Total((S \ {i}) \cup {i})[k] = Total(S \ {i})[k] + limits[i][k]
  BY Zenon, <1>1, <1>3, TotalAdd
<1> QED
  BY Zenon, <1>1, <1>2, <1>4

-----------------------------------------------------------------------------
(* Claiming and releasing keep the account of a node. *)
LEMMA ClaimBalance ==
    ASSUME NEW rec \in NodeRecord, NEW extra \in Nat, Balanced(rec, extra), NEW i \in Id, i \notin Asked(rec),
           NEW new \in NodeRecord, Asked(new) = Asked(rec) \cup {i},
           \A k \in Resource : new.reserved[k] = rec.reserved[k] + limits[i][k],
           AtMost(new.reserved, new.available)
    PROVE  Balanced(new, extra)
<1>1. Asked(rec) \in SUBSET Id
  BY Zenon DEF Asked, NodeRecord, Id
<1>2. Sized(Asked(new)) /\ \A k \in Resource : Total(Asked(new))[k] = Total(Asked(rec))[k] + limits[i][k]
  <2>1. Sized(Asked(rec))
    BY Zenon DEF Balanced
  <2>2. /\ Sized(Asked(rec) \cup {i})
        /\ \A k \in Resource : Total(Asked(rec) \cup {i})[k] = Total(Asked(rec))[k] + limits[i][k]
    BY Zenon, <1>1, <2>1, TotalAdd
  <2> QED
    BY Zenon, <2>2
<1>3. \A k \in Resource : Total(Asked(rec))[k] \in Nat /\ limits[i][k] \in Nat
  BY Zenon, TotalNat, Limits DEF Balanced
<1>4. \A k \in Resource : rec.reserved[k] = Total(Asked(rec))[k] + (IF k = "disk" THEN extra ELSE 0)
  BY Zenon DEF Balanced
<1>5. \A k \in Resource : new.reserved[k] = Total(Asked(new))[k] + (IF k = "disk" THEN extra ELSE 0)
  <2> TAKE k \in Resource
  <2> DEFINE e == IF k = "disk" THEN extra ELSE 0
             t == Total(Asked(rec))[k]
             u == Total(Asked(new))[k]
  <2>1. e \in Nat /\ t \in Nat /\ limits[i][k] \in Nat /\ u = t + limits[i][k]
    BY Zenon, <1>2, <1>3
  <2>2. new.reserved[k] = rec.reserved[k] + limits[i][k] /\ rec.reserved[k] = t + e
    BY Zenon, <1>4
  <2> HIDE DEF e, t, u
  <2>3. new.reserved[k] = u + e
    BY <2>1, <2>2
  <2> QED
    BY Zenon, <2>3 DEF e, u
<1> QED
  BY Zenon, <1>2, <1>5 DEF Balanced

(* An account without one entry is balanced when the amounts of that entry *)
(* are taken off it, but for the disk space that its files keep.           *)
LEMMA ReleaseBalance ==
    ASSUME NEW rec \in NodeRecord, NEW extra \in Nat, Balanced(rec, extra), NEW i \in Asked(rec),
           NEW new, NEW keep \in Nat,
           new.jobs = rec.jobs \ {i}, new.tasks = rec.tasks \ {i},
           new.status = rec.status, new.available = rec.available,
           new.reserved = [k \in Resource |-> rec.reserved[k] - limits[i][k] + IF k = "disk" THEN keep ELSE 0],
           keep > 0 => keep =< rec.available["disk"] - rec.reserved["disk"] + limits[i]["disk"]
    PROVE  Balanced(new, extra + keep) /\ new.reserved \in Amount
<1>1. Asked(rec) \subseteq Id /\ i \in Id /\ Asked(new) = Asked(rec) \ {i}
  BY Zenon DEF Asked, NodeRecord, Id
<1>2. Sized(Asked(new)) /\ \A k \in Resource : Total(Asked(rec))[k] = Total(Asked(new))[k] + limits[i][k]
  BY <1>1, TotalRemove DEF Balanced
<1>3. \A k \in Resource : /\ Total(Asked(new))[k] \in Nat /\ limits[i][k] \in Nat
                          /\ rec.reserved[k] \in Nat /\ rec.available[k] \in Nat
  BY Zenon, <1>1, <1>2, TotalNat, Limits DEF NodeRecord, Amount
<1>4. \A k \in Resource : rec.reserved[k] = Total(Asked(new))[k] + limits[i][k] + (IF k = "disk" THEN extra ELSE 0)
  BY Zenon, <1>2, <1>3 DEF Balanced
<1>5. ASSUME NEW k \in Resource
      PROVE  new.reserved[k] = Total(Asked(new))[k] + (IF k = "disk" THEN extra + keep ELSE 0)
  <2> DEFINE e == IF k = "disk" THEN extra ELSE 0
             h == IF k = "disk" THEN keep ELSE 0
             u == Total(Asked(new))[k]
             x == limits[i][k]
             y == rec.reserved[k]
  <2>1. u \in Nat /\ x \in Nat /\ y \in Nat /\ y = u + x + e
    BY Zenon, <1>3, <1>4
  <2>2. new.reserved[k] = y - x + h
    BY Zenon
  <2>3. e \in Nat /\ h \in Nat /\ e + h = IF k = "disk" THEN extra + keep ELSE 0
    OBVIOUS
  <2> HIDE DEF e, h, u, x, y
  <2>4. new.reserved[k] = u + (e + h)
    BY <2>1, <2>2, <2>3
  <2> QED
    BY Zenon, <2>3, <2>4 DEF u
<1>6. new.reserved \in Amount
  BY <1>3, <1>5 DEF Amount
<1>7. ASSUME rec.status = "HEALTHY", NEW k \in Resource PROVE new.reserved[k] =< rec.available[k]
  BY <1>3, <1>7 DEF Balanced, AtMost, Resource
<1> QED
  BY Zenon, <1>2, <1>5, <1>6, <1>7 DEF Balanced, AtMost

-----------------------------------------------------------------------------
(* The operations of the manager on its accounts.  claim_resources: *)
LEMMA ClaimAccounts ==
    ASSUME Accounts, NEW n \in Known, NEW i \in Id, i \notin config, config' = config \cup {i}, kept' = kept,
           Fits(n, ReserveAt(Reserved, n, limits[i])),
           LET rec == [system_status[n] EXCEPT !.reserved = ReserveAt(Reserved, n, limits[i])[n]]
           IN  system_status' = [system_status EXCEPT ![n] =
                   IF i \in Job THEN [rec EXCEPT !.jobs = @ \cup {i}] ELSE [rec EXCEPT !.tasks = @ \cup {i}]]
    PROVE  /\ Accounts' /\ Known' = Known
           /\ \A m \in Known : /\ system_status'[m].status = system_status[m].status
                               /\ system_status'[m].available = system_status[m].available
                               /\ system_status'[m].jobs = IF m = n THEN system_status[m].jobs \cup ({i} \cap Job)
                                                           ELSE system_status[m].jobs
                               /\ system_status'[m].reserved = IF m = n THEN Plus(system_status[m].reserved, limits[i])
                                                               ELSE system_status[m].reserved
<1> DEFINE old == system_status[n]
           sum == Plus(old.reserved, limits[i])
           rec == [old EXCEPT !.reserved = sum]
           new == IF i \in Job THEN [rec EXCEPT !.jobs = @ \cup {i}] ELSE [rec EXCEPT !.tasks = @ \cup {i}]
<1>1. Reserved \in [Known -> Amount] /\ Reserved[n] = old.reserved /\ old \in NodeRecord
  BY Zenon DEF Accounts, Reserved, NodeRecord
<1>2. ReserveAt(Reserved, n, limits[i])[n] = sum
  BY Zenon, <1>1 DEF ReserveAt
<1>3. system_status' = [system_status EXCEPT ![n] = new]
  BY Zenon, <1>2
<1>4. sum \in Amount /\ \A k \in Resource : sum[k] = old.reserved[k] + limits[i][k]
  BY <1>1, Limits DEF Plus, Amount, NodeRecord
<1>5. AtMost(sum, old.available)
  BY Zenon, <1>2 DEF Fits
<1> HIDE DEF sum
<1>6. rec \in NodeRecord /\ rec.reserved = sum /\ rec.jobs = old.jobs /\ rec.tasks = old.tasks
      /\ rec.status = old.status /\ rec.available = old.available
  BY Zenon, <1>1, <1>4 DEF NodeRecord
<1> HIDE DEF rec
<1>7. /\ new \in NodeRecord /\ new.reserved = sum /\ new.status = old.status /\ new.available = old.available
      /\ new.jobs = old.jobs \cup ({i} \cap Job)
      /\ Asked(new) = Asked(old) \cup {i}
  <2>1. CASE i \in Job
    <3>1. new = [rec EXCEPT !.jobs = rec.jobs \cup {i}]
      BY Zenon, <2>1, <1>6 DEF NodeRecord
    <3>2. new \in NodeRecord /\ new.reserved = rec.reserved /\ new.status = rec.status
          /\ new.available = rec.available /\ new.jobs = rec.jobs \cup {i} /\ new.tasks = rec.tasks
      BY Zenon, <2>1, <3>1, <1>6 DEF NodeRecord
    <3> HIDE DEF new
    <3> QED
      BY Zenon, <2>1, <3>2, <1>6 DEF Asked
  <2>2. CASE i \notin Job
    <3>0. i \in Task
      BY Zenon, <2>2 DEF Id
    <3>1. new = [rec EXCEPT !.tasks = rec.tasks \cup {i}]
      BY Zenon, <2>2, <1>6 DEF NodeRecord
    <3>2. new \in NodeRecord /\ new.reserved = rec.reserved /\ new.status = rec.status
          /\ new.available = rec.available /\ new.tasks = rec.tasks \cup {i} /\ new.jobs = rec.jobs
      BY Zenon, <3>0, <3>1, <1>6 DEF NodeRecord
    <3> HIDE DEF new
    <3> QED
      BY Zenon, <2>2, <3>2, <1>6 DEF Asked
  <2> QED
    BY Zenon, <2>1, <2>2
<1> HIDE DEF new
<1>8. system_status' \in [Known -> NodeRecord] /\ Known' = Known
      /\ system_status'[n] = new /\ \A m \in Known : m # n => system_status'[m] = system_status[m]
  BY ZenonT(30), <1>3, <1>7 DEF Accounts, Known
<1>9. i \notin Asked(old) /\ Balanced(old, kept[n]) /\ kept[n] \in Nat
  BY Zenon DEF Accounts
<1>10. Balanced(new, kept[n])
  <2>1. AtMost(new.reserved, new.available) /\ \A k \in Resource : new.reserved[k] = old.reserved[k] + limits[i][k]
    BY Zenon, <1>4, <1>5, <1>7
  <2> HIDE DEF old
  <2> QED
    BY Zenon, <2>1, <1>1, <1>7, <1>9, ClaimBalance
<1>11. \A m \in Known' : Asked(system_status'[m]) \subseteq config' /\ Balanced(system_status'[m], kept'[m])
  <2> TAKE m \in Known'
  <2>1. CASE m = n
    BY Zenon, <2>1, <1>7, <1>8, <1>10 DEF Accounts
  <2>2. CASE m # n
    BY Zenon, <2>2, <1>8 DEF Accounts
  <2> QED
    BY Zenon, <2>1, <2>2
<1>11a. \A l, m \in Known' : l # m => Asked(system_status'[l]) \cap Asked(system_status'[m]) = {}
  BY SMTT(30), <1>7, <1>8 DEF Accounts
<1>12. Accounts'
  <2>1. Known' \subseteq Node /\ system_status' \in [Known' -> NodeRecord] /\ config' \subseteq Id /\ kept' \in [Node -> Nat]
    BY Zenon, <1>8 DEF Accounts
  <2> QED
    BY Zenon, <2>1, <1>11, <1>11a DEF Accounts, Balanced, Sized, Asked, Total, Shares, AtMost
<1> QED
  BY Zenon, <1>7, <1>8, <1>12 DEF sum

(* release_resources: *)
LEMMA ReleaseAccounts ==
    ASSUME Accounts, NEW n, NEW i \in Id, NEW keep \in Nat, ReleaseResources(i, n, keep)
    PROVE  /\ Accounts' /\ Known' = Known
           /\ config' \subseteq config
           /\ ~ReleaseRaises(i, n, keep) => i \notin config'
           /\ \A m \in Known : /\ system_status'[m].status = system_status[m].status
                               /\ system_status'[m].jobs \subseteq system_status[m].jobs
                               /\ system_status[m].jobs \ {i} \subseteq system_status'[m].jobs
<1>1. CASE ReleaseRaises(i, n, keep)
  <2>1. system_status' = system_status /\ config' = config /\ kept' = kept
    BY Zenon, <1>1 DEF ReleaseResources, managed
  <2> QED
    BY <2>1, <1>1 DEF Accounts, Known, Balanced, Sized, Asked, Total, Shares, AtMost
<1>2. CASE ~ReleaseRaises(i, n, keep)
  <2> DEFINE rec == system_status[n]
             freed == Minus(rec.reserved, limits[i])
             left == [freed EXCEPT !["disk"] = freed["disk"] + keep]
             new == [rec EXCEPT !.jobs = rec.jobs \ {i}, !.tasks = rec.tasks \ {i}, !.reserved = left]
             more == kept[n] + keep
  <2>1. n \in Known /\ i \in config /\ i \in Asked(rec)
    BY Zenon, <1>2 DEF ReleaseRaises, Asked
  <2>2. rec \in NodeRecord /\ kept[n] \in Nat /\ Balanced(rec, kept[n])
    BY Zenon, <2>1 DEF Accounts
  <2>3. keep > 0 => keep =< rec.available["disk"] - rec.reserved["disk"] + limits[i]["disk"]
    <3>1. rec.available["disk"] \in Nat /\ rec.reserved["disk"] \in Nat /\ limits[i]["disk"] \in Nat
      BY Zenon, <2>2, Limits DEF NodeRecord, Amount, Resource
    <3> QED
      BY <3>1, <1>2 DEF ReleaseRaises
  <2>4. /\ system_status' = [system_status EXCEPT ![n] =
              [rec EXCEPT !.jobs = @ \ {i}, !.tasks = @ \ {i}, !.reserved = [freed EXCEPT !["disk"] = @ + keep]]]
        /\ config' = config \ {i}
        /\ kept' = [kept EXCEPT ![n] = @ + keep]
    BY Zenon, <1>2 DEF ReleaseResources
  <2>5. freed \in [Resource -> Int] /\ \A k \in Resource : freed[k] = rec.reserved[k] - limits[i][k]
    BY <2>2, Limits DEF Minus, NodeRecord, Amount
  <2>6. left = [k \in Resource |-> rec.reserved[k] - limits[i][k] + IF k = "disk" THEN keep ELSE 0]
    <3>1. \A k \in Resource : rec.reserved[k] - limits[i][k] \in Int
      BY <2>2, Limits DEF NodeRecord, Amount
    <3>2. \A k \in Resource : left[k] = rec.reserved[k] - limits[i][k] + IF k = "disk" THEN keep ELSE 0
      <4> TAKE k \in Resource
      <4>1. left[k] = IF k = "disk" THEN freed[k] + keep ELSE freed[k]
        BY Zenon, <2>5
      <4> HIDE DEF left
      <4> QED
        BY <3>1, <2>5, <4>1
    <3>3. left = [k \in Resource |-> left[k]]
      BY Zenon, <2>5
    <3> HIDE DEF freed, left
    <3> QED
      BY Zenon, <3>2, <3>3
  <2>7. [rec EXCEPT !.jobs = @ \ {i}, !.tasks = @ \ {i}, !.reserved = [freed EXCEPT !["disk"] = @ + keep]] = new
    <3>1. [freed EXCEPT !["disk"] = @ + keep] = left
      BY Zenon, <2>5
    <3> HIDE DEF left, freed
    <3> QED
      BY Zenon, <3>1, <2>2 DEF NodeRecord
  <2>8. system_status' = [system_status EXCEPT ![n] = new] /\ kept' = [kept EXCEPT ![n] = more]
    <3>1. kept' = [kept EXCEPT ![n] = more]
      BY Zenon, <2>4, <2>1 DEF Accounts
    <3> QED
      BY Zenon, <3>1, <2>4, <2>7
  <2> HIDE DEF freed, left
  <2>9. /\ new.jobs = rec.jobs \ {i} /\ new.tasks = rec.tasks \ {i} /\ new.reserved = left
        /\ new.status = rec.status /\ new.available = rec.available
        /\ left \in Amount => new \in NodeRecord
    BY Zenon, <2>2 DEF NodeRecord
  <2> HIDE DEF new
  <2>10. Balanced(new, more) /\ new.reserved \in Amount
    <3> HIDE DEF rec
    <3> QED
      BY SMTT(30), <2>1, <2>2, <2>3, <2>6, <2>9, ReleaseBalance
  <2>11. more \in Nat /\ new \in NodeRecord
    BY <2>2, <2>9, <2>10
  <2> HIDE DEF more
  <2>12. /\ system_status' \in [Known -> NodeRecord] /\ Known' = Known /\ kept' \in [Node -> Nat]
         /\ system_status'[n] = new /\ kept'[n] = more
         /\ \A m \in Known : m # n => system_status'[m] = system_status[m] /\ kept'[m] = kept[m]
    BY Zenon, <2>1, <2>8, <2>11 DEF Accounts, Known
  <2>13. Asked(new) = Asked(rec) \ {i}
    BY Zenon, <2>9 DEF Asked
  <2>14. \A m \in Known : m # n => i \notin Asked(system_status[m])
    BY Zenon, <2>1 DEF Accounts
  <2>15. \A m \in Known : Asked(system_status'[m]) \subseteq Asked(system_status[m])
    BY Zenon, <2>12, <2>13
  <2> QED
    <3>1. \A m \in Known' : Asked(system_status'[m]) \subseteq config' /\ Balanced(system_status'[m], kept'[m])
      <4> TAKE m \in Known'
      <4>1. CASE m = n
        BY Zenon, <4>1, <2>4, <2>10, <2>12, <2>13, <2>1 DEF Accounts
      <4>2. CASE m # n
        BY ZenonT(30), <4>2, <2>4, <2>12, <2>14 DEF Accounts
      <4> QED
        BY Zenon, <4>1, <4>2
    <3>2. \A l, m \in Known' : l # m => Asked(system_status'[l]) \cap Asked(system_status'[m]) = {}
      BY Zenon, <2>12, <2>15 DEF Accounts
    <3>3. Accounts'
      BY Zenon, <3>1, <3>2, <2>4, <2>12 DEF Accounts, Balanced, Sized, Asked, Total, Shares, AtMost
    <3> QED
      BY Zenon, <3>3, <1>2, <2>4, <2>9, <2>12
<1> QED
  BY Zenon, <1>1, <1>2

(* update_system_status, node by node: a node that comes back, or is seen  *)
(* for the first time, starts with an empty account; the others keep it.   *)
LEMMA UpdatedNode ==
    ASSUME Accounts, NEW listed \in SUBSET Node, NEW reported \in SUBSET (listed \cap Reporting),
           NEW states \in [reported -> NodeConf], UpdateSystemStatus(listed, states)
    PROVE  /\ Known' = Known \cup reported
           /\ system_status' \in [Known' -> NodeRecord]
           /\ kept' \in [Node -> Nat]
           /\ \A n \in Known' :
                 /\ Balanced(system_status'[n], kept'[n])
                 /\ Asked(system_status'[n]) \subseteq IF n \in Known THEN Asked(system_status[n]) ELSE {}
                 /\ n \in listed /\ (n \in Known => system_status[n].status # "DISCONNECTED") =>
                       /\ system_status'[n].status # "DISCONNECTED"
                       /\ system_status'[n].jobs = IF n \in Known THEN system_status[n].jobs ELSE {}
<1> DEFINE missing == Known \ listed
           merged  == [n \in Known \cup DOMAIN states |->
                          IF n \in DOMAIN states THEN Connect(n, states[n])
                          ELSE IF n \in missing THEN [system_status[n] EXCEPT !.status = "DISCONNECTED"]
                          ELSE system_status[n]]
           alive   == {n \in Known \cap DOMAIN states : system_status[n].status # "DISCONNECTED"}
           zero    == [k \in Resource |-> 0]
<1>1. DOMAIN states = reported /\ reported \subseteq Node
  BY Zenon, Limits
<1>2. /\ system_status' = [n \in DOMAIN merged |->
              IF merged[n].status = "DISCONNECTED" THEN merged[n]
              ELSE [merged[n] EXCEPT !.status = AilingStatus(merged[n])]]
      /\ kept' = [n \in Node |-> IF n \in DOMAIN states \ alive THEN 0 ELSE kept[n]]
  BY Zenon DEF UpdateSystemStatus
<1>3. Known' = Known \cup reported
  <2>1. DOMAIN system_status' = DOMAIN merged
    BY Zenon, <1>2
  <2> QED
    BY Zenon, <2>1, <1>1 DEF Known
<1>4. ASSUME NEW n \in Known \cup reported
      PROVE  /\ merged[n] \in NodeRecord
             /\ Asked(merged[n]) \subseteq IF n \in Known THEN Asked(system_status[n]) ELSE {}
             /\ Sized(Asked(merged[n]))
             /\ \A k \in Resource :
                   merged[n].reserved[k] = Total(Asked(merged[n]))[k] + (IF k = "disk" THEN kept'[n] ELSE 0)
             /\ kept'[n] \in Nat
             /\ n \in listed /\ (n \in Known => system_status[n].status # "DISCONNECTED") =>
                   /\ merged[n].status # "DISCONNECTED"
                   /\ merged[n].jobs = IF n \in Known THEN system_status[n].jobs ELSE {}
  <2>0. n \in Node
    BY Zenon, <1>1 DEF Accounts
  <2>1. CASE n \in alive
    <3>1. /\ merged[n] = [system_status[n] EXCEPT !.available = states[n].available,
                             !.jobsAllowed = states[n].jobsAllowed, !.tasksAllowed = states[n].tasksAllowed]
      BY Zenon, <2>1 DEF Connect
    <3>2. /\ states[n].available \in Amount /\ states[n].jobsAllowed \in BOOLEAN /\ states[n].tasksAllowed \in BOOLEAN
      BY <2>1, <1>1, Limits
    <3>3. system_status[n] \in NodeRecord /\ Balanced(system_status[n], kept[n]) /\ kept[n] \in Nat
      BY Zenon, <2>1 DEF Accounts
    <3> DEFINE r == merged[n]
    <3>4. /\ r \in NodeRecord /\ r.jobs = system_status[n].jobs /\ r.tasks = system_status[n].tasks
          /\ r.reserved = system_status[n].reserved /\ r.status = system_status[n].status
      <4> HIDE DEF merged
      <4> QED
        BY Zenon, <3>1, <3>2, <3>3 DEF NodeRecord
    <3>5. kept'[n] = kept[n]
      BY Zenon, <2>0, <2>1, <1>2
    <3> HIDE DEF r
    <3>6. Asked(r) = Asked(system_status[n])
      BY Zenon, <3>4 DEF Asked
    <3> QED
      BY Zenon, <2>1, <3>3, <3>4, <3>5, <3>6 DEF Balanced, r
  <2>2. CASE n \in reported /\ n \notin alive
    <3>1. merged[n] = [status |-> "HEALTHY", jobsAllowed |-> states[n].jobsAllowed,
                       tasksAllowed |-> states[n].tasksAllowed, available |-> states[n].available,
                       reserved |-> zero, jobs |-> {}, tasks |-> {}]
      BY Zenon, <2>2, <1>1 DEF Connect
    <3>2. /\ states[n].available \in Amount /\ states[n].jobsAllowed \in BOOLEAN /\ states[n].tasksAllowed \in BOOLEAN
      BY <2>2, <1>1, Limits
    <3>3. zero \in Amount /\ \A k \in Resource : zero[k] = 0
      BY Zenon DEF Amount
    <3> DEFINE r == merged[n]
    <3> HIDE DEF merged, zero
    <3>4. r \in NodeRecord /\ r.jobs = {} /\ r.tasks = {} /\ r.reserved = zero /\ r.status = "HEALTHY"
      BY <3>1, <3>2, <3>3 DEF NodeRecord
    <3>5. kept'[n] = 0
      BY Zenon, <2>0, <2>2, <1>1, <1>2
    <3> HIDE DEF r
    <3>6. Asked(r) = {}
      BY Zenon, <3>4 DEF Asked
    <3>7. \A k \in Resource : r.reserved[k] = Total(Asked(r))[k] + (IF k = "disk" THEN 0 ELSE 0)
      BY SMTT(30), <3>3, <3>4, <3>6, TotalEmpty
    <3> QED
      BY <2>2, <3>4, <3>5, <3>6, <3>7, <1>1, TotalEmpty DEF r
  <2>3. CASE n \notin reported
    <3>1. system_status[n] \in NodeRecord /\ Balanced(system_status[n], kept[n]) /\ kept[n] \in Nat /\ n \in Known
      BY Zenon, <2>3 DEF Accounts
    <3>2. merged[n] = IF n \in missing THEN [system_status[n] EXCEPT !.status = "DISCONNECTED"] ELSE system_status[n]
      BY Zenon, <2>3, <3>1, <1>1
    <3> DEFINE r == merged[n]
    <3> HIDE DEF merged
    <3>4. /\ r \in NodeRecord /\ r.jobs = system_status[n].jobs /\ r.tasks = system_status[n].tasks
          /\ r.reserved = system_status[n].reserved /\ (n \in listed => r.status = system_status[n].status)
      BY <3>1, <3>2 DEF NodeRecord
    <3>5. kept'[n] = kept[n]
      BY Zenon, <2>0, <2>3, <1>1, <1>2
    <3> HIDE DEF r
    <3>6. Asked(r) = Asked(system_status[n])
      BY Zenon, <3>4 DEF Asked
    <3> QED
      BY Zenon, <3>1, <3>4, <3>5, <3>6 DEF Balanced, r
  <2> QED
    BY Zenon, <2>1, <2>2, <2>3
<1>5. kept' \in [Node -> Nat]
  BY Zenon, <1>2 DEF Accounts
<1>6. ASSUME NEW n \in Known'
      PROVE  /\ system_status'[n] \in NodeRecord
             /\ Balanced(system_status'[n], kept'[n])
             /\ Asked(system_status'[n]) = Asked(merged[n]) /\ system_status'[n].jobs = merged[n].jobs
             /\ merged[n].status # "DISCONNECTED" => system_status'[n].status # "DISCONNECTED"
  <2> DEFINE r == merged[n]
             s == [r EXCEPT !.status = AilingStatus(r)]
  <2>1. system_status'[n] = IF r.status = "DISCONNECTED" THEN r ELSE s
    BY Zenon, <1>1, <1>2, <1>3
  <2>2. /\ r \in NodeRecord /\ Sized(Asked(r))
        /\ \A k \in Resource : r.reserved[k] = Total(Asked(r))[k] + (IF k = "disk" THEN kept'[n] ELSE 0)
    BY Zenon, <1>3, <1>4
  <2> HIDE DEF r
  <2>3. AilingStatus(r) \in {"HEALTHY", "AILING"} /\ (AilingStatus(r) = "HEALTHY" => AtMost(r.reserved, r.available))
    BY Zenon DEF AilingStatus
  <2>4. /\ s \in NodeRecord /\ s.jobs = r.jobs /\ s.tasks = r.tasks /\ s.reserved = r.reserved
        /\ s.available = r.available /\ s.status = AilingStatus(r)
    BY Zenon, <2>2, <2>3 DEF NodeRecord
  <2> HIDE DEF s
  <2>5. Asked(s) = Asked(r)
    BY Zenon, <2>4 DEF Asked
  <2>6. Balanced(s, kept'[n])
    BY Zenon, <2>2, <2>3, <2>4, <2>5 DEF Balanced
  <2>7. r.status = "DISCONNECTED" => Balanced(r, kept'[n])
    BY Zenon, <2>2 DEF Balanced
  <2> QED
    BY <2>1, <2>2, <2>3, <2>4, <2>5, <2>6, <2>7 DEF r
<1>7. system_status' \in [Known' -> NodeRecord]
  <2>1. system_status' = [n \in Known' |-> system_status'[n]]
    BY Zenon, <1>1, <1>2, <1>3
  <2> QED
    BY Zenon, <2>1, <1>6
<1> HIDE DEF merged
<1> QED
  BY Zenon, <1>3, <1>4, <1>5, <1>6, <1>7

(* update_system_status keeps every account balanced: those it keeps are   *)
(* unchanged and those it opens are empty.                                 *)
LEMMA UpdateAccounts ==
    ASSUME Accounts, NEW listed \in SUBSET Node, NEW reported \in SUBSET (listed \cap Reporting),
           NEW states \in [reported -> NodeConf], UpdateSystemStatus(listed, states)
    PROVE  Accounts' /\ cancel' \subseteq Id
<1>1. /\ Known' = Known \cup reported
      /\ system_status' \in [Known' -> NodeRecord]
      /\ kept' \in [Node -> Nat]
      /\ \A n \in Known' :
            /\ Balanced(system_status'[n], kept'[n])
            /\ Asked(system_status'[n]) \subseteq IF n \in Known THEN Asked(system_status[n]) ELSE {}
  BY Zenon, UpdatedNode
<1>2. config' = config /\ reported \subseteq Node
  BY Zenon, Limits DEF UpdateSystemStatus
<1>3. \A m, n \in Known' : m # n => Asked(system_status'[m]) \cap Asked(system_status'[n]) = {}
  BY Zenon, <1>1 DEF Accounts
<1>4. \A n \in Known' : Asked(system_status'[n]) \subseteq config'
  BY Zenon, <1>1, <1>2 DEF Accounts
<1>5. Accounts'
  BY Zenon, <1>1, <1>2, <1>3, <1>4 DEF Accounts, Balanced, Sized, Asked, Total, Shares, AtMost
<1>6. \A n \in Known : system_status[n].jobs \subseteq Id /\ system_status[n].tasks \subseteq Id
  BY Zenon DEF Accounts, NodeRecord, Id
<1>7. cancel' \subseteq Id
  BY Zenon, <1>6 DEF UpdateSystemStatus
<1> QED
  BY Zenon, <1>5, <1>7

-----------------------------------------------------------------------------
(* Steps that do not concern the manager leave the accounts alone. *)
LEMMA KeptAccounts ==
    ASSUME Accounts, UNCHANGED managed
    PROVE  Accounts' /\ Known' = Known
  BY DEF Accounts, managed, Known, Balanced, Sized, Asked, Total, Shares, AtMost

(* Adding to a copy of the reserved amounts. *)
LEMMA ReserveType ==
    ASSUME NEW d \in [Known -> Amount], NEW n \in Known, NEW i \in Id
    PROVE  /\ ReserveAt(d, n, limits[i]) \in [Known -> Amount]
           /\ ReserveAt(d, n, limits[i])[n] = Plus(d[n], limits[i])
           /\ \A m \in Known : m # n => ReserveAt(d, n, limits[i])[m] = d[m]
<1>1. Plus(d[n], limits[i]) \in Amount
  BY Limits DEF Plus, Amount
<1> QED
  BY Zenon, <1>1 DEF ReserveAt

(* One candidate of the loops of schedule() is dealt with. *)
LEMMA ChosenStep ==
    ASSUME AccountInv, Choosing, NEW i \in queue, queue' = queue \ {i}, UNCHANGED <<managed, pending, phase, cancel, runner>>,
           UNCHANGED <<plan, draft, raised>> \/ (raised' = TRUE /\ UNCHANGED <<plan, draft>>)
               \/ \E n \in Known : Allow(i, n)
    PROVE  AccountInv'
<1>1. Accounts' /\ Known' = Known
  BY Zenon, KeptAccounts DEF AccountInv
<1>2. i \in pending /\ i \in Id /\ draft \in [Known -> Amount] /\ plan \subseteq pending \X Known
  BY Zenon DEF AccountInv, IterationInv
<1>3. draft' \in [Known -> Amount] /\ plan' \subseteq pending \X Known /\ raised' \in BOOLEAN
  <2>1. ASSUME NEW n \in Known, Allow(i, n)
        PROVE  draft' \in [Known -> Amount] /\ plan' \subseteq pending \X Known /\ raised' \in BOOLEAN
    <3>1. ReserveAt(draft, n, limits[i]) \in [Known -> Amount]
      BY Zenon, <1>2, ReserveType
    <3>2. plan \cup {<<i, n>>} \subseteq pending \X Known
      BY <1>2
    <3> QED
      BY Zenon, <2>1, <1>2, <3>1, <3>2 DEF Allow, AccountInv
  <2> QED
    BY Zenon, <2>1, <1>2 DEF AccountInv
<1>4. pending' = pending /\ phase' = phase /\ config' = config /\ cancel' = cancel
  BY Zenon DEF managed
<1>5. IterationInv'
  BY Zenon, <1>1, <1>3, <1>4 DEF AccountInv, IterationInv, Choosing
<1>6. RunnerType'
  BY Zenon DEF AccountInv, RunnerType, runner
<1> QED
  BY Zenon, <1>1, <1>3, <1>4, <1>5, <1>6 DEF AccountInv

(* schedule() works on a copy: it does not touch an account. *)
LEMMA ScheduleAccount ==
    ASSUME AccountInv, Schedule, UNCHANGED runner
    PROVE  AccountInv'
<1>0. RunnerType'
  BY Zenon DEF AccountInv, RunnerType, runner
<1>1. CASE BeginSchedule
  <2>1. Accounts' /\ Known' = Known
    BY Zenon, <1>1, KeptAccounts DEF BeginSchedule, AccountInv
  <2>2. Reserved \in [Known -> Amount]
    BY Zenon DEF Reserved, AccountInv, Accounts, NodeRecord
  <2>3. pending' \subseteq pending /\ queue' \subseteq pending' /\ phase' = "jobs" /\ plan = {} /\ plan' = {}
    BY Zenon, <1>1, Limits DEF BeginSchedule, AccountInv, IterationInv, Choosing
  <2>4. IterationInv'
    BY Zenon, <2>1, <2>2, <2>3, <1>1 DEF BeginSchedule, AccountInv, IterationInv, Choosing
  <2> QED
    BY Zenon, <2>1, <2>3, <2>4, <1>0, <1>1 DEF BeginSchedule, AccountInv, managed
<1>2. ASSUME NEW j \in Job, ScheduleJob(j) PROVE AccountInv'
  <2>1. j \in queue /\ Choosing /\ queue' = queue \ {j} /\ UNCHANGED <<managed, pending, phase, cancel, runner>>
    BY Zenon, <1>2 DEF ScheduleJob, MostUrgent, Choosing
  <2>2. UNCHANGED <<plan, draft, raised>> \/ (raised' = TRUE /\ UNCHANGED <<plan, draft>>)
           \/ \E n \in Known : Allow(j, n)
    BY Zenon, <1>2 DEF ScheduleJob, First, Suitable
  <2> QED
    BY ZenonT(30), <2>1, <2>2, ChosenStep
<1>3. ASSUME NEW t \in Task, ScheduleTask(t) PROVE AccountInv'
  <2>1. t \in queue /\ Choosing /\ queue' = queue \ {t} /\ UNCHANGED <<managed, pending, phase, cancel, runner>>
    BY Zenon, <1>3 DEF ScheduleTask, MostUrgent, Choosing
  <2>2. UNCHANGED <<plan, draft, raised>> \/ \E n \in Known : Allow(t, n)
    BY Zenon, <1>3 DEF ScheduleTask, First, Suitable
  <2> QED
    BY ZenonT(30), <2>1, <2>2, ChosenStep
<1>4. CASE EndJobs \/ EndTasks
  <2>1. Accounts' /\ Known' = Known
    BY Zenon, <1>4, KeptAccounts DEF EndJobs, EndTasks, AccountInv
  <2>2. /\ Choosing /\ phase' \in {"tasks", "claim", "morejobs"} /\ queue' \subseteq pending /\ (phase' = "claim" => queue' = {})
        /\ pending' = pending /\ draft' = draft /\ plan' = plan /\ cancel' = cancel /\ raised' = raised /\ config' = config
    BY Zenon, <1>4 DEF EndJobs, EndTasks, Choosing, managed
  <2>3. IterationInv'
    BY Zenon, <2>1, <2>2 DEF AccountInv, IterationInv, Choosing
  <2> QED
    BY Zenon, <2>1, <2>2, <2>3, <1>0 DEF AccountInv
<1> QED
  BY Zenon, <1>1, <1>2, <1>3, <1>4 DEF Schedule

(* What schedule() allowed is started, or not. *)
LEMMA SolveAccount ==
    ASSUME AccountInv, NEW i \in Id, Solve(i) \/ SolveFails(i)
    PROVE  AccountInv'
<1>1. PICK p \in plan : p[1] = i
  BY Zenon DEF Solve, SolveFails, ClaimResources, NotStarted, NextPlanned
<1>2. /\ phase = "claim" /\ plan' = {q \in plan : q[1] # i} /\ phase' = phase /\ queue' = queue /\ draft' = draft
      /\ cancel' = cancel
  BY Zenon DEF Solve, SolveFails, ClaimResources, NotStarted, NextPlanned, Unplan
<1>3. /\ i \in pending /\ queue = {} /\ plan \subseteq pending \X Known /\ draft \in [Known -> Amount]
  BY Zenon, <1>1, <1>2 DEF AccountInv, IterationInv, Choosing
<1>4. pending' \in {pending, pending \ {i}}
  BY Zenon DEF Solve, SolveFails, ClaimResources, NotStarted
<1>5. plan' \subseteq pending' \X Known
  <2> SUFFICES ASSUME NEW q \in plan' PROVE q \in pending' \X Known
    BY Zenon
  <2>1. q \in pending \X Known /\ q[1] # i
    BY Zenon, <1>2, <1>3
  <2> QED
    BY Zenon, <2>1, <1>4
<1>6. RunnerType'
  <2>1. MaxAttempts \in Nat
    BY Zenon, RunnerConstants
  <2>2. future' \in [Id -> FutureState]
    BY Zenon DEF Solve, SolveFails, SetFuture, AccountInv, RunnerType, FutureState
  <2>3. attempts' \in [Id -> 0 .. MaxAttempts]
    <3>1. CASE Solve(i)
      BY <3>1, <2>1 DEF Solve, AccountInv, RunnerType
    <3>2. CASE SolveFails(i)
      <4> DEFINE a == IF attempts[i] < MaxAttempts THEN attempts[i] + 1 ELSE 0
      <4>1. a \in 0 .. MaxAttempts
        BY <2>1 DEF AccountInv, RunnerType
      <4>2. attempts' = [attempts EXCEPT ![i] = a]
        BY Zenon, <3>2 DEF SolveFails, AccountInv, RunnerType
      <4> HIDE DEF a
      <4> QED
        BY Zenon, <4>1, <4>2 DEF AccountInv, RunnerType
    <3> QED
      BY Zenon, <3>1, <3>2
  <2> QED
    BY Zenon, <2>2, <2>3 DEF Solve, SolveFails, AccountInv, RunnerType
<1>7. Accounts' /\ Known' = Known /\ pending' \cap config' = {} /\ raised' \in BOOLEAN
  <2>1. CASE SolveFails(i)
    BY Zenon, <2>1, <1>4, KeptAccounts DEF SolveFails, NotStarted, AccountInv, managed
  <2>2. CASE Solve(i)
    <3> DEFINE after == ReserveAt(Reserved, node_name, limits[i])
    <3>1. ClaimResources(i, node_name) /\ pending' = pending \ {i} /\ i \notin config
      BY Zenon, <2>2, <1>3 DEF Solve, ClaimResources, AccountInv
    <3>2. CASE node_name \in Known /\ Fits(node_name, after)
      <4>1. config' = config \cup {i} /\ kept' = kept /\ raised' = raised
        BY Zenon, <3>1, <3>2 DEF ClaimResources
      <4>2. LET rec == [system_status[node_name] EXCEPT !.reserved = ReserveAt(Reserved, node_name, limits[i])[node_name]]
            IN  system_status' = [system_status EXCEPT ![node_name] =
                    IF i \in Job THEN [rec EXCEPT !.jobs = @ \cup {i}] ELSE [rec EXCEPT !.tasks = @ \cup {i}]]
        BY Zenon, <3>1, <3>2 DEF ClaimResources
      <4>3. Accounts' /\ Known' = Known
        BY Zenon, <3>1, <3>2, <4>1, <4>2, ClaimAccounts DEF AccountInv
      <4> QED
        BY Zenon, <3>1, <4>1, <4>3 DEF AccountInv
    <3>3. CASE ~(node_name \in Known /\ Fits(node_name, after))
      <4>1. UNCHANGED managed /\ raised' = TRUE
        BY Zenon, <3>1, <3>3 DEF ClaimResources, managed
      <4> QED
        BY Zenon, <3>1, <4>1, KeptAccounts DEF AccountInv, managed
    <3> QED
      BY Zenon, <3>2, <3>3
  <2> QED
    BY Zenon, <2>1, <2>2
<1>8. IterationInv'
  BY Zenon, <1>2, <1>3, <1>4, <1>5, <1>7 DEF AccountInv, IterationInv, Choosing
<1> QED
  BY Zenon, <1>2, <1>6, <1>7, <1>8 DEF AccountInv

(* The nodes are read; the iteration ends; the pool runs. *)
LEMMA UpdateAccount ==
    ASSUME AccountInv, UpdateNodes
    PROVE  AccountInv'
<1>1. PICK listed \in (SUBSET Node) \ {{}} : \E reported \in SUBSET (listed \cap Reporting) :
         \E states \in [reported -> NodeConf] : UpdateSystemStatus(listed, states)
  BY Zenon DEF UpdateNodes, Update
<1>1a. PICK reported \in SUBSET (listed \cap Reporting) :
         \E states \in [reported -> NodeConf] : UpdateSystemStatus(listed, states)
  BY Zenon, <1>1
<1>2. PICK states \in [reported -> NodeConf] : UpdateSystemStatus(listed, states)
  BY Zenon, <1>1a
<1>3. Accounts' /\ cancel' \subseteq Id
  BY Zenon, <1>1, <1>2, UpdateAccounts DEF AccountInv
<1>4. phase = "idle" /\ phase' = "updated" /\ UNCHANGED <<config, pending, queue, draft, plan, raised>>
  BY Zenon, <1>2 DEF UpdateSystemStatus
<1>5. IterationInv'
  BY Zenon, <1>4 DEF AccountInv, IterationInv, Choosing
<1>6. RunnerType'
  BY Zenon DEF UpdateNodes, AccountInv, RunnerType, runner
<1> QED
  BY Zenon, <1>3, <1>4, <1>5, <1>6 DEF AccountInv

(* The loop of the scheduler does not touch an account between its         *)
(* iterations.                                                             *)
LEMMA LoopAccount ==
    ASSUME AccountInv, InitNode \/ NextIteration
    PROVE  AccountInv'
<1>1. UNCHANGED managed /\ UNCHANGED <<pending, queue, plan, cancel, raised>> /\ phase' = "idle"
  BY Zenon DEF InitNode, NextIteration, EndIteration
<1>2. Accounts' /\ Known' = Known
  BY Zenon, <1>1, KeptAccounts DEF AccountInv
<1>3. plan = {} /\ queue = {} /\ draft' = <<>>
  BY Zenon DEF InitNode, NextIteration, EndIteration, AccountInv, IterationInv, Choosing
<1>4. IterationInv'
  BY Zenon, <1>1, <1>3 DEF AccountInv, IterationInv, Choosing
<1>5. RunnerType'
  <2>1. Active \subseteq Node
    BY Zenon DEF Active, AccountInv, Accounts
  <2> QED
    BY Zenon, <2>1 DEF InitNode, NextIteration, AccountInv, RunnerType, runner
<1> QED
  BY Zenon, <1>1, <1>2, <1>4, <1>5 DEF AccountInv, managed

(* The pool of processes does not touch an account. *)
LEMMA PoolAccount ==
    ASSUME AccountInv, NEW i \in Id, Execute(i) \/ Complete(i) \/ ProcessException(i)
    PROVE  AccountInv'
<1>1. UNCHANGED managed /\ UNCHANGED <<pending, phase, queue, draft, plan, cancel>> /\ raised' \in {raised, TRUE}
  BY Zenon DEF Execute, Complete, ProcessException, vars, managed, iteration
<1>2. Accounts' /\ Known' = Known
  BY Zenon, <1>1, KeptAccounts DEF AccountInv
<1>3. IterationInv'
  BY Zenon, <1>1, <1>2 DEF AccountInv, IterationInv, Choosing
<1>4. RunnerType'
  <2>1. future' \in [Id -> FutureState]
    BY Zenon DEF Execute, Complete, ProcessException, SetFuture, AccountInv, RunnerType, FutureState, runner
  <2> QED
    BY Zenon, <2>1 DEF Execute, Complete, ProcessException, AccountInv, RunnerType, runner
<1> QED
  BY Zenon, <1>1, <1>2, <1>3, <1>4 DEF AccountInv, managed

(* Deleting items leaves the numbers of attempts in their range. *)
LEMMA DeletedAttempts ==
    ASSUME attempts \in [Id -> 0 .. MaxAttempts], NEW ids, DeleteItems(ids)
    PROVE  attempts' \in [Id -> 0 .. MaxAttempts]
  BY RunnerConstants DEF DeleteItems

(* A job or a task comes, or goes before it was started. *)
LEMMA QueueAccount ==
    ASSUME AccountInv, NEW i \in Id, PrepareSolution(i) \/ ForgetPending(i)
    PROVE  AccountInv'
<1>1. /\ UNCHANGED managed /\ UNCHANGED <<phase, queue, draft, plan, cancel, raised>> /\ phase = "idle"
      /\ pending' \subseteq pending \cup {i}
      /\ i \in pending' => i \in pending \/ i \notin config
  BY Zenon DEF PrepareSolution, Prepare, ForgetPending, Forget
<1>2. Accounts' /\ Known' = Known
  BY Zenon, <1>1, KeptAccounts DEF AccountInv
<1>3. IterationInv'
  BY Zenon, <1>1 DEF AccountInv, IterationInv, Choosing
<1>4. RunnerType'
  <2>1. MaxAttempts \in Nat
    BY Zenon, RunnerConstants
  <2>2. attempts' = attempts \/ \E ids \in SUBSET Id : DeleteItems(ids)
    BY Zenon DEF PrepareSolution, ForgetPending
  <2>3. attempts' \in [Id -> 0 .. MaxAttempts]
    BY Zenon, <2>2, DeletedAttempts DEF AccountInv, RunnerType
  <2> QED
    BY Zenon, <2>3 DEF PrepareSolution, ForgetPending, AccountInv, RunnerType
<1> QED
  BY Zenon, <1>1, <1>2, <1>3, <1>4 DEF AccountInv, managed

(* Results are processed. *)
LEMMA ResultAccount ==
    ASSUME AccountInv, NEW i \in Id, ProcessResult(i) \/ (i \in Job /\ ProcessJobFailure(i))
    PROVE  AccountInv'
<1>1. PICK keep \in KeepDisk :
         /\ ReleaseResources(i, node_name, keep)
         /\ ~raised' => ~ReleaseRaises(i, node_name, keep)
         /\ raised' \in BOOLEAN
  BY Zenon DEF ProcessResult, ProcessJobFailure, ReleaseRaises
<1>2. keep \in Nat
  BY Zenon, Limits
<1>3. /\ Accounts' /\ Known' = Known
      /\ config' \subseteq config
      /\ ~ReleaseRaises(i, node_name, keep) => i \notin config'
  BY Zenon, <1>1, <1>2, ReleaseAccounts DEF AccountInv
<1>4. /\ phase = "idle" /\ UNCHANGED iteration /\ future' = [future EXCEPT ![i] = "none"]
      /\ UNCHANGED <<node_name, seen>>
      /\ attempts' = attempts \/ \E ids \in SUBSET Id : DeleteItems(ids)
      /\ pending' \in {pending, pending \cup {i}} /\ (pending' # pending => ~raised')
      /\ rescheduled' \in {rescheduled, rescheduled \cup {i}} /\ (i \notin Job => rescheduled' = rescheduled)
  BY Zenon DEF ProcessResult, ProcessJobFailure, SetFuture
<1>5. IterationInv'
  BY Zenon, <1>3, <1>4 DEF AccountInv, IterationInv, Choosing, iteration
<1>6. RunnerType'
  <2>1. future' \in [Id -> FutureState]
    BY Zenon, <1>4 DEF AccountInv, RunnerType, FutureState
  <2>2. attempts' \in [Id -> 0 .. MaxAttempts]
    BY Zenon, <1>4, DeletedAttempts DEF AccountInv, RunnerType
  <2> QED
    BY Zenon, <2>1, <2>2, <1>4 DEF AccountInv, RunnerType
<1>7. pending' \cap config' = {}
  BY Zenon, <1>1, <1>3, <1>4 DEF AccountInv
<1> QED
  BY Zenon, <1>1, <1>3, <1>4, <1>5, <1>6, <1>7 DEF AccountInv, iteration

(* Solutions are cancelled. *)
LEMMA CancelAccount ==
    ASSUME AccountInv, NEW i \in Id, (i \in Job /\ CancelJob(i)) \/ (i \in Task /\ CancelTask(i))
    PROVE  AccountInv'
<1>1. Accounts' /\ Known' = Known /\ config' \subseteq config /\ raised' \in BOOLEAN
  <2>1. CASE CancelTask(i)
    BY <2>1, KeptAccounts DEF CancelTask, AccountInv, managed, Started
  <2>2. CASE i \in Job /\ CancelJob(i)
    <3>1. PICK keep \in KeepDisk :
             /\ IF Started(i) THEN ReleaseResources(i, node_name, keep) ELSE UNCHANGED managed
             /\ raised' \in BOOLEAN
      BY Zenon, <2>2 DEF CancelJob
    <3>2. CASE Started(i)
      <4>1. keep \in Nat /\ ReleaseResources(i, node_name, keep)
        BY Zenon, <3>1, <3>2, Limits
      <4> QED
        BY Zenon, <3>1, <4>1, ReleaseAccounts DEF AccountInv
    <3>3. CASE ~Started(i)
      BY Zenon, <3>1, <3>3, KeptAccounts DEF AccountInv, managed
    <3> QED
      BY Zenon, <3>2, <3>3
  <2> QED
    BY Zenon, <2>1, <2>2
<1>2. /\ phase = "idle" /\ UNCHANGED iteration /\ UNCHANGED <<node_name, rescheduled, seen>>
      /\ pending' \subseteq pending
      /\ \E ts \in SUBSET Id : /\ future' = [a \in Id |-> IF a \in ts THEN "none" ELSE future[a]]
                             /\ DeleteItems(ts)
  BY Zenon DEF CancelJob, CancelTask, CancelTasks, LiveTasks, Id
<1>3. IterationInv'
  BY Zenon, <1>1, <1>2 DEF AccountInv, IterationInv, Choosing, iteration
<1>4. RunnerType'
  <2>1. future' \in [Id -> FutureState]
    BY Zenon, <1>2 DEF AccountInv, RunnerType, FutureState
  <2>2. attempts' \in [Id -> 0 .. MaxAttempts]
    BY Zenon, <1>2, DeletedAttempts DEF AccountInv, RunnerType
  <2> QED
    BY Zenon, <2>1, <2>2, <1>2 DEF AccountInv, RunnerType
<1> QED
  BY Zenon, <1>1, <1>2, <1>3, <1>4 DEF AccountInv, iteration

(* A new manager has an empty account. *)
LEMMA EmptyAccount ==
    ASSUME NEW s, s = <<>>
    PROVE  DOMAIN s = {} /\ s \in [{} -> NodeRecord]
  OBVIOUS

(* No node is known at the start. *)
LEMMA AccountInit == RunnerInit => AccountInv
<1> SUFFICES ASSUME RunnerInit PROVE AccountInv
  BY Zenon
<1>1. MaxAttempts \in Nat
  BY Zenon, RunnerConstants
<1>2. Known = {} /\ system_status \in [Known -> NodeRecord]
  BY Zenon, EmptyAccount DEF RunnerInit, Init, Known
<1>3. Accounts
  BY Zenon, <1>2 DEF Accounts, RunnerInit, Init
<1>4. RunnerType
  BY <1>1 DEF RunnerType, RunnerInit, FutureState
<1>5. IterationInv
  BY Zenon DEF IterationInv, RunnerInit, Init, Choosing
<1> QED
  BY Zenon, <1>3, <1>4, <1>5 DEF AccountInv, RunnerInit, Init

(* A runner that starts over forgets all accounts together with all it had *)
(* claimed.                                                                *)
LEMMA ResetAccount ==
    ASSUME AccountInv, ResetRunner
    PROVE  AccountInv'
<1>1. MaxAttempts \in Nat
  BY Zenon, RunnerConstants
<1>2. system_status' = <<>> /\ kept' = [n \in Node |-> 0] /\ config' = {} /\ pending' = {}
  BY Zenon DEF ResetRunner, Reset
<1>3. Known' = {} /\ system_status' \in [Known' -> NodeRecord]
  BY Zenon, <1>2, EmptyAccount DEF Known
<1>4. Accounts'
  BY Zenon, <1>2, <1>3 DEF Accounts
<1>5. RunnerType'
  BY <1>1 DEF RunnerType, ResetRunner, FutureState, AccountInv
<1>6. IterationInv'
  BY Zenon DEF IterationInv, ResetRunner, Reset, Choosing
<1> QED
  BY Zenon, <1>4, <1>5, <1>6 DEF AccountInv, ResetRunner, Reset

(* Every step of the runner keeps the accounts. *)
LEMMA AccountStep == AccountInv /\ [RunnerNext]_allvars => AccountInv'
<1> SUFFICES ASSUME AccountInv, [RunnerNext]_allvars PROVE AccountInv'
  BY Zenon
<1>1. CASE UNCHANGED allvars
  <2>1. UNCHANGED managed /\ UNCHANGED <<pending, phase, queue, draft, plan, cancel, raised>> /\ UNCHANGED runner
    BY Zenon, <1>1 DEF allvars, vars, managed
  <2>2. Accounts' /\ Known' = Known
    BY Zenon, <2>1, KeptAccounts DEF AccountInv
  <2>3. IterationInv' /\ RunnerType'
    BY Zenon, <2>1, <2>2 DEF AccountInv, IterationInv, Choosing, RunnerType, runner
  <2> QED
    BY Zenon, <2>1, <2>2, <2>3 DEF AccountInv, managed
<1>2. CASE Work
  BY Zenon, <1>2, LoopAccount, UpdateAccount, ScheduleAccount, SolveAccount DEF Work, ScheduleStep
<1>3. CASE \E i \in Id : PrepareSolution(i) \/ Execute(i) \/ Complete(i) \/ ProcessResult(i) \/ ProcessException(i)
  BY Zenon, <1>3, QueueAccount, PoolAccount, ResultAccount
<1>4. CASE \E j \in Job : ProcessJobFailure(j)
  BY Zenon, <1>4, ResultAccount DEF Id
<1>5. CASE \E i \in Cancellable : ForgetPending(i)
  BY Zenon, <1>5, QueueAccount, RunnerConstants
<1>6. CASE \E j \in Cancellable \cap Job : CancelJob(j)
  BY Zenon, <1>6, CancelAccount DEF Id
<1>7. CASE \E t \in Cancellable \cap Task : CancelTask(t)
  BY Zenon, <1>7, CancelAccount DEF Id
<1>8. CASE ResetRunner
  BY Zenon, <1>8, ResetAccount
<1> QED
  BY Zenon, <1>1, <1>2, <1>3, <1>4, <1>5, <1>6, <1>7, <1>8 DEF RunnerNext

(* Whatever nodes come and go, reserved amounts are the sums of what was    *)
(* claimed and not yet released, and a healthy node has not promised more   *)
(* than it has (claim_resources, release_resources, update_system_status).  *)
THEOREM ConservationHolds == RunnerSpec => []Conservation
<1>1. AccountInv => Conservation
  <2> SUFFICES ASSUME AccountInv, NEW n \in Known
               PROVE  /\ \A k \in Resource :
                            system_status[n].reserved[k] =
                                Total(system_status[n].jobs \cup system_status[n].tasks)[k]
                                + IF k = "disk" THEN kept[n] ELSE 0
                      /\ system_status[n].status = "HEALTHY" =>
                            AtMost(system_status[n].reserved, system_status[n].available)
    BY Zenon DEF Conservation
  <2> QED
    BY ZenonT(30) DEF AccountInv, Accounts, Balanced, Asked
<1> QED
  BY <1>1, AccountInit, AccountStep, PTL DEF RunnerSpec

(* The tables of the manager and of the runner are well formed. *)
LEMMA AccountTypes == AccountInv => RunnerTypeOK
<1> SUFFICES ASSUME AccountInv PROVE RunnerTypeOK
  BY Zenon
<1>1. DOMAIN draft \subseteq Known /\ \A n \in DOMAIN draft : draft[n] \in Amount
  BY SMTT(30) DEF AccountInv, IterationInv, Choosing
<1>2. TypeOK
  BY Zenon, <1>1 DEF AccountInv, Accounts, IterationInv, Choosing, TypeOK
<1> QED
  BY Zenon, <1>2 DEF RunnerTypeOK, AccountInv, RunnerType

-----------------------------------------------------------------------------
(* The limit of jobs, for a runner whose node is the only one.  Nothing     *)
(* that has been submitted is missing among what the manager counts.        *)

OneNode == \E n : Node = {n}

LimitInv ==
    /\ OneNode
    /\ \A n \in Known : system_status[n].status # "DISCONNECTED"
    /\ Submitted \cap Job \subseteq RunningJobs
    /\ IsFiniteSet(RunningJobs) /\ IsFiniteSet(plan)
    /\ Cardinality(RunningJobs) + Cardinality(PlannedJobs) =< max_running_jobs

(* One more element is at most one more. *)
LEMMA OneMore ==
    ASSUME NEW S, NEW x, IsFiniteSet(S)
    PROVE  IsFiniteSet(S \cup {x}) /\ Cardinality(S \cup {x}) =< Cardinality(S) + 1 /\ Cardinality(S \cup {x}) \in Nat
<1>1. Cardinality(S) \in Nat
  BY Zenon, FS_CardinalityType
<1>2. /\ IsFiniteSet(S \cup {x})
      /\ Cardinality(S \cup {x}) = IF x \in S THEN Cardinality(S) ELSE Cardinality(S) + 1
  BY Zenon, FS_AddElement
<1> QED
  BY <1>1, <1>2

(* Steps that neither start nor plan a job. *)
LEMMA LimitKept ==
    ASSUME LimitInv, \A n \in Known' : system_status'[n].status # "DISCONNECTED",
           RunningJobs' \subseteq RunningJobs, plan' \subseteq plan, Submitted' \cap Job \subseteq RunningJobs'
    PROVE  LimitInv'
<1>1. IsFiniteSet(RunningJobs') /\ Cardinality(RunningJobs') =< Cardinality(RunningJobs)
      /\ Cardinality(RunningJobs) \in Nat /\ Cardinality(RunningJobs') \in Nat
  BY Zenon, FS_Subset, FS_CardinalityType DEF LimitInv
<1>2. PlannedJobs \subseteq plan /\ PlannedJobs' \subseteq PlannedJobs
  BY Zenon DEF PlannedJobs
<1>3. IsFiniteSet(plan') /\ IsFiniteSet(PlannedJobs)
  BY Zenon, <1>2, FS_Subset DEF LimitInv
<1>4. Cardinality(PlannedJobs') =< Cardinality(PlannedJobs)
      /\ Cardinality(PlannedJobs) \in Nat /\ Cardinality(PlannedJobs') \in Nat
  BY Zenon, <1>2, <1>3, FS_Subset, FS_CardinalityType
<1>5. Cardinality(RunningJobs') + Cardinality(PlannedJobs') =< max_running_jobs
  BY <1>1, <1>4, Limits DEF LimitInv
<1> QED
  BY Zenon, <1>1, <1>3, <1>5 DEF LimitInv, OneNode

(* In particular steps that leave the manager alone. *)
LEMMA LimitQuiet ==
    ASSUME LimitInv, UNCHANGED managed, plan' \subseteq plan, Submitted' \subseteq Submitted
    PROVE  LimitInv'
<1>1. system_status' = system_status /\ Known' = Known /\ RunningJobs' = RunningJobs
  BY Zenon DEF managed, Known, RunningJobs
<1> QED
  BY Zenon, <1>1, LimitKept DEF LimitInv

(* A job is chosen only while the sum is below the limit. *)
LEMMA LimitSchedule ==
    ASSUME AccountInv, LimitInv, Schedule, UNCHANGED runner
    PROVE  LimitInv'
<1>1. UNCHANGED managed /\ Submitted' = Submitted
  BY Zenon DEF Schedule, BeginSchedule, ScheduleJob, EndJobs, ScheduleTask, EndTasks, Submitted, runner
<1>2. CASE plan' \subseteq plan
  BY Zenon, <1>1, <1>2, LimitQuiet
<1>3. CASE ~(plan' \subseteq plan)
  <2>1. PICK i \in Id, n \in Known :
           /\ plan' = plan \cup {<<i, n>>}
           /\ i \in Job => Cardinality(RunningJobs) + Cardinality(PlannedJobs) < max_running_jobs
    <3>1. ASSUME NEW i, NEW n, Allow(i, n) PROVE plan' = plan \cup {<<i, n>>}
      BY Zenon, <3>1, <1>3 DEF Allow
    <3>2. ASSUME NEW j \in Job, ScheduleJob(j)
          PROVE  /\ \E n \in Known : Allow(j, n)
                 /\ Cardinality(RunningJobs) + Cardinality(PlannedJobs) < max_running_jobs
      BY Zenon, <3>2, <1>3 DEF ScheduleJob, First, Suitable
    <3>3. ASSUME NEW t \in Task, ScheduleTask(t) PROVE \E n \in Known : Allow(t, n)
      BY Zenon, <3>3, <1>3 DEF ScheduleTask, First, Suitable
    <3>4. ~BeginSchedule /\ ~EndJobs /\ ~EndTasks
      BY Zenon, <1>3 DEF BeginSchedule, EndJobs, EndTasks
    <3> QED
      BY Zenon, <3>1, <3>2, <3>3, <3>4, Limits DEF Schedule, Id
  <2>2. system_status' = system_status /\ Known' = Known /\ RunningJobs' = RunningJobs
    BY Zenon, <1>1 DEF managed, Known, RunningJobs
  <2>3. IsFiniteSet(plan') /\ IsFiniteSet(PlannedJobs)
    <3>1. PlannedJobs \subseteq plan
      BY Zenon DEF PlannedJobs
    <3> QED
      BY Zenon, <3>1, <2>1, FS_AddElement, FS_Subset DEF LimitInv
  <2>4. Cardinality(RunningJobs) + Cardinality(PlannedJobs') =< max_running_jobs
    <3>1. Cardinality(RunningJobs) \in Nat /\ Cardinality(PlannedJobs) \in Nat
      BY Zenon, <2>3, FS_CardinalityType DEF LimitInv
    <3>2. CASE i \in Job
      <4>1. PlannedJobs' = PlannedJobs \cup {<<i, n>>}
        BY <2>1, <3>2 DEF PlannedJobs
      <4>2. Cardinality(PlannedJobs') =< Cardinality(PlannedJobs) + 1 /\ Cardinality(PlannedJobs') \in Nat
        BY Zenon, <4>1, <2>3, OneMore
      <4> QED
        BY <4>2, <3>1, <3>2, <2>1, Limits
    <3>3. CASE i \notin Job
      <4>1. PlannedJobs' = PlannedJobs
        BY <2>1, <3>3 DEF PlannedJobs
      <4> QED
        BY Zenon, <4>1 DEF LimitInv
    <3> QED
      BY Zenon, <3>2, <3>3
  <2> QED
    BY Zenon, <2>2, <2>3, <2>4, <1>1 DEF LimitInv, OneNode
<1> QED
  BY Zenon, <1>2, <1>3

(* A planned job that is started moves from one number to the other. *)
LEMMA LimitSolve ==
    ASSUME AccountInv, LimitInv, NEW i \in Id, Solve(i) \/ SolveFails(i), ~raised
    PROVE  LimitInv'
<1>1. PICK p \in plan : p[1] = i
  BY Zenon DEF Solve, SolveFails, ClaimResources, NotStarted, NextPlanned
<1>2. plan' = {q \in plan : q[1] # i}
  BY Zenon DEF Solve, SolveFails, ClaimResources, NotStarted, Unplan
<1>3. CASE SolveFails(i)
  <2>1. UNCHANGED managed /\ Submitted' = Submitted
    BY Zenon, <1>3 DEF SolveFails, NotStarted, Submitted
  <2> QED
    BY Zenon, <2>1, <1>2, LimitQuiet
<1>4. CASE Solve(i) /\ raised'
  <2>1. UNCHANGED managed /\ Submitted' = Submitted
    BY Zenon, <1>4 DEF Solve, ClaimResources, Submitted, managed
  <2> QED
    BY Zenon, <2>1, <1>2, LimitQuiet
<1>5. CASE Solve(i) /\ ~raised'
  <2> DEFINE n == node_name
  <2>1. /\ n \in Known /\ Fits(n, ReserveAt(Reserved, n, limits[i])) /\ config' = config \cup {i} /\ kept' = kept
        /\ LET rec == [system_status[n] EXCEPT !.reserved = ReserveAt(Reserved, n, limits[i])[n]]
           IN  system_status' = [system_status EXCEPT ![n] =
                   IF i \in Job THEN [rec EXCEPT !.jobs = @ \cup {i}] ELSE [rec EXCEPT !.tasks = @ \cup {i}]]
    BY Zenon, <1>5 DEF Solve, ClaimResources
  <2>2. i \notin config
    BY Zenon, <1>1 DEF AccountInv, IterationInv
  <2> HIDE DEF n
  <2>3. /\ Known' = Known
        /\ \A m \in Known : /\ system_status'[m].status = system_status[m].status
                            /\ system_status'[m].jobs = IF m = n THEN system_status[m].jobs \cup ({i} \cap Job)
                                                        ELSE system_status[m].jobs
    BY ZenonT(30), <2>1, <2>2, ClaimAccounts DEF AccountInv
  <2>4. RunningJobs' = RunningJobs \cup ({i} \cap Job)
    <3>1. \A j : j \in RunningJobs' <=> \E m \in Known : j \in system_status'[m].jobs
      BY Zenon, <2>3 DEF RunningJobs
    <3>2. \A j : j \in RunningJobs <=> \E m \in Known : j \in system_status[m].jobs
      BY Zenon DEF RunningJobs
    <3>3. \A j : j \in RunningJobs' => j \in RunningJobs \cup ({i} \cap Job)
      BY Zenon, <3>1, <3>2, <2>3
    <3>4. \A j \in RunningJobs : j \in RunningJobs'
      BY Zenon, <3>1, <3>2, <2>3
    <3>5. \A j \in {i} \cap Job : j \in RunningJobs'
      <4>1. n \in Known
        BY Zenon, <2>1
      <4>2. system_status'[n].jobs = system_status[n].jobs \cup ({i} \cap Job)
        BY Zenon, <4>1, <2>3
      <4> QED
        BY Zenon, <4>1, <4>2, <3>1
    <3> QED
      BY Zenon, <3>3, <3>4, <3>5
  <2>5. Submitted' \subseteq Submitted \cup {i}
    BY Zenon, <1>5 DEF Solve, SetFuture, Submitted, AccountInv, RunnerType
  <2>6. IsFiniteSet(plan') /\ IsFiniteSet(PlannedJobs)
    <3>1. PlannedJobs \subseteq plan /\ plan' \subseteq plan
      BY Zenon, <1>2 DEF PlannedJobs
    <3> QED
      BY Zenon, <3>1, FS_Subset DEF LimitInv
  <2>7. IsFiniteSet(RunningJobs') /\ Cardinality(RunningJobs') + Cardinality(PlannedJobs') =< max_running_jobs
    <3>1. Cardinality(RunningJobs) \in Nat /\ Cardinality(PlannedJobs) \in Nat
      BY Zenon, <2>6, FS_CardinalityType DEF LimitInv
    <3>2. CASE i \in Job
      <4>1. RunningJobs' = RunningJobs \cup {i}
        BY Zenon, <2>4, <3>2
      <4>2. IsFiniteSet(RunningJobs') /\ Cardinality(RunningJobs') =< Cardinality(RunningJobs) + 1
            /\ Cardinality(RunningJobs') \in Nat
        BY Zenon, <4>1, OneMore DEF LimitInv
      <4>3. p \in PlannedJobs /\ PlannedJobs' \subseteq PlannedJobs \ {p}
        BY Zenon, <1>1, <1>2, <3>2 DEF PlannedJobs
      <4>4. IsFiniteSet(PlannedJobs \ {p}) /\ Cardinality(PlannedJobs \ {p}) = Cardinality(PlannedJobs) - 1
        BY Zenon, <4>3, <2>6, FS_RemoveElement
      <4>5. Cardinality(PlannedJobs') =< Cardinality(PlannedJobs) - 1 /\ Cardinality(PlannedJobs') \in Nat
        BY <4>3, <4>4, FS_Subset, FS_CardinalityType
      <4> QED
        BY <4>2, <4>5, <3>1, Limits DEF LimitInv
    <3>3. CASE i \notin Job
      <4>1. RunningJobs' = RunningJobs
        BY Zenon, <2>4, <3>3
      <4>2. PlannedJobs' \subseteq PlannedJobs
        BY Zenon, <1>2 DEF PlannedJobs
      <4>3. Cardinality(PlannedJobs') =< Cardinality(PlannedJobs) /\ Cardinality(PlannedJobs') \in Nat
        BY Zenon, <4>2, <2>6, FS_Subset, FS_CardinalityType
      <4> QED
        BY <4>1, <4>3, <3>1, Limits DEF LimitInv
    <3> QED
      BY Zenon, <3>2, <3>3
  <2>8. Submitted' \cap Job \subseteq RunningJobs'
    BY Zenon, <2>4, <2>5 DEF LimitInv
  <2> QED
    BY Zenon, <2>3, <2>6, <2>7, <2>8 DEF LimitInv, OneNode
<1> QED
  BY Zenon, <1>3, <1>4, <1>5

(* The only node is always listed: it never loses its jobs. *)
LEMMA LimitUpdate ==
    ASSUME AccountInv, LimitInv, UpdateNodes
    PROVE  LimitInv'
<1>1. PICK listed \in (SUBSET Node) \ {{}} : \E reported \in SUBSET (listed \cap Reporting) :
         \E states \in [reported -> NodeConf] : UpdateSystemStatus(listed, states)
  BY Zenon DEF UpdateNodes, Update
<1>2. PICK reported \in SUBSET (listed \cap Reporting) :
         \E states \in [reported -> NodeConf] : UpdateSystemStatus(listed, states)
  BY Zenon, <1>1
<1>3. PICK states \in [reported -> NodeConf] : UpdateSystemStatus(listed, states)
  BY Zenon, <1>2
<1>4. listed = Node
  <2>1. PICK n : Node = {n}
    BY Zenon DEF LimitInv, OneNode
  <2>2. listed \subseteq {n} /\ listed # {}
    <3>1. listed \in SUBSET Node
      BY Zenon
    <3>2. listed # {}
      BY Zenon
    <3> QED
      BY Zenon, <2>1, <3>1, <3>2
  <2> QED
    BY Zenon, <2>1, <2>2
<1>5. /\ Known' = Known \cup reported
      /\ \A n \in Known' :
            n \in listed /\ (n \in Known => system_status[n].status # "DISCONNECTED") =>
                /\ system_status'[n].status # "DISCONNECTED"
                /\ system_status'[n].jobs = IF n \in Known THEN system_status[n].jobs ELSE {}
  BY Zenon, <1>1, <1>2, <1>3, UpdatedNode DEF AccountInv
<1>6. Known' \subseteq Node
  BY Zenon, <1>4, <1>5 DEF AccountInv, Accounts
<1>7. \A n \in Known' : /\ system_status'[n].status # "DISCONNECTED"
                        /\ system_status'[n].jobs = IF n \in Known THEN system_status[n].jobs ELSE {}
  BY Zenon, <1>4, <1>5, <1>6 DEF LimitInv
<1>8. RunningJobs' = RunningJobs
  <2>1. \A j : j \in RunningJobs' <=> \E m \in Known' : j \in system_status'[m].jobs
    BY Zenon DEF RunningJobs
  <2>2. \A j : j \in RunningJobs <=> \E m \in Known : j \in system_status[m].jobs
    BY Zenon DEF RunningJobs
  <2>3. \A j \in RunningJobs' : j \in RunningJobs
    BY Zenon, <2>1, <2>2, <1>7
  <2>4. \A j \in RunningJobs : j \in RunningJobs'
    BY Zenon, <2>1, <2>2, <1>5, <1>7
  <2> QED
    BY Zenon, <2>3, <2>4
<1>9. plan' = plan /\ Submitted' = Submitted
  BY Zenon, <1>3 DEF UpdateSystemStatus, UpdateNodes, runner, Submitted
<1> QED
  BY Zenon, <1>7, <1>8, <1>9, LimitKept DEF LimitInv

(* What is released is no longer submitted. *)
LEMMA LimitRelease ==
    ASSUME AccountInv, LimitInv, NEW i \in Id, NEW keep \in Nat, ReleaseResources(i, node_name, keep),
           plan' = plan, Submitted' \subseteq Submitted \ {i}
    PROVE  LimitInv'
<1>1. /\ Known' = Known
      /\ \A m \in Known : /\ system_status'[m].status = system_status[m].status
                          /\ system_status'[m].jobs \subseteq system_status[m].jobs
                          /\ system_status[m].jobs \ {i} \subseteq system_status'[m].jobs
  BY Zenon, ReleaseAccounts DEF AccountInv
<1>2. RunningJobs' \subseteq RunningJobs /\ RunningJobs \ {i} \subseteq RunningJobs'
  <2>1. \A j : j \in RunningJobs' <=> \E m \in Known : j \in system_status'[m].jobs
    BY Zenon, <1>1 DEF RunningJobs
  <2>2. \A j : j \in RunningJobs <=> \E m \in Known : j \in system_status[m].jobs
    BY Zenon DEF RunningJobs
  <2>3. \A j \in RunningJobs' : j \in RunningJobs
    BY Zenon, <2>1, <2>2, <1>1
  <2>4. \A j \in RunningJobs \ {i} : j \in RunningJobs'
    BY Zenon, <2>1, <2>2, <1>1
  <2> QED
    BY Zenon, <2>3, <2>4
<1>3. Submitted' \cap Job \subseteq RunningJobs'
  BY Zenon, <1>2 DEF LimitInv
<1>4. \A n \in Known' : system_status'[n].status # "DISCONNECTED"
  BY Zenon, <1>1 DEF LimitInv
<1> QED
  BY Zenon, <1>2, <1>3, <1>4, LimitKept

(* A result, a failure or a cancelled solution that is processed takes a   *)
(* job out of the pool and out of the account in one step.                 *)
LEMMA LimitProcess ==
    ASSUME AccountInv, LimitInv, NEW i \in Id,
           ProcessResult(i) \/ (i \in Job /\ (ProcessJobFailure(i) \/ CancelJob(i))) \/ CancelTask(i)
    PROVE  LimitInv'
<1>1. plan' = plan /\ Submitted' \subseteq Submitted \ {i}
  BY Zenon DEF ProcessResult, ProcessJobFailure, CancelJob, CancelTask, CancelTasks, SetFuture, Submitted, iteration, AccountInv,
         RunnerType
<1>2. UNCHANGED managed \/ \E keep \in KeepDisk : ReleaseResources(i, node_name, keep)
  BY Zenon DEF ProcessResult, ProcessJobFailure, CancelJob, CancelTask
<1>3. CASE UNCHANGED managed
  BY Zenon, <1>1, <1>3, LimitQuiet
<1>4. CASE \E keep \in KeepDisk : ReleaseResources(i, node_name, keep)
  <2>1. PICK keep \in Nat : ReleaseResources(i, node_name, keep)
    BY Zenon, <1>4, Limits
  <2> QED
    BY Zenon, <2>1, <1>1, LimitRelease
<1> QED
  BY Zenon, <1>2, <1>3, <1>4

(* The runner starts with no jobs at all. *)
LEMMA LimitInit == OneNode /\ RunnerInit => LimitInv
<1> SUFFICES ASSUME OneNode, RunnerInit PROVE LimitInv
  BY Zenon
<1>1. system_status = <<>> /\ plan = {} /\ Submitted = {} /\ Known = {}
  BY DEF RunnerInit, Init, Submitted, Known
<1>2. RunningJobs = {} /\ PlannedJobs = {}
  BY Zenon, <1>1 DEF RunningJobs, PlannedJobs
<1> QED
  BY <1>1, <1>2, FS_EmptySet, Limits DEF LimitInv

(* A runner that starts over has cancelled its jobs and forgets the        *)
(* account.                                                                *)
LEMMA LimitReset ==
    ASSUME LimitInv, ResetRunner
    PROVE  LimitInv'
<1>1. system_status' = <<>> /\ plan' = {} /\ Submitted' = {} /\ Known' = {}
  BY DEF ResetRunner, Reset, Submitted, Known
<1>2. RunningJobs' = {}
  BY Zenon, <1>1 DEF RunningJobs
<1> QED
  BY Zenon, <1>1, <1>2, LimitKept

(* Every step of the runner keeps the limit of jobs. *)
LEMMA LimitStep == AccountInv /\ LimitInv /\ [RunnerNext]_allvars => LimitInv'
<1> SUFFICES ASSUME AccountInv, LimitInv, [RunnerNext]_allvars PROVE LimitInv'
  BY Zenon
<1>1. ASSUME UNCHANGED managed, plan' = plan, Submitted' \subseteq Submitted PROVE LimitInv'
  BY Zenon, <1>1, LimitQuiet
<1>2. CASE UNCHANGED allvars
  BY Zenon, <1>1, <1>2 DEF allvars, vars, managed, runner, Submitted
<1>3. CASE InitNode \/ NextIteration
  BY Zenon, <1>1, <1>3 DEF InitNode, NextIteration, EndIteration, Submitted, runner
<1>4. CASE UpdateNodes
  BY Zenon, <1>4, LimitUpdate
<1>5. CASE ScheduleStep
  BY Zenon, <1>5, LimitSchedule DEF ScheduleStep
<1>6. CASE ~raised /\ \E i \in Id : Solve(i) \/ SolveFails(i)
  BY Zenon, <1>6, LimitSolve
<1>7. CASE \E i \in Id : PrepareSolution(i) \/ ProcessException(i)
  BY Zenon, <1>1, <1>7 DEF PrepareSolution, Prepare, ProcessException, Submitted, iteration, runner
<1>8. CASE \E i \in Id : Execute(i) \/ Complete(i)
  <2>1. PICK i \in Id : Execute(i) \/ Complete(i)
    BY Zenon, <1>8
  <2>2. UNCHANGED managed /\ plan' = plan
    BY Zenon, <2>1 DEF Execute, Complete, vars, managed
  <2>3. Submitted' \subseteq Submitted
    BY Zenon, <2>1 DEF Execute, Complete, SetFuture, Submitted, AccountInv, RunnerType
  <2> QED
    BY Zenon, <1>1, <2>2, <2>3
<1>9. CASE \E i \in Cancellable : ForgetPending(i)
  BY Zenon, <1>1, <1>9 DEF ForgetPending, Forget, Submitted
<1>10. CASE \E i \in Id : ProcessResult(i)
  BY Zenon, <1>10, LimitProcess
<1>11. CASE \E j \in Job : ProcessJobFailure(j)
  BY Zenon, <1>11, LimitProcess DEF Id
<1>12. CASE \E j \in Cancellable \cap Job : CancelJob(j)
  BY Zenon, <1>12, LimitProcess DEF Id
<1>13. CASE \E t \in Cancellable \cap Task : CancelTask(t)
  BY Zenon, <1>13, LimitProcess DEF Id
<1>14. CASE ResetRunner
  BY Zenon, <1>14, LimitReset
<1> QED
  BY Zenon, <1>2, <1>3, <1>4, <1>5, <1>6, <1>7, <1>8, <1>9, <1>10, <1>11, <1>12, <1>13, <1>14 DEF RunnerNext, Work

(* A runner whose node is the only one has at most max_running_jobs jobs in *)
(* the pool, although one call of schedule() chooses jobs twice and results *)
(* are released late; and all tables keep their types.                      *)
THEOREM JobLimitHolds == OneNode /\ RunnerSpec => []JobLimit
<1>1. AccountInv /\ LimitInv => JobLimit
  <2> SUFFICES ASSUME AccountInv, LimitInv PROVE Cardinality(Submitted \cap Job) =< max_running_jobs
    BY Zenon, AccountTypes DEF JobLimit
  <2>1. Cardinality(Submitted \cap Job) =< Cardinality(RunningJobs) /\ Cardinality(RunningJobs) \in Nat
        /\ Cardinality(Submitted \cap Job) \in Nat
    BY Zenon, FS_Subset, FS_CardinalityType DEF LimitInv
  <2>2. IsFiniteSet(PlannedJobs)
    <3>1. PlannedJobs \subseteq plan
      BY Zenon DEF PlannedJobs
    <3> QED
      BY Zenon, <3>1, FS_Subset DEF LimitInv
  <2>3. Cardinality(PlannedJobs) \in Nat
    BY Zenon, <2>2, FS_CardinalityType
  <2> QED
    BY <2>1, <2>3, Limits DEF LimitInv
<1>2. OneNode /\ RunnerInit => AccountInv /\ LimitInv
  BY Zenon, AccountInit, LimitInit
<1>3. AccountInv /\ LimitInv /\ [RunnerNext]_allvars => AccountInv' /\ LimitInv'
  BY Zenon, AccountStep, LimitStep
<1> QED
  BY <1>1, <1>2, <1>3, PTL DEF RunnerSpec

-----------------------------------------------------------------------------
(* What schedule() allows can be claimed, if one node reports its state.    *)
(* The copy that schedule() works with is what will be reserved once        *)
(* everything that is planned has been claimed.                             *)

OneReporting == \E n : Reporting = {n}

Planned == {p[1] : p \in plan}

Promised(k) == system_status[node_name].reserved[k] + Total(Planned)[k]

FitsInv ==
    /\ OneReporting
    /\ Known \subseteq Reporting
    /\ node_name # NoNode => node_name \in Known
    /\ phase = "claim" \/ Choosing => node_name # NoNode
    /\ Sized(Planned)
    /\ phase = "jobs" => Planned \subseteq Job
    /\ phase = "tasks" => Planned \cap queue = {}
    /\ Choosing => \A k \in Resource : Promised(k) = draft[node_name][k]
    /\ phase = "claim" => \A k \in Resource : Promised(k) =< draft[node_name][k]
    /\ plan # {} => AtMost(draft[node_name], system_status[node_name].available)

(* Steps outside of the loops of schedule(). *)
LEMMA FitsIdle ==
    ASSUME FitsInv, Known' \subseteq Reporting, plan' = {}, phase' \in {"idle", "updated"},
           node_name' # NoNode => node_name' \in Known'
    PROVE  FitsInv'
<1>1. Planned' = {}
  BY Zenon DEF Planned
<1>2. Sized(Planned')
  BY Zenon, <1>1, TotalEmpty
<1> QED
  BY Zenon, <1>1, <1>2 DEF FitsInv, OneReporting, Choosing, Sized, Shares

(* A candidate that is allowed is new to the plan. *)
LEMMA FitsAllow ==
    ASSUME AccountInv, FitsInv, Choosing, NEW i \in queue, i \notin Planned, NEW n \in Known, Allow(i, n),
           queue' = queue \ {i}, UNCHANGED <<managed, pending, phase, runner>>, phase = "jobs" => i \in Job
    PROVE  FitsInv'
<1>1. system_status' = system_status /\ Known' = Known /\ node_name' = node_name /\ phase' = phase
  BY Zenon DEF managed, runner, Known
<1>2. CASE UNCHANGED <<plan, draft>>
  <2>1. Planned' = Planned
    BY Zenon, <1>2 DEF Planned
  <2> QED
    BY Zenon, <2>1, <1>1, <1>2 DEF FitsInv, OneReporting, Choosing, Sized, Shares, Promised, Total, AtMost
<1>3. CASE ~UNCHANGED <<plan, draft>>
  <2>1. n = node_name /\ node_name \in Known
    BY Zenon DEF FitsInv, OneReporting
  <2>2. i \in Id /\ draft \in [Known -> Amount] /\ Planned \in SUBSET Id /\ Sized(Planned)
    BY Zenon DEF AccountInv, IterationInv, Planned, FitsInv
  <2>3. /\ plan' = plan \cup {<<i, n>>} /\ draft' = ReserveAt(draft, n, limits[i])
        /\ Fits(n, ReserveAt(draft, n, limits[i]))
    BY Zenon, <1>3 DEF Allow
  <2>4. Planned' = Planned \cup {i}
    <3>1. \A p \in plan' : p[1] \in Planned \cup {i}
      BY <2>3 DEF Planned
    <3>2. \A p \in plan : p \in plan'
      BY Zenon, <2>3
    <3>3. <<i, n>> \in plan' /\ <<i, n>>[1] = i
      BY Zenon, <2>3
    <3> QED
      BY Zenon, <3>1, <3>2, <3>3 DEF Planned
  <2>5. /\ Sized(Planned \cup {i})
        /\ \A k \in Resource : Total(Planned \cup {i})[k] = Total(Planned)[k] + limits[i][k]
    BY Zenon, <2>2, TotalAdd
  <2>6. draft'[n] = Plus(draft[n], limits[i])
    BY ZenonT(30), <2>2, <2>3, ReserveType
  <2>7. \A k \in Resource : draft'[n][k] = draft[n][k] + limits[i][k]
    BY Zenon, <2>6 DEF Plus
  <2>8. AtMost(draft'[n], system_status[n].available)
    BY Zenon, <2>3 DEF Fits
  <2>9. ASSUME NEW k \in Resource
        PROVE  system_status[n].reserved[k] + Total(Planned \cup {i})[k] = draft'[n][k]
    <3>1. system_status[n].reserved[k] + Total(Planned)[k] = draft[n][k]
      BY Zenon, <2>1 DEF FitsInv, Promised
    <3>2. system_status[n].reserved[k] \in Nat /\ Total(Planned)[k] \in Nat /\ limits[i][k] \in Nat
      <4>1. system_status[n] \in NodeRecord
        BY Zenon, <2>1 DEF AccountInv, Accounts
      <4>2. system_status[n].reserved \in Amount
        BY Zenon, <4>1 DEF NodeRecord
      <4>3. Total(Planned)[k] \in Nat
        BY Zenon, TotalNat DEF FitsInv
      <4> QED
        BY ZenonT(30), <4>2, <4>3, <2>2, Limits DEF Amount
    <3>3. Total(Planned \cup {i})[k] = Total(Planned)[k] + limits[i][k]
      BY Zenon, <2>5
    <3>4. draft'[n][k] = draft[n][k] + limits[i][k]
      BY Zenon, <2>7
    <3> QED
      BY SMTT(30), <3>1, <3>2, <3>3, <3>4
  <2>10. \A k \in Resource : Promised(k)' = draft'[node_name'][k]
    BY Zenon, <2>1, <2>4, <2>9, <1>1 DEF Promised, Total, Shares
  <2>11. Sized(Planned')
    BY Zenon, <2>4, <2>5
  <2>12. (phase' = "jobs" => Planned' \subseteq Job) /\ (phase' = "tasks" => Planned' \cap queue' = {})
    BY Zenon, <1>1, <2>4 DEF FitsInv
  <2>13. AtMost(draft'[node_name'], system_status'[node_name'].available)
    BY Zenon, <2>1, <2>8, <1>1
  <2> QED
    BY Zenon, <1>1, <2>10, <2>11, <2>12, <2>13 DEF FitsInv, OneReporting, Choosing, Sized, Shares, AtMost
<1> QED
  BY Zenon, <1>2, <1>3

(* Passing over a job or task that does not fit changes nothing. *)
LEMMA FitsSame ==
    ASSUME FitsInv, Choosing, UNCHANGED <<managed, phase, plan, draft, node_name>>, queue' \subseteq queue
    PROVE  FitsInv'
<1>1. system_status' = system_status /\ Known' = Known /\ Planned' = Planned
  BY Zenon DEF managed, Known, Planned
<1> QED
  BY Zenon, <1>1 DEF FitsInv, OneReporting, Choosing, Sized, Shares, Promised, Total, AtMost

(* schedule() promises only what its copy of the status still has. *)
LEMMA FitsSchedule ==
    ASSUME AccountInv, FitsInv, Schedule, UNCHANGED runner, node_name # NoNode
    PROVE  FitsInv'
<1>0. node_name' = node_name
  BY Zenon DEF runner
<1>1. CASE BeginSchedule
  <2>1. plan = {} /\ plan' = {} /\ phase' = "jobs" /\ draft' = Reserved /\ system_status' = system_status /\ Known' = Known
    BY Zenon, <1>1 DEF BeginSchedule, AccountInv, IterationInv, Choosing, managed, Known
  <2>2. Planned' = {} /\ node_name \in Known
    BY ZenonT(30), <2>1 DEF Planned, FitsInv
  <2>3. \A k \in Resource : Promised(k)' = draft'[node_name'][k]
    <3> TAKE k \in Resource
    <3>1. system_status[node_name].reserved[k] \in Nat
      BY <2>2 DEF AccountInv, Accounts, NodeRecord, Amount
    <3>2. draft'[node_name'][k] = system_status[node_name].reserved[k]
      BY Zenon, <2>1, <2>2, <1>0 DEF Reserved
    <3>3. Total({})[k] = 0
      BY Zenon, TotalEmpty
    <3>4. Promised(k)' = system_status[node_name].reserved[k] + Total({})[k]
      BY Zenon, <2>1, <2>2, <1>0 DEF Promised, Total, Shares
    <3> QED
      BY <3>1, <3>2, <3>3, <3>4
  <2>4. Sized(Planned')
    BY Zenon, <2>2, TotalEmpty
  <2> QED
    BY ZenonT(30), <2>1, <2>2, <2>3, <2>4, <1>0 DEF FitsInv, OneReporting, Choosing, Sized, Shares
<1>2. ASSUME NEW j \in Job, ScheduleJob(j) PROVE FitsInv'
  <2>1. j \in queue /\ Choosing /\ queue' = queue \ {j} /\ UNCHANGED <<managed, pending, phase, runner>>
    BY Zenon, <1>2 DEF ScheduleJob, MostUrgent, Choosing
  <2>2. CASE UNCHANGED <<plan, draft>>
    BY Zenon, <2>1, <2>2, <1>0, FitsSame
  <2>3. CASE ~UNCHANGED <<plan, draft>>
    <3>1. PICK n \in Known : Allow(j, n)
      BY Zenon, <1>2, <2>3 DEF ScheduleJob, First, Suitable
    <3>2. ~\E n1 \in Known : <<j, n1>> \in plan
      BY Zenon, <1>2, <2>3 DEF ScheduleJob
    <3>3. j \notin Planned
      <4>1. plan \subseteq pending \X Known
        BY Zenon DEF AccountInv, IterationInv
      <4> QED
        BY <4>1, <3>2 DEF Planned
    <3> QED
      BY Zenon, <2>1, <3>1, <3>3, FitsAllow
  <2> QED
    BY Zenon, <2>2, <2>3
<1>3. ASSUME NEW t \in Task, ScheduleTask(t) PROVE FitsInv'
  <2>1. t \in queue /\ Choosing /\ queue' = queue \ {t} /\ UNCHANGED <<managed, pending, phase, runner>> /\ phase = "tasks"
    BY Zenon, <1>3 DEF ScheduleTask, MostUrgent, Choosing
  <2>2. CASE UNCHANGED <<plan, draft>>
    BY Zenon, <2>1, <2>2, <1>0, FitsSame
  <2>3. CASE ~UNCHANGED <<plan, draft>>
    <3>1. PICK n \in Known : Allow(t, n)
      BY Zenon, <1>3, <2>3 DEF ScheduleTask, First, Suitable
    <3>2. t \notin Planned
      BY Zenon, <2>1 DEF FitsInv
    <3> QED
      BY Zenon, <2>1, <3>1, <3>2, FitsAllow
  <2> QED
    BY Zenon, <2>2, <2>3
<1>4. CASE EndJobs \/ EndTasks
  <2>1. /\ Choosing /\ system_status' = system_status /\ Known' = Known /\ draft' = draft /\ plan' = plan
        /\ Planned' = Planned /\ phase' \in {"tasks", "claim", "morejobs"}
        /\ phase' = "tasks" => phase = "jobs" /\ queue' \subseteq Task
    BY ZenonT(30), <1>4 DEF EndJobs, EndTasks, Choosing, managed, Known, Planned
  <2>2. phase' = "tasks" => Planned' \cap queue' = {}
    BY Zenon, <2>1, Limits DEF FitsInv
  <2>3. \A k \in Resource : Promised(k)' = draft'[node_name'][k]
    BY Zenon, <2>1, <1>0 DEF FitsInv, Promised, Total, Shares
  <2>4. \A k \in Resource : draft'[node_name'][k] \in Nat
    BY ZenonT(30), <2>1, <1>0 DEF AccountInv, IterationInv, FitsInv, Amount
  <2>5. Sized(Planned')
    BY Zenon, <2>1 DEF FitsInv
  <2>6. \A k \in Resource : Promised(k)' =< draft'[node_name'][k]
    BY <2>3, <2>4
  <2>7. phase' # "jobs"
    BY Zenon, <2>1
  <2> QED
    BY ZenonT(30), <2>1, <2>2, <2>3, <2>5, <2>6, <2>7, <1>0 DEF FitsInv, OneReporting, Choosing, Sized, Shares, AtMost
<1> QED
  BY Zenon, <1>1, <1>2, <1>3, <1>4 DEF Schedule

(* Something that was planned is not started. *)
LEMMA FitsUnplan ==
    ASSUME AccountInv, FitsInv, phase = "claim", NEW i \in Planned, UNCHANGED <<managed, phase, draft, node_name>>,
           plan' = {p \in plan : p[1] # i}
    PROVE  FitsInv'
<1>1. system_status' = system_status /\ Known' = Known
  BY Zenon DEF managed, Known
<1>2. Planned' = Planned \ {i} /\ Planned \subseteq Id
  BY Zenon DEF Planned, AccountInv, IterationInv
<1>3. /\ Sized(Planned \ {i})
      /\ \A k \in Resource : Total(Planned)[k] = Total(Planned \ {i})[k] + limits[i][k]
  BY Zenon, <1>2, TotalRemove DEF FitsInv
<1>4. node_name \in Known
  BY Zenon DEF FitsInv
<1>5. ASSUME NEW k \in Resource
      PROVE  system_status[node_name].reserved[k] + Total(Planned \ {i})[k] =< draft[node_name][k]
  <2>1. system_status[node_name].reserved[k] + Total(Planned)[k] =< draft[node_name][k]
    BY Zenon DEF FitsInv, Promised
  <2>2. system_status[node_name].reserved \in Amount /\ draft[node_name] \in Amount
    BY Zenon, <1>4 DEF AccountInv, Accounts, IterationInv, NodeRecord
  <2>3. system_status[node_name].reserved[k] \in Nat /\ draft[node_name][k] \in Nat /\ limits[i][k] \in Nat
    BY Zenon, <2>2, <1>2, Limits DEF Amount
  <2>4. Total(Planned \ {i})[k] \in Nat
    BY Zenon, <1>3, TotalNat
  <2>5. Total(Planned)[k] = Total(Planned \ {i})[k] + limits[i][k]
    BY Zenon, <1>3
  <2> QED
    BY SMTT(30), <2>1, <2>3, <2>4, <2>5
<1>6. \A k \in Resource : Promised(k)' =< draft'[node_name'][k]
  BY ZenonT(30), <1>1, <1>2, <1>5 DEF Promised, Total, Shares
<1>7. plan' # {} => AtMost(draft'[node_name'], system_status'[node_name'].available)
  BY Zenon, <1>1 DEF FitsInv, AtMost
<1> QED
  BY ZenonT(30), <1>1, <1>2, <1>3, <1>4, <1>6, <1>7 DEF FitsInv, OneReporting, Choosing, Sized, Shares, AtMost

(* What is claimed moves from the plan to the account of the node. *)
LEMMA FitsSolve ==
    ASSUME AccountInv, FitsInv, NEW i \in Id, Solve(i) \/ SolveFails(i)
    PROVE  FitsInv'
<1>1. /\ i \in Planned /\ phase = "claim" /\ phase' = phase /\ draft' = draft /\ node_name' = node_name
      /\ plan' = {p \in plan : p[1] # i}
  BY Zenon DEF Solve, SolveFails, ClaimResources, NotStarted, NextPlanned, Unplan, Planned
<1> DEFINE n == node_name
<1>2. CASE UNCHANGED managed
  BY Zenon, <1>1, <1>2, FitsUnplan
<1>3. CASE ~UNCHANGED managed
  <2>1. /\ n \in Known /\ Fits(n, ReserveAt(Reserved, n, limits[i])) /\ config' = config \cup {i} /\ kept' = kept
        /\ LET rec == [system_status[n] EXCEPT !.reserved = ReserveAt(Reserved, n, limits[i])[n]]
           IN  system_status' = [system_status EXCEPT ![n] =
                   IF i \in Job THEN [rec EXCEPT !.jobs = @ \cup {i}] ELSE [rec EXCEPT !.tasks = @ \cup {i}]]
    BY Zenon, <1>3 DEF Solve, SolveFails, NotStarted, ClaimResources, managed
  <2>2. i \notin config
    BY Zenon, <1>1 DEF AccountInv, IterationInv, Planned
  <2>3. /\ Known' = Known
        /\ system_status'[n].available = system_status[n].available
        /\ system_status'[n].reserved = Plus(system_status[n].reserved, limits[i])
    <3>1. /\ Known' = Known
          /\ \A m \in Known : /\ system_status'[m].available = system_status[m].available
                              /\ system_status'[m].reserved = IF m = n THEN Plus(system_status[m].reserved, limits[i])
                                                              ELSE system_status[m].reserved
      <4> HIDE DEF n
      <4> QED
        BY ZenonT(30), <2>1, <2>2, ClaimAccounts DEF AccountInv
    <3> QED
      BY Zenon, <3>1, <2>1
  <2>4. Planned' = Planned \ {i} /\ Planned \subseteq Id
    BY Zenon, <1>1 DEF Planned, AccountInv, IterationInv
  <2>5. /\ Sized(Planned \ {i})
        /\ \A k \in Resource : Total(Planned)[k] = Total(Planned \ {i})[k] + limits[i][k]
    BY Zenon, <1>1, <2>4, TotalRemove DEF FitsInv
  <2>6. ASSUME NEW k \in Resource
        PROVE  system_status'[n].reserved[k] + Total(Planned \ {i})[k] =< draft[n][k]
    <3>1. system_status[n].reserved[k] + Total(Planned)[k] =< draft[n][k]
      BY Zenon, <1>1 DEF FitsInv, Promised
    <3>2. system_status[n].reserved \in Amount
      BY Zenon, <2>1 DEF AccountInv, Accounts, NodeRecord
    <3>3. system_status[n].reserved[k] \in Nat /\ limits[i][k] \in Nat
      BY Zenon, <3>2, Limits DEF Amount
    <3>4. Total(Planned \ {i})[k] \in Nat
      BY Zenon, <2>5, TotalNat
    <3>5. Total(Planned)[k] = Total(Planned \ {i})[k] + limits[i][k]
      BY Zenon, <2>5
    <3>6. system_status'[n].reserved[k] = system_status[n].reserved[k] + limits[i][k]
      BY Zenon, <2>3 DEF Plus
    <3> QED
      BY SMTT(30), <3>1, <3>3, <3>4, <3>5, <3>6
  <2>7. \A k \in Resource : Promised(k)' =< draft'[node_name'][k]
    BY Zenon, <1>1, <2>4, <2>6 DEF Promised, Total, Shares
  <2>8. plan' # {} => AtMost(draft'[node_name'], system_status'[node_name'].available)
    BY Zenon, <1>1, <2>3 DEF FitsInv, AtMost
  <2> QED
    BY ZenonT(30), <1>1, <2>1, <2>3, <2>4, <2>5, <2>7, <2>8 DEF FitsInv, OneReporting, Choosing, Sized, Shares, AtMost
<1> QED
  BY Zenon, <1>2, <1>3

(* Only nodes that report their state become known. *)
LEMMA FitsUpdate ==
    ASSUME AccountInv, FitsInv, UpdateNodes
    PROVE  FitsInv'
<1>1. PICK listed \in (SUBSET Node) \ {{}} : \E reported \in SUBSET (listed \cap Reporting) :
         \E states \in [reported -> NodeConf] : UpdateSystemStatus(listed, states)
  BY Zenon DEF UpdateNodes, Update
<1>2. PICK reported \in SUBSET (listed \cap Reporting) :
         \E states \in [reported -> NodeConf] : UpdateSystemStatus(listed, states)
  BY Zenon, <1>1
<1>3. PICK states \in [reported -> NodeConf] : UpdateSystemStatus(listed, states)
  BY Zenon, <1>2
<1>4. Known' = Known \cup reported
  BY Zenon, <1>3 DEF UpdateSystemStatus, Known
<1>5. plan' = {} /\ phase' = "updated" /\ node_name' = node_name
  BY Zenon, <1>3 DEF UpdateSystemStatus, UpdateNodes, runner, AccountInv, IterationInv
<1>6. Known' \subseteq Reporting /\ (node_name' # NoNode => node_name' \in Known')
  BY Zenon, <1>4, <1>5 DEF FitsInv
<1> QED
  BY ZenonT(30), <1>5, <1>6, FitsIdle

(* The operations between two iterations find an empty plan. *)
LEMMA FitsBetween ==
    ASSUME AccountInv, FitsInv, phase \in {"idle", "updated"}, phase' \in {"idle", "updated"}, Known' = Known, plan' = plan,
           node_name' \in {node_name} \cup Known
    PROVE  FitsInv'
<1>1. plan' = {} /\ Known' \subseteq Reporting /\ (node_name' # NoNode => node_name' \in Known')
  BY Zenon DEF AccountInv, IterationInv, FitsInv
<1> QED
  BY Zenon, <1>1, FitsIdle

(* Results are processed and jobs cancelled between two iterations. *)
LEMMA FitsProcess ==
    ASSUME AccountInv, FitsInv, NEW i \in Id,
           ProcessResult(i) \/ (i \in Job /\ (ProcessJobFailure(i) \/ CancelJob(i))) \/ CancelTask(i)
    PROVE  FitsInv'
<1>1. phase = "idle" /\ phase' = phase /\ plan' = plan /\ node_name' = node_name
  BY Zenon DEF ProcessResult, ProcessJobFailure, CancelJob, CancelTask, iteration
<1>2. UNCHANGED managed \/ \E keep \in KeepDisk : ReleaseResources(i, node_name, keep)
  BY Zenon DEF ProcessResult, ProcessJobFailure, CancelJob, CancelTask
<1>3. Known' = Known
  <2>1. CASE UNCHANGED managed
    BY Zenon, <2>1 DEF managed, Known
  <2>2. CASE \E keep \in KeepDisk : ReleaseResources(i, node_name, keep)
    <3>1. PICK keep \in Nat : ReleaseResources(i, node_name, keep)
      BY Zenon, <2>2, Limits
    <3> QED
      BY Zenon, <3>1, ReleaseAccounts DEF AccountInv
  <2> QED
    BY Zenon, <1>2, <2>1, <2>2
<1> QED
  BY Zenon, <1>1, <1>3, FitsBetween

(* Steps that touch neither the plan nor the accounts. *)
LEMMA FitsQuiet ==
    ASSUME FitsInv, UNCHANGED <<managed, phase, plan, draft, queue, node_name>>
    PROVE  FitsInv'
<1>1. system_status' = system_status /\ Known' = Known /\ Planned' = Planned
  BY Zenon DEF managed, Known, Planned
<1> QED
  BY Zenon, <1>1 DEF FitsInv, OneReporting, Choosing, Sized, Shares, Promised, Total, AtMost

(* FitsInv is inductive, relative to AccountInv. *)
LEMMA FitsInit == OneReporting /\ RunnerInit => FitsInv
<1> SUFFICES ASSUME OneReporting, RunnerInit PROVE FitsInv
  BY Zenon
<1>1. system_status = <<>> /\ plan = {} /\ Known = {} /\ phase = "idle" /\ node_name = NoNode
  BY DEF RunnerInit, Init, Known
<1>2. Planned = {}
  BY Zenon, <1>1 DEF Planned
<1> QED
  BY Zenon, <1>1, <1>2, TotalEmpty DEF FitsInv, Choosing

(* Every step of the runner keeps what is planned within what is free. *)
LEMMA FitsStep == AccountInv /\ FitsInv /\ [RunnerNext]_allvars => FitsInv'
<1> SUFFICES ASSUME AccountInv, FitsInv, [RunnerNext]_allvars PROVE FitsInv'
  BY Zenon
<1>1. CASE UNCHANGED allvars
  BY Zenon, <1>1, FitsQuiet DEF allvars, vars, managed, runner
<1>2. CASE \E i \in Id : Execute(i) \/ Complete(i)
  BY Zenon, <1>2, FitsQuiet DEF Execute, Complete, vars, managed
<1>3. CASE InitNode
  <2>1. Active \subseteq Known
    BY Zenon DEF Active
  <2>2. Known' = Known /\ node_name' \in {node_name} \cup Known /\ phase = "updated" /\ phase' = "idle" /\ plan' = plan
    BY Zenon, <1>3, <2>1 DEF InitNode, managed, Known
  <2> QED
    BY Zenon, <2>2, FitsBetween
<1>4. CASE NextIteration
  <2>1. plan' = {} /\ phase' = "idle" /\ Known' = Known /\ node_name' = node_name
    BY Zenon, <1>4 DEF NextIteration, EndIteration, managed, runner, Known
  <2> QED
    BY Zenon, <2>1, FitsIdle DEF FitsInv
<1>5. CASE UpdateNodes
  BY Zenon, <1>5, FitsUpdate
<1>6. CASE ScheduleStep
  BY Zenon, <1>6, FitsSchedule DEF ScheduleStep
<1>7. CASE \E i \in Id : Solve(i) \/ SolveFails(i)
  BY Zenon, <1>7, FitsSolve
<1>8. CASE \E i \in Id : PrepareSolution(i) \/ ProcessException(i)
  BY Zenon, <1>8, FitsQuiet DEF PrepareSolution, Prepare, ProcessException, iteration, runner
<1>9. CASE \E i \in Cancellable : ForgetPending(i)
  BY ZenonT(30), <1>9, FitsQuiet DEF ForgetPending, Forget
<1>10. CASE \E i \in Id : ProcessResult(i)
  BY Zenon, <1>10, FitsProcess
<1>11. CASE \E j \in Job : ProcessJobFailure(j)
  BY Zenon, <1>11, FitsProcess DEF Id
<1>12. CASE \E j \in Cancellable \cap Job : CancelJob(j)
  BY Zenon, <1>12, FitsProcess DEF Id
<1>13. CASE \E t \in Cancellable \cap Task : CancelTask(t)
  BY Zenon, <1>13, FitsProcess DEF Id
<1>14. CASE ResetRunner
  <2>1. plan' = {} /\ phase' = "idle" /\ Known' = {} /\ node_name' = NoNode
    BY SMTT(30), <1>14 DEF ResetRunner, Reset, Known
  <2> QED
    BY Zenon, <2>1, FitsIdle
<1> QED
  BY ZenonT(30), <1>1, <1>2, <1>3, <1>4, <1>5, <1>6, <1>7, <1>8, <1>9, <1>10, <1>11, <1>12, <1>13, <1>14 DEF RunnerNext, Work

(* What schedule() allows can be claimed at the runner's node in any order: *)
(* the check in __reserve_resources never raises, neither for what the     *)
(* three loops choose together nor after some of it was not started.       *)
THEOREM ScheduledFitsHolds == OneReporting /\ RunnerSpec => []ScheduledFits
<1>1. AccountInv /\ FitsInv => ScheduledFits
  <2> SUFFICES ASSUME AccountInv, FitsInv, phase = "claim", plan # {}
               PROVE  AtMost(Plus(Reserved[node_name], Total(Planned)), system_status[node_name].available)
    BY Zenon DEF ScheduledFits, Planned
  <2>1. node_name \in Known
    BY Zenon DEF FitsInv
  <2>2. system_status[node_name] \in NodeRecord /\ draft[node_name] \in Amount
    BY Zenon, <2>1 DEF AccountInv, Accounts, IterationInv
  <2> SUFFICES ASSUME NEW k \in Resource
               PROVE  Plus(Reserved[node_name], Total(Planned))[k] =< system_status[node_name].available[k]
    BY Zenon DEF AtMost
  <2>3. Plus(Reserved[node_name], Total(Planned))[k] = Promised(k)
    BY Zenon, <2>1 DEF Plus, Reserved, Promised
  <2>4. Promised(k) =< draft[node_name][k] /\ draft[node_name][k] =< system_status[node_name].available[k]
    BY Zenon DEF FitsInv, AtMost
  <2>5. system_status[node_name].reserved \in Amount /\ system_status[node_name].available \in Amount
    BY Zenon, <2>2 DEF NodeRecord
  <2>6. Total(Planned)[k] \in Nat
    BY Zenon, TotalNat DEF FitsInv
  <2>7. /\ Promised(k) \in Nat
        /\ draft[node_name][k] \in Nat
        /\ system_status[node_name].available[k] \in Nat
    BY <2>2, <2>5, <2>6 DEF Promised, Amount
  <2> QED
    BY SMTT(30), <2>3, <2>4, <2>7
<1>2. OneReporting /\ RunnerInit => AccountInv /\ FitsInv
  BY Zenon, AccountInit, FitsInit
<1>3. AccountInv /\ FitsInv /\ [RunnerNext]_allvars => AccountInv' /\ FitsInv'
  BY Zenon, AccountStep, FitsStep
<1> QED
  BY <1>1, <1>2, <1>3, PTL DEF RunnerSpec
=============================================================================
