---------------------------- MODULE LibraryProofs ----------------------------
(***************************************************************************)
(* Why no event is reversed twice, whatever the Plans, their Applies and   *)
(* the crashes: an Undo Plan is made only from what no earlier attempt of  *)
(* its Run reversed, and while it is ready or under way there is no other  *)
(* attempt that could reverse anything. And why no attempt leaves behind   *)
(* what followed a file it puts back: the inverses wait for each other in  *)
(* the opposite order.                                                     *)
(***************************************************************************)
EXTENDS ManagedLibrary, FiniteSetTheorems, SequenceTheorems, TLAPS

\* A Plan and an action have these fields, whatever is in them.
IsPlan(p) ==
    p = [type |-> p.type, status |-> p.status, from |-> p.from, policy |-> p.policy,
         actions |-> p.actions, after |-> p.after]

IsAction(a) ==
    a = [kind |-> a.kind, op |-> a.op, source |-> a.source, target |-> a.target,
         content |-> a.content, track |-> a.track, asset |-> a.asset, owner |-> a.owner,
         deps |-> a.deps, reason |-> a.reason, reverses |-> a.reverses, event |-> a.event,
         status |-> a.status]

\* Actions are numbered, and finitely many have moved something.
AreActions(actions) ==
    /\ actions = [i \in DOMAIN actions |-> actions[i]]
    /\ DOMAIN actions \subseteq Int
    /\ \A i \in DOMAIN actions : IsAction(actions[i])
    /\ IsFiniteSet({i \in DOMAIN actions : actions[i].event = "succeeded"})

PlansAreStored ==
    /\ \E S : plans \in Seq(S)
    /\ \A n \in DOMAIN plans : IsPlan(plans[n]) /\ AreActions(plans[n].actions)

Open == {"ready", "applying"}
Alive == {"ready", "applying", "applied"}

\* Plans m and k are two attempts to undo one Run.
Rivals(m, k) ==
    /\ m \in DOMAIN plans /\ k \in DOMAIN plans /\ m # k
    /\ plans[m].type = "undo" /\ plans[k].type = "undo" /\ plans[m].from = plans[k].from

\* Plan m has reversed the event of action i of its source.
HasReversed(m, i) ==
    \E j \in ActionsOf(m) : plans[m].actions[j].event = "succeeded"
                            /\ plans[m].actions[j].reverses = i

\* Some attempt to undo Plan n reversed its action i.
WasReversed(n, i) ==
    \E m \in DOMAIN plans : plans[m].type = "undo" /\ plans[m].from = n /\ HasReversed(m, i)

\* Action i of Plan n moved its file after that of action d.
Followed(n, i, d) ==
    /\ i \in ActionsOf(n) /\ plans[n].actions[i].event = "succeeded"
    /\ d \in plans[n].actions[i].deps

\* Plan q undoes a settled Plan of which no attempt is alive: each of its actions
\* takes back another move that none of them took back, and waits for the inverses
\* of all that followed that move.
Inverts(q) ==
    /\ q.from \in DOMAIN plans /\ plans[q.from].status \in Settled
    /\ \A m \in DOMAIN plans : plans[m].type = "undo" /\ plans[m].from = q.from =>
          /\ plans[m].status \notin Alive
          /\ \A j \in DOMAIN q.actions : ~HasReversed(m, q.actions[j].reverses)
    /\ \A j \in DOMAIN q.actions :
          /\ q.actions[j].op = "move" /\ q.actions[j].status # "applied"
          /\ q.actions[j].reverses \in Succeeded(q.from)
          /\ \A k \in DOMAIN q.actions : q.actions[k].reverses = q.actions[j].reverses => k = j
          /\ \A i : Followed(q.from, i, q.actions[j].reverses) =>
                \/ WasReversed(q.from, i)
                \/ \E k \in DOMAIN q.actions : k \in q.actions[j].deps /\ q.actions[k].reverses = i

\* A Plan that may be saved: ready, with nothing done.
Fits(q) ==
    /\ IsPlan(q) /\ q.status = "ready" /\ AreActions(q.actions)
    /\ \A j \in DOMAIN q.actions : q.actions[j].event = "none"
    /\ q.type = "undo" => Inverts(q)

\* The lock is held by an Apply of a claimed Plan, by a planner that looks around,
\* or by one that judged and has yet to save: what it made fits until then.
LockIsHeld ==
    \/ work = Idle
    \/ work.pc = "apply" /\ work.plan \in DOMAIN plans /\ plans[work.plan].status = "applying"
    \/ /\ work.pc \in {"capture", "inventory", "judge"}
       /\ work = [pc |-> work.pc, kind |-> work.kind, policy |-> work.policy,
                  scope |-> work.scope, recoverable |-> work.recoverable,
                  listed |-> work.listed, seen |-> work.seen, inventory |-> work.inventory]
    \/ /\ work.pc = "save"
       /\ work = [pc |-> "save", saved |-> work.saved, tracks |-> work.tracks,
                  assets |-> work.assets, library |-> work.library, late |-> work.late]
       /\ work.saved = <<>> \/ \E q : work.saved = <<q>> /\ Fits(q)

OneAlive == \A m, k : Rivals(m, k) => plans[m].status \notin Alive \/ plans[k].status \notin Alive

\* What an open Undo Plan is about to reverse, no other attempt has.
OpenIsFresh ==
    \A m, k : Rivals(m, k) /\ plans[m].status \in Open =>
        \A j \in ActionsOf(m) : ~HasReversed(k, plans[m].actions[j].reverses)

NoneTwice == \A m, k, i : Rivals(m, k) => ~(HasReversed(m, i) /\ HasReversed(k, i))

UndoInv == PlansAreStored /\ OneAlive /\ OpenIsFresh /\ NoneTwice

LibraryInv == UndoInv /\ LockIsHeld

-----------------------------------------------------------------------------
(* Lemmas about the operators: sequences of actions, and their undo order.  *)

\* Counting downwards numbers a finite set of actions without a gap, so the undo
\* order (LastFirst) consists of those actions, each once.
LEMMA LastFirstTakes ==
    ASSUME NEW moved, moved \subseteq Int, IsFiniteSet(moved)
    PROVE  /\ Cardinality(moved) \in Nat
           /\ \A k \in 1 .. Cardinality(moved) : LastFirst(moved)[k] \in moved
           /\ \A i \in moved : \E k \in 1 .. Cardinality(moved) :
                 \A l \in 1 .. Cardinality(moved) : LastFirst(moved)[l] = i <=> l = k
<1> DEFINE After(i) == {j \in moved : j >= i}
           rank == [i \in moved |-> Cardinality(After(i))]
           size == Cardinality(moved)
<1>1. size \in Nat
  BY FS_CardinalityType
<1>2. IsFiniteSet(1 .. size) /\ Cardinality(1 .. size) = size
  BY <1>1, FS_Interval
<1>3. \A i \in moved : IsFiniteSet(After(i)) /\ rank[i] \in 1 .. size
  <2> SUFFICES ASSUME NEW i \in moved PROVE IsFiniteSet(After(i)) /\ rank[i] \in 1 .. size
    OBVIOUS
  <2>1. After(i) \in SUBSET moved /\ i \in After(i)
    <3>1. i >= i
      OBVIOUS
    <3> QED
      BY <3>1
  <2>2. /\ IsFiniteSet(After(i)) /\ Cardinality(After(i)) <= size
        /\ Cardinality(After(i)) \in Nat
    BY <2>1, FS_Subset, FS_CardinalityType
  <2>3. Cardinality(After(i)) # 0
    BY <2>1, <2>2, FS_EmptySet
  <2> QED
    BY <1>1, <2>2, <2>3
<1>4. \A i, j \in moved : i < j => rank[i] # rank[j]
  <2> SUFFICES ASSUME NEW i \in moved, NEW j \in moved, i < j PROVE rank[i] # rank[j]
    OBVIOUS
  <2>1. After(j) \in SUBSET After(i) /\ i \in After(i) /\ i \notin After(j)
    <3>1. i >= i /\ ~(i >= j) /\ \A x \in moved : x >= j => x >= i
      OBVIOUS
    <3> QED
      BY <3>1
  <2>2. After(j) # After(i)
    BY <2>1
  <2>3. Cardinality(After(i)) # Cardinality(After(j))
    BY <1>3, <2>1, <2>2, FS_Subset
  <2> QED
    BY <2>3
<1>5. rank \in Injection(moved, 1 .. size)
  <2>1. rank \in [moved -> 1 .. size]
    BY <1>3
  <2>2. \A i, j \in moved : rank[i] = rank[j] => i = j
    BY <1>4
  <2> QED
    BY <2>1, <2>2 DEF Injection, IsInjective
<1>6. rank \in Surjection(moved, 1 .. size)
  BY <1>2, <1>5, FS_Injection
<1>7. \A k \in 1 .. size : \E i \in moved : Cardinality(After(i)) = k
  BY <1>6 DEF Surjection
<1>8. \A k \in 1 .. size : /\ LastFirst(moved)[k] \in moved
                          /\ Cardinality(After(LastFirst(moved)[k])) = k
  BY <1>1, <1>7 DEF LastFirst
<1>9. ASSUME NEW i \in moved
      PROVE  \E k \in 1 .. size : \A l \in 1 .. size : LastFirst(moved)[l] = i <=> l = k
  <2>1. \A j \in moved : Cardinality(After(i)) = Cardinality(After(j)) => i = j
    BY <1>4
  <2>2. Cardinality(After(i)) \in 1 .. size
    BY <1>3
  <2> HIDE DEF After
  <2> QED
    BY <1>8, <2>1, <2>2
<1> QED
  BY <1>1, <1>8, <1>9

\* A new Plan's actions are numbered and have moved nothing.
LEMMA NewActions ==
    ASSUME NEW cands
    PROVE  /\ AreActions(Actions(cands))
           /\ \A i \in DOMAIN Actions(cands) : Actions(cands)[i].event = "none"
<1> DEFINE new == Actions(cands)
<1>1. DOMAIN new \subseteq Int /\ new = [i \in DOMAIN new |-> new[i]]
  BY DEF Actions
<1>3. ASSUME NEW i \in DOMAIN new PROVE IsAction(new[i]) /\ new[i].event = "none"
  BY <1>3 DEF Actions, IsAction
<1>2. {i \in DOMAIN new : new[i].event = "succeeded"} = {}
  BY <1>3
<1> QED
  BY <1>1, <1>2, <1>3, FS_EmptySet DEF AreActions

\* So are those of an Undo Plan, and each reverses one action of its list.
LEMMA NewInverses ==
    ASSUME NEW n, NEW left, NEW size \in Nat, Len(left) = size
    PROVE  /\ AreActions(Inverses(n, left)) /\ DOMAIN Inverses(n, left) = 1 .. size
           /\ \A k \in 1 .. size : /\ Inverses(n, left)[k].event = "none"
                                   /\ Inverses(n, left)[k].reverses = left[k]
<1> DEFINE new == Inverses(n, left)
<1>1. /\ DOMAIN new = 1 .. size /\ new = [i \in DOMAIN new |-> new[i]]
      /\ \A i \in DOMAIN new : IsAction(new[i]) /\ new[i].event = "none"
                               /\ new[i].reverses = left[i]
  BY DEF Inverses, IsAction
<1>2. {i \in DOMAIN new : new[i].event = "succeeded"} = {}
  BY <1>1
<1>3. AreActions(new)
  <2>1. IsFiniteSet({i \in DOMAIN new : new[i].event = "succeeded"})
    BY <1>2, FS_EmptySet
  <2>2. DOMAIN new \subseteq Int
    BY <1>1
  <2> QED
    BY <1>1, <2>1, <2>2 DEF AreActions
<1> QED
  BY <1>1, <1>3

\* The set the code computes and the predicate used here agree.
LEMMA ReversedMeans ==
    \A attempts, i : i \in ReversedBy(attempts) <=> \E m \in attempts : HasReversed(m, i)
BY DEF ReversedBy, HasReversed, ActionsOf

-----------------------------------------------------------------------------
(* The two ways Plans change: one is rewritten, or one is added.            *)

\* An open Plan may get a new status and new outcomes of its actions. This is
\* what Cancel, Claim, every step of an Apply and the reconciliation do.
LEMMA Rewrite ==
    ASSUME UndoInv, NEW n \in DOMAIN plans, plans[n].status \in Open,
           NEW q, IsPlan(q), q.type = plans[n].type, q.from = plans[n].from,
           AreActions(q.actions), DOMAIN q.actions = ActionsOf(n),
           \A i \in ActionsOf(n) : q.actions[i].reverses = plans[n].actions[i].reverses,
           plans' = [plans EXCEPT ![n] = q]
    PROVE  UndoInv'
<1>1. /\ DOMAIN plans' = DOMAIN plans /\ plans'[n] = q
      /\ \A k \in DOMAIN plans \ {n} : plans'[k] = plans[k]
  BY DEF UndoInv, PlansAreStored
<1>2. /\ \A k \in DOMAIN plans : ActionsOf(k)' = ActionsOf(k)
      /\ \A k \in DOMAIN plans : \A i : k # n => (HasReversed(k, i)' <=> HasReversed(k, i))
  BY <1>1 DEF ActionsOf, HasReversed
<1>3. \A m, k : Rivals(m, k)' <=> Rivals(m, k)
  BY <1>1 DEF Rivals
<1>4. \A m, k : Rivals(m, k) => Rivals(k, m) /\ m \in DOMAIN plans /\ k \in DOMAIN plans /\ m # k
  BY DEF Rivals
<1>5. \A k : Rivals(n, k) => plans[k].status \notin Alive
  BY DEF UndoInv, OneAlive, Open, Alive
<1>6. \A i : HasReversed(n, i)' => \E j \in ActionsOf(n) : i = plans[n].actions[j].reverses
  BY <1>1, <1>2 DEF HasReversed
<1>7. \A k, i : Rivals(n, k) /\ HasReversed(n, i)' => ~HasReversed(k, i)
  BY <1>6 DEF UndoInv, OpenIsFresh
<1>8. PlansAreStored'
  <2>1. PICK S : plans \in Seq(S)
    BY DEF UndoInv, PlansAreStored
  <2>2. plans' \in Seq(S \cup {q})
    <3>1. plans \in Seq(S \cup {q})
      BY <2>1, SeqMonotonic
    <3>2. n \in 1 .. Len(plans)
      BY <2>1
    <3> QED
      BY <3>1, <3>2, ExceptSeq
  <2>3. \A k \in DOMAIN plans' : IsPlan(plans'[k]) /\ AreActions(plans'[k].actions)
    BY <1>1 DEF UndoInv, PlansAreStored
  <2> QED
    BY <2>2, <2>3 DEF PlansAreStored
<1>9. OneAlive'
  <2> SUFFICES ASSUME NEW m, NEW k, Rivals(m, k)
               PROVE  plans'[m].status \notin Alive \/ plans'[k].status \notin Alive
    BY <1>3 DEF OneAlive
  <2> QED
    BY <1>1, <1>4, <1>5 DEF UndoInv, OneAlive
<1>10. OpenIsFresh'
  <2> SUFFICES ASSUME NEW m, NEW k, Rivals(m, k), plans'[m].status \in Open,
                      NEW j \in ActionsOf(m)
               PROVE  ~HasReversed(k, plans[m].actions[j].reverses)'
    BY <1>2, <1>3, <1>4 DEF OpenIsFresh
  <2>1. CASE m = n
    BY <1>1, <1>2, <1>4, <2>1 DEF UndoInv, OpenIsFresh
  <2>2. CASE k = n
    BY <1>1, <1>4, <1>5, <2>2 DEF Open, Alive
  <2>3. CASE m # n /\ k # n
    BY <1>1, <1>2, <1>4, <2>3 DEF UndoInv, OpenIsFresh
  <2> QED
    BY <2>1, <2>2, <2>3
<1>11. NoneTwice'
  <2> SUFFICES ASSUME NEW m, NEW k, NEW i, Rivals(m, k), HasReversed(m, i)', HasReversed(k, i)'
               PROVE  FALSE
    BY <1>3 DEF NoneTwice
  <2>1. CASE m = n
    BY <1>2, <1>4, <1>7, <2>1
  <2>2. CASE k = n
    BY <1>2, <1>4, <1>7, <2>2
  <2>3. CASE m # n /\ k # n
    BY <1>2, <1>4, <2>3 DEF UndoInv, NoneTwice
  <2> QED
    BY <2>1, <2>2, <2>3
<1> QED
  BY <1>8, <1>9, <1>10, <1>11 DEF UndoInv

\* A new Plan has moved nothing. An Undo Plan is added only while no attempt of
\* its Run is alive, and only for what none of them has reversed.
LEMMA Addition ==
    ASSUME UndoInv, NEW q, Fits(q), plans' = Append(plans, q)
    PROVE  UndoInv'
<1> USE DEF Fits, Inverts
<1>0. PICK S : plans \in Seq(S)
  BY DEF UndoInv, PlansAreStored
<1>1. Len(plans) \in Nat /\ DOMAIN plans = 1 .. Len(plans)
  BY <1>0
<1>10. PICK new \in Nat : new = Len(plans) + 1
  BY <1>1
<1>2. /\ DOMAIN plans' = 1 .. new /\ plans'[new] = q /\ plans' \in Seq(S \cup {q})
      /\ \A k \in DOMAIN plans : plans'[k] = plans[k]
  <2>1. plans \in Seq(S \cup {q})
    BY <1>0, SeqMonotonic
  <2>2. /\ plans' \in Seq(S \cup {q}) /\ Len(plans') = new /\ plans'[new] = q
        /\ \A k \in 1 .. Len(plans) : plans'[k] = plans[k]
    BY <1>10, <2>1, AppendProperties
  <2>3. DOMAIN plans' = 1 .. Len(plans')
    BY <2>2
  <2> QED
    BY <1>1, <2>2, <2>3
<1>3. DOMAIN plans' = DOMAIN plans \cup {new} /\ new \notin DOMAIN plans
  BY <1>1, <1>2, <1>10
<1>4. /\ \A k \in DOMAIN plans : ActionsOf(k)' = ActionsOf(k)
      /\ ActionsOf(new)' = DOMAIN q.actions
      /\ \A k \in DOMAIN plans : \A i : HasReversed(k, i)' <=> HasReversed(k, i)
      /\ \A i : ~HasReversed(new, i)'
  BY <1>2 DEF ActionsOf, HasReversed
<1>5. \A m, k : Rivals(m, k)' =>
          /\ m \in DOMAIN plans \cup {new} /\ k \in DOMAIN plans \cup {new} /\ m # k
          /\ m # new /\ k # new => Rivals(m, k)
          /\ m = new => q.type = "undo" /\ plans[k].type = "undo" /\ plans[k].from = q.from
          /\ k = new => q.type = "undo" /\ plans[m].type = "undo" /\ plans[m].from = q.from
  BY <1>2, <1>3 DEF Rivals
<1>6. PlansAreStored'
  <2>1. \A k \in DOMAIN plans' : IsPlan(plans'[k]) /\ AreActions(plans'[k].actions)
    BY <1>2, <1>3 DEF UndoInv, PlansAreStored
  <2> QED
    BY <1>2, <2>1 DEF PlansAreStored
<1>7. OneAlive'
  <2> SUFFICES ASSUME NEW m, NEW k, Rivals(m, k)'
               PROVE  plans'[m].status \notin Alive \/ plans'[k].status \notin Alive
    BY DEF OneAlive
  <2> QED
    BY <1>2, <1>5 DEF UndoInv, OneAlive
<1>8. OpenIsFresh'
  <2> SUFFICES ASSUME NEW m, NEW k, Rivals(m, k)', plans'[m].status \in Open,
                      NEW j \in ActionsOf(m)'
               PROVE  ~HasReversed(k, plans[m].actions[j].reverses)'
    BY DEF OpenIsFresh
  <2>1. CASE m = new
    BY <1>2, <1>4, <1>5, <2>1
  <2>2. CASE k = new
    BY <1>4, <2>2
  <2>3. CASE m # new /\ k # new
    <3>1. Rivals(m, k) /\ m \in DOMAIN plans /\ k \in DOMAIN plans
      BY <1>5, <2>3
    <3> QED
      BY <1>2, <1>4, <3>1 DEF UndoInv, OpenIsFresh
  <2> QED
    BY <2>1, <2>2, <2>3
<1>9. NoneTwice'
  <2> SUFFICES ASSUME NEW m, NEW k, NEW i, Rivals(m, k)', HasReversed(m, i)', HasReversed(k, i)'
               PROVE  FALSE
    BY DEF NoneTwice
  <2>1. m # new /\ k # new
    BY <1>4
  <2> QED
    BY <1>4, <1>5, <2>1 DEF UndoInv, NoneTwice
<1> QED
  BY <1>6, <1>7, <1>8, <1>9 DEF UndoInv

-----------------------------------------------------------------------------
(* What the steps do to one action and to one Plan.                         *)

\* An action with a new outcome reverses what it did.
LEMMA ActionEnds ==
    ASSUME NEW a, IsAction(a), NEW status, NEW event, NEW track
    PROVE  /\ IsAction([a EXCEPT !.status = status, !.event = event, !.track = track])
           /\ [a EXCEPT !.status = status, !.event = event, !.track = track].reverses
                 = a.reverses
<1> DEFINE b1 == [a EXCEPT !.status = status]
           b2 == [b1 EXCEPT !.event = event]
           b3 == [b2 EXCEPT !.track = track]
<1>1. IsAction(b1) /\ b1.reverses = a.reverses
  BY DEF IsAction
<1> HIDE DEF b1
<1>2. IsAction(b2) /\ b2.reverses = a.reverses
  BY <1>1 DEF IsAction
<1> HIDE DEF b2
<1>3. IsAction(b3) /\ b3.reverses = a.reverses
  BY <1>1, <1>2 DEF IsAction
<1> QED
  BY <1>3 DEF b1, b2

\* One action of a list may be replaced.
LEMMA ActionReplaced ==
    ASSUME NEW list, AreActions(list), NEW i \in DOMAIN list,
           NEW b, IsAction(b), b.reverses = list[i].reverses
    PROVE  LET other == [list EXCEPT ![i] = b] IN
           /\ AreActions(other) /\ DOMAIN other = DOMAIN list
           /\ \A j \in DOMAIN list : other[j].reverses = list[j].reverses
<1> DEFINE other == [list EXCEPT ![i] = b]
           Movers(l) == {j \in DOMAIN l : l[j].event = "succeeded"}
<1>1. /\ DOMAIN other = DOMAIN list /\ other = [j \in DOMAIN other |-> other[j]]
      /\ other[i] = b /\ \A j \in DOMAIN list \ {i} : other[j] = list[j]
  OBVIOUS
<1>2. IsFiniteSet(Movers(list) \cup {i})
  BY FS_AddElement DEF AreActions
<1>3. Movers(other) \in SUBSET (Movers(list) \cup {i})
  BY <1>1
<1>4. IsFiniteSet(Movers(other))
  BY <1>2, <1>3, FS_Subset
<1>5. \A j \in DOMAIN other : IsAction(other[j]) /\ other[j].reverses = list[j].reverses
  BY <1>1 DEF AreActions
<1> QED
  BY <1>1, <1>4, <1>5 DEF AreActions

\* A Plan keeps its type and source whatever becomes of it.
LEMMA PlanChanges ==
    ASSUME NEW p, IsPlan(p), NEW x
    PROVE  /\ LET q == [p EXCEPT !.status = x] IN
              IsPlan(q) /\ q.type = p.type /\ q.from = p.from /\ q.actions = p.actions
                        /\ q.status = x
           /\ LET q == [p EXCEPT !.actions = x] IN
              IsPlan(q) /\ q.type = p.type /\ q.from = p.from /\ q.actions = x
                        /\ q.status = p.status
<1>1. LET q == [p EXCEPT !.status = x] IN
      IsPlan(q) /\ q.type = p.type /\ q.from = p.from /\ q.actions = p.actions /\ q.status = x
  BY DEF IsPlan
<1>2. LET q == [p EXCEPT !.actions = x] IN
      IsPlan(q) /\ q.type = p.type /\ q.from = p.from /\ q.actions = x /\ q.status = p.status
  BY DEF IsPlan
<1> QED
  BY <1>1, <1>2

\* Reconciliation moves nothing: it settles what a crash left open.
LEMMA ReconciledKeeps ==
    ASSUME NEW p, IsPlan(p), AreActions(p.actions)
    PROVE  LET q == Reconciled(p) IN
           /\ IsPlan(q) /\ q.type = p.type /\ q.from = p.from
           /\ AreActions(q.actions) /\ DOMAIN q.actions = DOMAIN p.actions
           /\ \A i \in DOMAIN p.actions : q.actions[i].reverses = p.actions[i].reverses
<1> DEFINE settled == [i \in DOMAIN p.actions |->
                IF p.actions[i].status # "planned" THEN p.actions[i]
                ELSE [p.actions[i] EXCEPT
                         !.status = IF p.actions[i].op = "skip" THEN "applied" ELSE "interrupted"]]
           Movers(l) == {j \in DOMAIN l : l[j].event = "succeeded"}
<1>1. Reconciled(p) = [p EXCEPT !.actions = settled, !.status = Verdict(settled)]
  BY DEF Reconciled
<1>2. ASSUME NEW i \in DOMAIN p.actions
      PROVE  /\ IsAction(settled[i]) /\ settled[i].reverses = p.actions[i].reverses
             /\ settled[i].event = p.actions[i].event
  <2>1. IsAction(p.actions[i])
    BY DEF AreActions
  <2>2. CASE p.actions[i].status # "planned"
    BY <2>1, <2>2
  <2>3. CASE p.actions[i].status = "planned"
    <3>1. PICK status : settled[i] = [p.actions[i] EXCEPT !.status = status]
      BY <2>3
    <3> QED
      BY <2>1, <3>1 DEF IsAction
  <2> QED
    BY <2>2, <2>3
<1>3. DOMAIN settled = DOMAIN p.actions /\ settled = [i \in DOMAIN settled |-> settled[i]]
  OBVIOUS
<1>4. Movers(settled) = Movers(p.actions)
  BY <1>2, <1>3
<1>5. AreActions(settled)
  BY <1>2, <1>3, <1>4 DEF AreActions
<1>6. \A i \in DOMAIN p.actions : settled[i].reverses = p.actions[i].reverses
  BY <1>2
<1> HIDE DEF settled
<1>7. PICK verdict : verdict = Verdict(settled)
  OBVIOUS
<1>8. Reconciled(p) = [p EXCEPT !.actions = settled, !.status = verdict]
  BY <1>1, <1>7
<1>9. /\ IsPlan(Reconciled(p)) /\ Reconciled(p).type = p.type /\ Reconciled(p).from = p.from
      /\ Reconciled(p).actions = settled
  <2> DEFINE q == [p EXCEPT !.actions = settled]
  <2>1. IsPlan(q) /\ q.type = p.type /\ q.from = p.from /\ q.actions = settled
    BY PlanChanges
  <2>2. Reconciled(p) = [q EXCEPT !.status = verdict]
    BY <1>8
  <2> HIDE DEF q
  <2> DEFINE r == [q EXCEPT !.status = verdict]
  <2>3. IsPlan(r) /\ r.type = q.type /\ r.from = q.from /\ r.actions = q.actions
    BY <2>1 DEF IsPlan
  <2> HIDE DEF r
  <2> QED
    BY <2>1, <2>2, <2>3 DEF r
<1> QED
  BY <1>3, <1>5, <1>6, <1>9

-----------------------------------------------------------------------------
(* Every step keeps the invariant.                                          *)

\* A step that leaves the Plans alone leaves the facts about them alone.
LEMMA UndoKept == ASSUME UndoInv, plans' = plans PROVE UndoInv'
BY DEF UndoInv, PlansAreStored, OneAlive, OpenIsFresh, NoneTwice, Rivals, HasReversed, ActionsOf

\* An Apply works on a Plan that is applying, which only its own steps change.
LEMMA ApplyHolds ==
    ASSUME LibraryInv, work.pc = "apply"
    PROVE  /\ work.plan \in DOMAIN plans /\ plans[work.plan].status = "applying"
           /\ IsPlan(plans[work.plan]) /\ AreActions(plans[work.plan].actions)
<1>1. work # Idle
  BY DEF Idle
<1> QED
  BY <1>1 DEF LibraryInv, LockIsHeld, UndoInv, PlansAreStored

\* What fits, fits as long as the Plans stay.
LEMMA FitsKept == ASSUME NEW q, Fits(q), plans' = plans PROVE Fits(q)'
<1>1. IsPlan(q) /\ q.status = "ready" /\ AreActions(q.actions)
      /\ \A j \in DOMAIN q.actions : q.actions[j].event = "none"
  BY DEF Fits
<1>2. /\ \A m, i : HasReversed(m, i)' <=> HasReversed(m, i)
      /\ \A m, i : WasReversed(m, i)' <=> WasReversed(m, i)
      /\ \A m, i, d : Followed(m, i, d)' <=> Followed(m, i, d)
      /\ \A m : Succeeded(m)' = Succeeded(m)
  BY DEF HasReversed, WasReversed, Followed, Succeeded, ActionsOf
<1>3. q.type = "undo" => Inverts(q)'
  BY <1>2 DEF Fits, Inverts
<1>4. (IsPlan(q) /\ AreActions(q.actions))'
  BY <1>1 DEF IsPlan, AreActions, IsAction
<1> QED
  BY <1>1, <1>3, <1>4 DEF Fits

LEMMA LockKept == ASSUME LockIsHeld, plans' = plans, work' = work PROVE LockIsHeld'
<1>1. (\E q : work.saved = <<q>> /\ Fits(q)) => \E q : work'.saved = <<q>> /\ Fits(q)'
  BY FitsKept
<1> QED
  BY <1>1 DEF LockIsHeld

\* The planners that start from the files make Plans of new moves.
LEMMA NewPlanFits ==
    ASSUME NEW type, type # "undo", NEW naming, NEW cands
    PROVE  Fits(NewPlan(type, 0, naming, Actions(cands)))
<1> DEFINE new == Actions(cands)
           q == NewPlan(type, 0, naming, new)
<1>1. AreActions(new) /\ \A i \in DOMAIN new : new[i].event = "none"
  BY NewActions
<1> HIDE DEF new
<1>2. IsPlan(q) /\ q.type = type /\ q.actions = new /\ q.status = "ready"
  BY DEF NewPlan, IsPlan
<1> HIDE DEF q
<1>3. Fits(q)
  BY <1>1, <1>2 DEF Fits
<1> QED
  BY <1>3 DEF q, new

\* Each action of a new Undo Plan reverses another move of its source, and waits
\* for the inverses of all that followed that one (InverseDependencies), which are
\* in the Plan or were reversed.
LEMMA InversesWait ==
    ASSUME UndoInv, NEW n \in DOMAIN plans, NEW j \in DOMAIN UndoActions(n)
    PROVE  LET new == UndoActions(n) IN
           /\ new[j].op = "move" /\ new[j].status # "applied" /\ new[j].event = "none"
           /\ new[j].reverses \in Succeeded(n)
           /\ \A k \in DOMAIN new : new[k].reverses = new[j].reverses => k = j
           /\ \A i : Followed(n, i, new[j].reverses) =>
                 \/ WasReversed(n, i)
                 \/ \E k \in DOMAIN new : k \in new[j].deps /\ new[k].reverses = i
<1> DEFINE left == Succeeded(n) \ Reversed(n)
           order == LastFirst(left)
           size == Cardinality(left)
           new == UndoActions(n)
<1>1. left \subseteq Int /\ IsFiniteSet(left)
  <2>1. AreActions(plans[n].actions)
    BY DEF UndoInv, PlansAreStored
  <2>2. Succeeded(n) \subseteq Int /\ IsFiniteSet(Succeeded(n))
    BY <2>1 DEF Succeeded, ActionsOf, AreActions
  <2>3. left \in SUBSET Succeeded(n)
    OBVIOUS
  <2> QED
    BY <2>2, <2>3, FS_Subset
<1>2. /\ size \in Nat
      /\ \A k \in 1 .. size : order[k] \in left
      /\ \A i \in left : \E k \in 1 .. size : \A l \in 1 .. size : order[l] = i <=> l = k
  BY <1>1, LastFirstTakes
<1>3. DOMAIN order = 1 .. size /\ Len(order) = size
  BY <1>2 DEF LastFirst
<1>4. \A i : i \in left <=> /\ i \in ActionsOf(n) /\ plans[n].actions[i].event = "succeeded"
                            /\ ~WasReversed(n, i)
  BY ReversedMeans DEF Succeeded, Reversed, Attempts, WasReversed
<1> HIDE DEF order, size, left
<1>5. /\ DOMAIN new = 1 .. size
      /\ \A k \in 1 .. size : /\ new[k].op = "move" /\ new[k].event = "none"
                              /\ new[k].status \in {"planned", "blocked"}
                              /\ new[k].reverses = order[k]
                              /\ new[k].deps = InverseDependencies(n, order, order[k])
  BY <1>2, <1>3 DEF UndoActions, Inverses, order, left
<1>6. ASSUME NEW i, Followed(n, i, order[j]), ~WasReversed(n, i)
      PROVE  \E k \in 1 .. size : k \in InverseDependencies(n, order, order[j]) /\ order[k] = i
  <2>1. i \in left /\ i \in Succeeded(n) /\ order[j] \in plans[n].actions[i].deps
    BY <1>4, <1>6 DEF Followed, Succeeded
  <2>2. PICK k \in 1 .. size : \A l \in 1 .. size : order[l] = i <=> l = k
    BY <1>2, <2>1
  <2>3. {0} \cup {l \in DOMAIN order : order[l] = i} = {0, k}
    BY <1>3, <2>2
  <2>4. InverseOf(order, i) = k
    <3>1. k >= 0 /\ k >= k /\ ~(0 >= k) /\ k # 0
      BY <1>2
    <3>2. Max({0, k}) = k
      <4>1. Max({0, k}) = CHOOSE x \in {0, k} : \A y \in {0, k} : x >= y
        BY DEF Max
      <4>2. \A x \in {0, k} : (\A y \in {0, k} : x >= y) <=> x = k
        BY <3>1
      <4> QED
        BY <4>1, <4>2
    <3> QED
      BY <2>3, <3>2 DEF InverseOf
  <2>5. k \in InverseDependencies(n, order, order[j])
    BY <1>2, <2>1, <2>4 DEF InverseDependencies
  <2> QED
    BY <2>2, <2>5
<1> HIDE DEF new
<1>7. j \in 1 .. size
  BY <1>5 DEF new
<1>8. /\ new[j].op = "move" /\ new[j].status # "applied" /\ new[j].event = "none"
      /\ new[j].reverses \in Succeeded(n)
      /\ \A k \in DOMAIN new : new[k].reverses = new[j].reverses => k = j
      /\ \A i : Followed(n, i, new[j].reverses) =>
            \/ WasReversed(n, i)
            \/ \E k \in DOMAIN new : k \in new[j].deps /\ new[k].reverses = i
  <2>1. order[j] \in left /\ left \subseteq Succeeded(n)
    BY <1>2, <1>7 DEF left
  <2>2. \A k \in 1 .. size : order[k] = order[j] => k = j
    BY <1>2, <1>7, <2>1
  <2> QED
    BY <1>5, <1>6, <1>7, <2>1, <2>2
<1> QED
  BY <1>8 DEF new

\* An Undo Plan is made when no other attempt is alive, from what is left.
LEMMA UndoFits ==
    ASSUME UndoInv, NEW n \in DOMAIN plans, UndoAllowed(n), ReadyUndo(n) = {}
    PROVE  Fits(NewPlan("undo", n, plans[n].policy, UndoActions(n)))
<1> DEFINE left == Succeeded(n) \ Reversed(n)
           new == Inverses(n, LastFirst(left))
           q == NewPlan("undo", n, plans[n].policy, new)
<1>1. left \subseteq Int /\ IsFiniteSet(left)
  <2>1. AreActions(plans[n].actions)
    BY DEF UndoInv, PlansAreStored
  <2>2. Succeeded(n) \subseteq Int /\ IsFiniteSet(Succeeded(n))
    BY <2>1 DEF Succeeded, ActionsOf, AreActions
  <2>3. left \in SUBSET Succeeded(n)
    OBVIOUS
  <2> QED
    BY <2>2, <2>3, FS_Subset
<1>2. /\ Cardinality(left) \in Nat
      /\ \A k \in 1 .. Cardinality(left) : LastFirst(left)[k] \in left
  BY <1>1, LastFirstTakes
<1>3. Len(LastFirst(left)) = Cardinality(left)
  BY <1>2 DEF LastFirst
<1>4. /\ AreActions(new) /\ DOMAIN new = 1 .. Cardinality(left)
      /\ \A k \in DOMAIN new : new[k].event = "none" /\ new[k].reverses = LastFirst(left)[k]
  <2> DEFINE order == LastFirst(left)
             size == Cardinality(left)
  <2>1. size \in Nat /\ Len(order) = size
    BY <1>2, <1>3
  <2> HIDE DEF order, size
  <2>2. /\ AreActions(Inverses(n, order)) /\ DOMAIN Inverses(n, order) = 1 .. size
        /\ \A k \in 1 .. size : /\ Inverses(n, order)[k].event = "none"
                                /\ Inverses(n, order)[k].reverses = order[k]
    BY <2>1, NewInverses
  <2> QED
    BY <2>2 DEF order, size
<1>5. \A k \in DOMAIN new : new[k].reverses \in left
  BY <1>2, <1>4
<1>6. \A m \in DOMAIN plans : plans[m].type = "undo" /\ plans[m].from = n =>
          /\ plans[m].status \notin Alive
          /\ \A k \in DOMAIN new : ~HasReversed(m, new[k].reverses)
  <2> SUFFICES ASSUME NEW m \in DOMAIN plans, plans[m].type = "undo", plans[m].from = n
               PROVE  /\ plans[m].status \notin Alive
                      /\ \A k \in DOMAIN new : ~HasReversed(m, new[k].reverses)
    OBVIOUS
  <2>1. m \in Attempts(n)
    BY DEF Attempts
  <2>2. plans[m].status \notin Alive
    BY <2>1 DEF UndoAllowed, ReadyUndo, Alive
  <2>3. \A i \in left : ~HasReversed(m, i)
    BY <2>1, ReversedMeans DEF Reversed
  <2> QED
    BY <1>5, <2>2, <2>3
<1>7. /\ \A k \in DOMAIN new :
            /\ new[k].op = "move" /\ new[k].status # "applied" /\ new[k].reverses \in Succeeded(n)
            /\ \A l \in DOMAIN new : new[l].reverses = new[k].reverses => l = k
            /\ \A i : Followed(n, i, new[k].reverses) =>
                  \/ WasReversed(n, i)
                  \/ \E l \in DOMAIN new : l \in new[k].deps /\ new[l].reverses = i
      /\ plans[n].status \in Settled
  <2>1. new = UndoActions(n)
    BY DEF UndoActions
  <2> HIDE DEF new
  <2> QED
    BY <2>1, InversesWait DEF UndoAllowed
<1>8. NewPlan("undo", n, plans[n].policy, UndoActions(n)) = q
  BY DEF UndoActions
<1> HIDE DEF new
<1>9. IsPlan(q) /\ q.type = "undo" /\ q.from = n /\ q.actions = new /\ q.status = "ready"
  BY DEF NewPlan, IsPlan
<1> HIDE DEF q
<1>10. Inverts(q)
  BY <1>6, <1>7, <1>9 DEF Inverts
<1> QED
  BY <1>4, <1>8, <1>9, <1>10 DEF Fits

\* What a planner is about to save fits the Plans there are.
LEMMA JudgesKeep ==
    ASSUME LibraryInv,
           JudgeAdd \/ JudgeRefresh \/ JudgeOrganize \/ \E n \in DOMAIN plans : JudgeUndo(n)
    PROVE  LibraryInv'
<1>1. PICK saved, t, a, l :
         /\ work' = [pc |-> "save", saved |-> saved, tracks |-> t, assets |-> a, library |-> l,
                     late |-> {}]
         /\ plans' = plans
         /\ saved = <<>> \/ \E q : saved = <<q>> /\ Fits(q)
  <2>1. CASE JudgeAdd
    BY <2>1, NewPlanFits DEF JudgeAdd, Judged, rows
  <2>2. CASE JudgeRefresh
    BY <2>2, NewPlanFits DEF JudgeRefresh, Judged, RefreshActions, rows
  <2>3. CASE JudgeOrganize
    <3>1. PICK cands, t, a, l :
             /\ work' = [Judged(IF Actions(cands) = <<>> THEN <<>>
                                ELSE <<NewPlan("organize", 0, work.policy, Actions(cands))>>)
                            EXCEPT !.tracks = t, !.assets = a, !.library = l]
             /\ plans' = plans
      BY <2>3 DEF JudgeOrganize, OrganizeActions, rows
    <3>2. Fits(NewPlan("organize", 0, work.policy, Actions(cands)))
      BY NewPlanFits
    <3> DEFINE q == NewPlan("organize", 0, work.policy, Actions(cands))
               some == IF Actions(cands) = <<>> THEN <<>> ELSE <<q>>
    <3>3. some = <<>> \/ (some = <<q>> /\ Fits(q))
      BY <3>2
    <3> HIDE DEF q, some
    <3>4. work' = [pc |-> "save", saved |-> some, tracks |-> t, assets |-> a, library |-> l,
                   late |-> {}]
      BY <3>1 DEF Judged, some, q
    <3> QED
      BY <3>1, <3>3, <3>4
  <2>4. CASE \E n \in DOMAIN plans : JudgeUndo(n)
    <3>1. PICK n \in DOMAIN plans : JudgeUndo(n)
      BY <2>4
    <3>2. Fits(NewPlan("undo", n, plans[n].policy, UndoActions(n)))
      BY <3>1, UndoFits DEF JudgeUndo, LibraryInv
    <3> QED
      BY <3>1, <3>2 DEF JudgeUndo, Judged, rows
  <2> QED
    BY <2>1, <2>2, <2>3, <2>4
<1>2. UndoInv'
  BY <1>1, UndoKept DEF LibraryInv
<1>3. saved = <<>> \/ \E q : saved = <<q>> /\ Fits(q)'
  BY <1>1, FitsKept
<1> QED
  BY <1>1, <1>2, <1>3 DEF LibraryInv, LockIsHeld

\* Saving adds what was judged, if anything.
LEMMA Saves ==
    ASSUME LibraryInv, Save
    PROVE  plans' = plans \/ \E q : Fits(q) /\ plans' = Append(plans, q)
<1>1. PICK S : plans \in Seq(S)
  BY DEF LibraryInv, UndoInv, PlansAreStored
<1>2. plans' = plans \o work.saved /\ work.pc = "save" /\ work # Idle
  BY DEF Save, Idle
<1>3. work.saved = <<>> \/ \E q : work.saved = <<q>> /\ Fits(q)
  BY <1>2 DEF LibraryInv, LockIsHeld
<1>4. CASE work.saved = <<>>
  <2>1. plans \o <<>> = plans
    BY <1>1
  <2> QED
    BY <1>2, <1>4, <2>1
<1>5. CASE \E q : work.saved = <<q>> /\ Fits(q)
  <2>1. PICK q : work.saved = <<q>> /\ Fits(q)
    BY <1>5
  <2>2. plans \o <<q>> = Append(plans, q)
    BY <1>1
  <2> QED
    BY <1>2, <2>1, <2>2
<1> QED
  BY <1>3, <1>4, <1>5

LEMMA SaveKeeps == ASSUME LibraryInv, Save PROVE LibraryInv'
<1>1. UndoInv'
  BY Saves, UndoKept, Addition DEF LibraryInv
<1> QED
  BY <1>1 DEF Save, LibraryInv, LockIsHeld

\* Cancelling and claiming change the status of a ready Plan.
LEMMA ReviewKeeps ==
    ASSUME LibraryInv, NEW n \in DOMAIN plans, Cancel(n) \/ Claim(n)
    PROVE  LibraryInv'
<1>1. plans[n].status = "ready" /\ IsPlan(plans[n]) /\ AreActions(plans[n].actions)
  BY DEF Cancel, Claim, LibraryInv, UndoInv, PlansAreStored
<1>2. ASSUME NEW status, plans' = [plans EXCEPT ![n].status = status]
      PROVE  UndoInv' /\ DOMAIN plans' = DOMAIN plans /\ plans'[n].status = status
             /\ \A m \in DOMAIN plans \ {n} : plans'[m] = plans[m]
  <2> DEFINE q == [plans[n] EXCEPT !.status = status]
  <2>1. /\ IsPlan(q) /\ q.type = plans[n].type /\ q.from = plans[n].from
        /\ q.actions = plans[n].actions /\ q.status = status
    BY <1>1 DEF IsPlan
  <2>2. plans' = [plans EXCEPT ![n] = q]
    BY <1>2
  <2> HIDE DEF q
  <2>3. UndoInv'
    BY <1>1, <2>1, <2>2, Rewrite DEF LibraryInv, Open, ActionsOf
  <2> QED
    BY <2>1, <2>2, <2>3
<1>3. CASE Cancel(n)
  <2>1. plans' = [plans EXCEPT ![n].status = "cancelled"] /\ work' = Idle
    BY <1>3 DEF Cancel
  <2> QED
    BY <1>2, <2>1 DEF LibraryInv, LockIsHeld
<1>4. CASE Claim(n)
  <2>1. /\ plans' = [plans EXCEPT ![n].status = "applying"]
        /\ work' = [pc |-> "apply", plan |-> n]
    BY <1>4 DEF Claim
  <2> QED
    BY <1>2, <2>1 DEF LibraryInv, LockIsHeld
<1> QED
  BY <1>3, <1>4

\* Whatever an action ends with, only this Plan's outcomes change.
LEMMA EndedKeeps ==
    ASSUME LibraryInv, work.pc = "apply", NEW i \in ActionsOf(work.plan),
           NEW status, NEW event, NEW track, Ended(i, status, event, track), work' = work
    PROVE  LibraryInv'
<1>1. PICK n \in DOMAIN plans : n = work.plan
  BY ApplyHolds
<1>2. /\ plans[n].status = "applying" /\ IsPlan(plans[n]) /\ AreActions(plans[n].actions)
      /\ i \in DOMAIN plans[n].actions
  BY <1>1, ApplyHolds DEF ActionsOf
<1> DEFINE b == [plans[n].actions[i] EXCEPT !.status = status, !.event = event, !.track = track]
           list == [plans[n].actions EXCEPT ![i] = b]
           q == [plans[n] EXCEPT !.actions = list]
<1>3. IsAction(b) /\ b.reverses = plans[n].actions[i].reverses
  <2>1. PICK a : a = plans[n].actions[i]
    OBVIOUS
  <2>2. IsAction(a)
    BY <1>2, <2>1 DEF AreActions
  <2> DEFINE c == [a EXCEPT !.status = status, !.event = event, !.track = track]
  <2>3. \A x, y, z : IsAction([a EXCEPT !.status = x, !.event = y, !.track = z])
                    /\ [a EXCEPT !.status = x, !.event = y, !.track = z].reverses = a.reverses
    BY <2>2, ActionEnds, Zenon
  <2>4. IsAction(c) /\ c.reverses = a.reverses
    BY <2>3, Zenon
  <2> QED
    BY <2>1, <2>4
<1>4. plans' = [plans EXCEPT ![n] = q]
  BY <1>1 DEF Ended
<1> HIDE DEF b
<1>5. /\ AreActions(list) /\ DOMAIN list = DOMAIN plans[n].actions
      /\ \A j \in DOMAIN list : list[j].reverses = plans[n].actions[j].reverses
  BY <1>2, <1>3, ActionReplaced
<1> HIDE DEF list
<1>6. /\ IsPlan(q) /\ q.type = plans[n].type /\ q.from = plans[n].from
      /\ q.actions = list /\ q.status = "applying"
  BY <1>2 DEF IsPlan
<1> HIDE DEF q
<1>7. UndoInv'
  BY <1>2, <1>4, <1>5, <1>6, Rewrite DEF LibraryInv, Open, ActionsOf
<1>8. n \in DOMAIN plans' /\ plans'[n].status = "applying"
  BY <1>4, <1>6
<1> QED
  BY <1>1, <1>7, <1>8 DEF LibraryInv, LockIsHeld

\* Every way an action of the claimed Plan ends, but for a crash.
LEMMA PerformKeeps ==
    ASSUME LibraryInv, NEW i \in ActionsOf(work.plan), work.pc = "apply",
           Skip(i) \/ Refuse(i) \/ RefreshTrack(i) \/ FailMove(i) \/ Move(i)
    PROVE  LibraryInv'
<1>1. work' = work
  BY DEF Skip, Refuse, RefreshTrack, FailMove, Move
<1>2. \E status, event, track : Ended(i, status, event, track)
  BY DEF Skip, Refuse, RefreshTrack, FailMove, Move
<1> QED
  BY <1>1, <1>2, EndedKeeps

\* The end of an Apply, also the one a reconciliation writes after a crash.
LEMMA EndKeeps ==
    ASSUME LibraryInv, NEW n \in DOMAIN plans, plans[n].status = "applying", work' = Idle,
           NEW q, plans' = [plans EXCEPT ![n] = q],
           IsPlan(q), q.type = plans[n].type, q.from = plans[n].from, AreActions(q.actions),
           DOMAIN q.actions = DOMAIN plans[n].actions,
           \A i \in DOMAIN q.actions : q.actions[i].reverses = plans[n].actions[i].reverses
    PROVE  LibraryInv'
<1>1. UndoInv'
  BY Rewrite DEF LibraryInv, Open, ActionsOf
<1> QED
  BY <1>1 DEF LibraryInv, LockIsHeld

LEMMA FinishKeeps == ASSUME LibraryInv, Finish PROVE LibraryInv'
<1>1. PICK n \in DOMAIN plans :
         /\ n = work.plan /\ plans[n].status = "applying"
         /\ IsPlan(plans[n]) /\ AreActions(plans[n].actions)
  BY ApplyHolds DEF Finish
<1>2. PICK verdict : verdict = Verdict(plans[n].actions)
  OBVIOUS
<1> DEFINE q == [plans[n] EXCEPT !.status = verdict]
<1>3. plans' = [plans EXCEPT ![n] = q] /\ work' = Idle
  BY <1>1, <1>2 DEF Finish
<1>4. /\ IsPlan(q) /\ q.type = plans[n].type /\ q.from = plans[n].from
      /\ q.actions = plans[n].actions
  BY <1>1 DEF IsPlan
<1> HIDE DEF q
<1> QED
  BY <1>1, <1>3, <1>4, EndKeeps

LEMMA CrashKeeps == ASSUME LibraryInv, Crash PROVE LibraryInv'
<1>1. CASE work.pc = "apply"
  <2>1. PICK n \in DOMAIN plans :
           /\ n = work.plan /\ plans[n].status = "applying"
           /\ IsPlan(plans[n]) /\ AreActions(plans[n].actions)
    BY <1>1, ApplyHolds
  <2> DEFINE q == Reconciled(plans[n])
  <2>2. plans' = [plans EXCEPT ![n] = q] /\ work' = Idle
    BY <1>1, <2>1 DEF Crash
  <2>3. /\ IsPlan(q) /\ q.type = plans[n].type /\ q.from = plans[n].from
        /\ AreActions(q.actions) /\ DOMAIN q.actions = DOMAIN plans[n].actions
        /\ \A i \in DOMAIN q.actions : q.actions[i].reverses = plans[n].actions[i].reverses
    BY <2>1, ReconciledKeeps
  <2> HIDE DEF q
  <2> QED
    BY <2>1, <2>2, <2>3, EndKeeps
<1>2. CASE work.pc # "apply"
  <2>1. plans' = plans /\ work' = Idle
    BY <1>2 DEF Crash
  <2> QED
    BY <2>1, UndoKept DEF LibraryInv, LockIsHeld
<1> QED
  BY <1>1, <1>2

\* The pending event a crash leaves behind reverses nothing.
LEMMA CrashInMoveKeeps ==
    ASSUME LibraryInv, work.pc = "apply", NEW i \in ActionsOf(work.plan), CrashInMove(i)
    PROVE  LibraryInv'
<1>1. PICK n \in DOMAIN plans :
         /\ n = work.plan /\ plans[n].status = "applying"
         /\ IsPlan(plans[n]) /\ AreActions(plans[n].actions) /\ i \in DOMAIN plans[n].actions
  BY ApplyHolds DEF ActionsOf
<1> DEFINE b == [plans[n].actions[i] EXCEPT !.event = "pending"]
           list == [plans[n].actions EXCEPT ![i] = b]
           p == [plans[n] EXCEPT !.actions = list]
           q == Reconciled(p)
<1>2. p = [plans[n] EXCEPT !.actions[i].event = "pending"]
  OBVIOUS
<1>3. plans' = [plans EXCEPT ![n] = q] /\ work' = Idle
  BY <1>1, <1>2 DEF CrashInMove
<1>4. IsAction(b) /\ b.reverses = plans[n].actions[i].reverses
  <2>1. IsAction(plans[n].actions[i])
    BY <1>1 DEF AreActions
  <2> QED
    BY <2>1 DEF IsAction
<1> HIDE DEF b
<1>5. /\ AreActions(list) /\ DOMAIN list = DOMAIN plans[n].actions
      /\ \A j \in DOMAIN list : list[j].reverses = plans[n].actions[j].reverses
  BY <1>1, <1>4, ActionReplaced
<1> HIDE DEF list
<1>6. IsPlan(p) /\ p.type = plans[n].type /\ p.from = plans[n].from /\ p.actions = list
  BY <1>1 DEF IsPlan
<1> HIDE DEF p
<1>7. /\ IsPlan(q) /\ q.type = plans[n].type /\ q.from = plans[n].from
      /\ AreActions(q.actions) /\ DOMAIN q.actions = DOMAIN plans[n].actions
      /\ \A j \in DOMAIN q.actions : q.actions[j].reverses = plans[n].actions[j].reverses
  BY <1>5, <1>6, ReconciledKeeps
<1> HIDE DEF q
<1> QED
  BY <1>1, <1>3, <1>7, EndKeeps

\* A planner that reads, and everybody else, leaves the Plans alone.
LEMMA OthersKeep ==
    ASSUME LibraryInv,
           \/ \E kind, scope : StartPlan(kind, scope)
           \/ Capture \/ ReadInventory
           \/ \E e : Edit(e)
           \/ \E naming : ChangePolicy(naming)
           \/ UNCHANGED vars
    PROVE  LibraryInv'
<1>1. plans' = plans
  BY DEF StartPlan, Capture, ReadInventory, Edit, ChangePolicy, vars, rows
<1>2. LockIsHeld'
  <2>1. CASE work' = work
    BY <1>1, <2>1, LockKept DEF LibraryInv
  <2>5. CASE \E e : Edit(e) /\ work' # work
    <3>1. PICK e : work.pc = "save" /\ work' = [work EXCEPT !.late = @ \cup {e.path}]
      BY <2>5 DEF Edit
    <3>2. /\ work = [pc |-> "save", saved |-> work.saved, tracks |-> work.tracks,
                     assets |-> work.assets, library |-> work.library, late |-> work.late]
          /\ work.saved = <<>> \/ \E q : work.saved = <<q>> /\ Fits(q)
      BY <3>1 DEF LibraryInv, LockIsHeld, Idle
    <3>3. PICK late : work' = [work EXCEPT !.late = late]
      BY <3>1
    <3>4. /\ work' = [pc |-> "save", saved |-> work.saved, tracks |-> work.tracks,
                      assets |-> work.assets, library |-> work.library, late |-> late]
      BY <3>2, <3>3
    <3>5. work.saved = <<>> \/ \E q : work.saved = <<q>> /\ Fits(q)'
      BY <1>1, <3>2, FitsKept
    <3> QED
      BY <3>4, <3>5 DEF LockIsHeld
  <2>2. CASE \E kind, scope : StartPlan(kind, scope)
    BY <2>2 DEF StartPlan, LockIsHeld
  <2>3. CASE Capture
    <3>1. work.pc = "capture"
      BY <2>3 DEF Capture
    <3>2. work = [pc |-> work.pc, kind |-> work.kind, policy |-> work.policy,
                  scope |-> work.scope, recoverable |-> work.recoverable,
                  listed |-> work.listed, seen |-> work.seen, inventory |-> work.inventory]
      BY <3>1 DEF LibraryInv, LockIsHeld, Idle
    <3>3. PICK seen : work' = [work EXCEPT !.pc = "inventory", !.seen = seen]
      BY <2>3 DEF Capture
    <3> QED
      BY <3>2, <3>3 DEF LockIsHeld
  <2>4. CASE ReadInventory
    <3>1. work.pc = "inventory"
      BY <2>4 DEF ReadInventory
    <3>2. work = [pc |-> work.pc, kind |-> work.kind, policy |-> work.policy,
                  scope |-> work.scope, recoverable |-> work.recoverable,
                  listed |-> work.listed, seen |-> work.seen, inventory |-> work.inventory]
      BY <3>1 DEF LibraryInv, LockIsHeld, Idle
    <3>3. PICK found : work' = [work EXCEPT !.pc = "judge", !.inventory = found]
      BY <2>4 DEF ReadInventory
    <3> QED
      BY <3>2, <3>3 DEF LockIsHeld
  <2> QED
    BY <2>1, <2>2, <2>3, <2>4, <2>5 DEF ChangePolicy, vars
<1> QED
  BY <1>1, <1>2, UndoKept DEF LibraryInv

LEMMA LibraryStep == LibraryInv /\ [Next]_vars => LibraryInv'
<1> SUFFICES ASSUME LibraryInv, [Next]_vars PROVE LibraryInv'
  OBVIOUS
<1>1. CASE Perform
  <2>1. work.pc = "apply" /\ \E i \in ActionsOf(work.plan) :
           Skip(i) \/ Refuse(i) \/ RefreshTrack(i) \/ FailMove(i) \/ Move(i) \/ CrashInMove(i)
    BY <1>1 DEF Perform
  <2> QED
    BY <2>1, PerformKeeps, CrashInMoveKeeps
<1>2. CASE \E n \in DOMAIN plans : JudgeUndo(n) \/ Cancel(n) \/ Claim(n)
  BY <1>2, JudgesKeep, ReviewKeeps
<1>3. CASE JudgeAdd \/ JudgeRefresh \/ JudgeOrganize \/ Save
  BY <1>3, JudgesKeep, SaveKeeps
<1>4. CASE Finish \/ Crash
  BY <1>4, FinishKeeps, CrashKeeps
<1>5. CASE \/ \E scope \in world.scopes : StartPlan("refresh", scope)
           \/ \E kind \in {"add", "organize"} : StartPlan(kind, {})
           \/ Capture \/ ReadInventory
           \/ \E e \in world.edits : Edit(e)
           \/ \E naming \in world.policies : ChangePolicy(naming)
           \/ UNCHANGED vars
  BY <1>5, OthersKeep
<1> QED
  BY <1>1, <1>2, <1>3, <1>4, <1>5 DEF Next

LEMMA LibraryStarts == Init => LibraryInv
<1> SUFFICES ASSUME Init PROVE LibraryInv
  OBVIOUS
<1>1. plans = <<>> /\ work = Idle
  BY DEF Init
<1>2. DOMAIN plans = {} /\ plans \in Seq({})
  BY <1>1
<1>3. PlansAreStored
  BY <1>2 DEF PlansAreStored
<1>4. \A m, k : ~Rivals(m, k)
  BY <1>2 DEF Rivals
<1> QED
  BY <1>1, <1>3, <1>4 DEF LibraryInv, UndoInv, LockIsHeld, OneAlive, OpenIsFresh, NoneTwice

-----------------------------------------------------------------------------

\* A set any two elements of which are equal has one element at most.
LEMMA AtMostOne ==
    ASSUME NEW S, \A x, y \in S : x = y
    PROVE  Cardinality(S) <= 1
<1>1. CASE S = {}
  BY <1>1, FS_EmptySet
<1>2. CASE S # {}
  <2>1. PICK x \in S : S = {x}
    BY <1>2
  <2> QED
    BY <2>1, FS_Singleton
<1> QED
  BY <1>1, <1>2

\* No event is reversed twice and no Run has two live Undo Plans, whichever
\* Plans are made, cancelled, applied, retried after partial failures or cut off
\* by crashes, in any Library with any policies.
THEOREM NothingIsReversedTwice == Spec => []ReversedOnce
<1>1. LibraryInv => ReversedOnce
  <2> SUFFICES ASSUME LibraryInv, NEW n \in DOMAIN plans
               PROVE  /\ Cardinality({m \in Attempts(n) : plans[m].status \in Alive}) <= 1
                      /\ \A i \in ActionsOf(n) :
                            Cardinality({m \in Attempts(n) : i \in ReversedBy({m})}) <= 1
    BY DEF ReversedOnce, Alive
  <2>1. \A m, k \in Attempts(n) : m # k => Rivals(m, k)
    BY DEF Attempts, Rivals
  <2>2. Cardinality({m \in Attempts(n) : plans[m].status \in Alive}) <= 1
    BY <2>1, AtMostOne DEF LibraryInv, UndoInv, OneAlive
  <2>3. ASSUME NEW i \in ActionsOf(n)
        PROVE  Cardinality({m \in Attempts(n) : i \in ReversedBy({m})}) <= 1
    <3>1. \A m : i \in ReversedBy({m}) => HasReversed(m, i)
      BY ReversedMeans
    <3>2. \A m, k \in {x \in Attempts(n) : i \in ReversedBy({x})} : m = k
      BY <2>1, <3>1 DEF LibraryInv, UndoInv, NoneTwice
    <3> QED
      BY <3>2, AtMostOne
  <2> QED
    BY <2>2, <2>3
<1> QED
  BY <1>1, LibraryStarts, LibraryStep, PTL DEF Spec

-----------------------------------------------------------------------------
(* What is undone first.                                                    *)

\* Action i of a list ends as new: it is due no more, and it moved its file only
\* after everything it depends on was applied.
Settles(actions, i, new) ==
    LET a == actions[i] IN
    /\ new.reverses = a.reverses /\ new.deps = a.deps /\ new.op = a.op
    /\ a.status = "planned" /\ new.status # "planned"
    /\ new.event = "succeeded" /\ a.event # "succeeded" => \A d \in a.deps : actions[d].status = "applied"
    /\ a.event = "succeeded" => new.event = "succeeded"
    /\ new.status = "applied" /\ a.op = "move" => new.event = "succeeded"

\* Plan n becomes q, in which action i has moved its file.
Moves(n, q, i) == q.actions[i].event = "succeeded" /\ plans[n].actions[i].event # "succeeded"

\* Plan n, which is open, becomes q: some of its actions have ended, and at most
\* one, while the Plan goes on, has moved a file.
Progresses(n, q) ==
    /\ plans[n].status \in Open
    /\ plans' = [plans EXCEPT ![n] = q]
    /\ q.type = plans[n].type /\ q.from = plans[n].from
    /\ DOMAIN q.actions = ActionsOf(n)
    /\ \A i \in ActionsOf(n) : \/ q.actions[i] = plans[n].actions[i]
                               \/ Settles(plans[n].actions, i, q.actions[i])
    /\ \A i \in ActionsOf(n) : Moves(n, q, i) =>
          q.status = plans[n].status /\ \A j \in ActionsOf(n) : Moves(n, q, j) => j = i

\* Everything the steps do to the Plans.
PlansMove ==
    \/ plans' = plans
    \/ \E n \in DOMAIN plans : \E q : Progresses(n, q)
    \/ \E q : Fits(q) /\ plans' = Append(plans, q)

\* What is due has not moved; an inverse is a move, applied once it has.
OutcomesAgree ==
    \A n \in DOMAIN plans : \A i \in ActionsOf(n) :
        LET a == plans[n].actions[i] IN
        /\ a.status = "planned" => a.event # "succeeded"
        /\ plans[n].type = "undo" => a.op = "move" /\ (a.status = "applied" => a.event = "succeeded")

\* Only what has settled is undone.
SourcesAreSettled ==
    \A m \in DOMAIN plans : plans[m].type = "undo" =>
        plans[m].from \in DOMAIN plans /\ plans[plans[m].from].status \in Settled

LeaveFirst ==
    \A n \in DOMAIN plans : \A i, d : Followed(n, i, d) /\ WasReversed(n, d) => WasReversed(n, i)

\* An open Undo Plan reverses what followed first, unless that is reversed.
OpenInOrder ==
    \A m \in DOMAIN plans : plans[m].type = "undo" /\ plans[m].status \in Open =>
        \A j \in ActionsOf(m) : \A i : Followed(plans[m].from, i, plans[m].actions[j].reverses) =>
            \/ WasReversed(plans[m].from, i)
            \/ \E k \in ActionsOf(m) : k \in plans[m].actions[j].deps /\ plans[m].actions[k].reverses = i

\* An Undo Plan takes what its source moved, each once.
InversesFit ==
    \A m \in DOMAIN plans : plans[m].type = "undo" =>
        \A j \in ActionsOf(m) :
            /\ plans[m].actions[j].reverses \in Succeeded(plans[m].from)
            /\ \A k \in ActionsOf(m) :
                  plans[m].actions[k].reverses = plans[m].actions[j].reverses => k = j

OrderInv == OutcomesAgree /\ SourcesAreSettled /\ InversesFit /\ LeaveFirst /\ OpenInOrder


\* A step that leaves the Plans alone leaves the facts about them alone.
LEMMA OrderKept == ASSUME OrderInv, plans' = plans PROVE OrderInv'
BY DEF OrderInv, OutcomesAgree, SourcesAreSettled, InversesFit, LeaveFirst, OpenInOrder,
       Followed, WasReversed, HasReversed, ActionsOf, Succeeded

\* What an open Plan that progresses keeps.
LEMMA ProgressKeeps ==
    ASSUME UndoInv, OrderInv, NEW n \in DOMAIN plans, NEW q, Progresses(n, q)
    PROVE  /\ DOMAIN plans' = DOMAIN plans /\ plans'[n] = q
           /\ \A k \in DOMAIN plans \ {n} : plans'[k] = plans[k]
           /\ \A k \in DOMAIN plans : /\ ActionsOf(k)' = ActionsOf(k)
                                      /\ plans'[k].type = plans[k].type /\ plans'[k].from = plans[k].from
           /\ \A k \in DOMAIN plans : \A i \in ActionsOf(k) :
                 /\ plans'[k].actions[i].reverses = plans[k].actions[i].reverses
                 /\ plans'[k].actions[i].deps = plans[k].actions[i].deps
                 /\ plans'[k].actions[i].op = plans[k].actions[i].op
                 /\ plans[k].actions[i].event = "succeeded" => plans'[k].actions[i].event = "succeeded"
           /\ \A m \in DOMAIN plans : plans[m].type = "undo" => plans[m].from \in DOMAIN plans \ {n}
<1>1. /\ DOMAIN plans' = DOMAIN plans /\ plans'[n] = q
      /\ \A k \in DOMAIN plans \ {n} : plans'[k] = plans[k]
  BY DEF UndoInv, PlansAreStored, Progresses
<1>2. /\ \A k \in DOMAIN plans : /\ ActionsOf(k)' = ActionsOf(k)
                                 /\ plans'[k].type = plans[k].type /\ plans'[k].from = plans[k].from
      /\ \A k \in DOMAIN plans : \A i \in ActionsOf(k) :
            /\ plans'[k].actions[i].reverses = plans[k].actions[i].reverses
            /\ plans'[k].actions[i].deps = plans[k].actions[i].deps
            /\ plans'[k].actions[i].op = plans[k].actions[i].op
            /\ plans[k].actions[i].event = "succeeded" => plans'[k].actions[i].event = "succeeded"
  BY <1>1 DEF ActionsOf, Progresses, Settles
<1>3. \A m \in DOMAIN plans : plans[m].type = "undo" => plans[m].from \in DOMAIN plans \ {n}
  BY DEF OrderInv, SourcesAreSettled, Progresses, Open, Settled
<1> QED
  BY <1>1, <1>2, <1>3

\* The actions of an open Plan end: those of an Undo Plan in its order.
LEMMA OrderProgresses ==
    ASSUME UndoInv, OrderInv, NEW n \in DOMAIN plans, NEW q, Progresses(n, q)
    PROVE  OrderInv'
<1>1. /\ DOMAIN plans' = DOMAIN plans /\ plans'[n] = q
      /\ \A k \in DOMAIN plans \ {n} : plans'[k] = plans[k]
  BY ProgressKeeps
<1>2. /\ \A k \in DOMAIN plans : /\ ActionsOf(k)' = ActionsOf(k)
                                 /\ plans'[k].type = plans[k].type /\ plans'[k].from = plans[k].from
      /\ \A k \in DOMAIN plans : \A i \in ActionsOf(k) :
            /\ plans'[k].actions[i].reverses = plans[k].actions[i].reverses
            /\ plans'[k].actions[i].deps = plans[k].actions[i].deps
            /\ plans'[k].actions[i].op = plans[k].actions[i].op
            /\ plans[k].actions[i].event = "succeeded" => plans'[k].actions[i].event = "succeeded"
  BY ProgressKeeps
<1>3. \A m \in DOMAIN plans : plans[m].type = "undo" => plans[m].from \in DOMAIN plans \ {n}
  BY ProgressKeeps
<1>4. \A m, i : m \in DOMAIN plans /\ HasReversed(m, i) => HasReversed(m, i)'
  BY <1>2 DEF HasReversed
<1>5. \A k, i : WasReversed(k, i) => WasReversed(k, i)'
  BY <1>1, <1>2, <1>4 DEF WasReversed
<1>6. \A k \in DOMAIN plans \ {n} : \A i, d : Followed(k, i, d)' <=> Followed(k, i, d)
  BY <1>1 DEF Followed, ActionsOf
<1>7. OutcomesAgree'
  <2> SUFFICES ASSUME NEW k \in DOMAIN plans, NEW i \in ActionsOf(k)
               PROVE  LET a == plans'[k].actions[i] IN
                      /\ a.status = "planned" => a.event # "succeeded"
                      /\ plans'[k].type = "undo" =>
                            a.op = "move" /\ (a.status = "applied" => a.event = "succeeded")
    BY <1>1, <1>2 DEF OutcomesAgree
  <2>1. CASE plans'[k].actions[i] = plans[k].actions[i]
    BY <1>2, <2>1 DEF OrderInv, OutcomesAgree
  <2>2. CASE plans'[k].actions[i] # plans[k].actions[i]
    <3>1. k = n /\ Settles(plans[n].actions, i, plans'[n].actions[i])
      BY <1>1, <2>2 DEF Progresses
    <3> QED
      BY <1>2, <3>1 DEF OrderInv, OutcomesAgree, Settles
  <2> QED
    BY <2>1, <2>2
<1>8. SourcesAreSettled'
  <2> SUFFICES ASSUME NEW m \in DOMAIN plans, plans[m].type = "undo"
               PROVE  plans[m].from \in DOMAIN plans /\ plans'[plans[m].from].status \in Settled
    BY <1>1, <1>2 DEF SourcesAreSettled
  <2> QED
    BY <1>1, <1>3 DEF OrderInv, SourcesAreSettled
<1>9. LeaveFirst'
  <2> SUFFICES ASSUME NEW s \in DOMAIN plans, NEW i, NEW d, Followed(s, i, d)', WasReversed(s, d)'
               PROVE  WasReversed(s, i)'
    BY <1>1 DEF LeaveFirst
  <2>1. PICK m \in DOMAIN plans : plans[m].type = "undo" /\ plans[m].from = s /\ HasReversed(m, d)'
    BY <1>1, <1>2 DEF WasReversed
  <2>2. Followed(s, i, d)
    BY <1>3, <1>6, <2>1
  <2>3. CASE HasReversed(m, d)
    BY <1>5, <2>1, <2>2, <2>3 DEF OrderInv, LeaveFirst, WasReversed
  <2>4. CASE ~HasReversed(m, d)
    <3>1. PICK j \in ActionsOf(m) : /\ plans'[m].actions[j].event = "succeeded"
                                    /\ plans[m].actions[j].event # "succeeded"
                                    /\ plans[m].actions[j].reverses = d
      BY <1>2, <2>1, <2>4 DEF HasReversed
    <3>2. /\ m = n /\ plans[m].status \in Open
          /\ \A k \in plans[m].actions[j].deps : plans[m].actions[k].status = "applied"
      BY <1>1, <3>1 DEF Progresses, Settles
    <3>3. CASE WasReversed(s, i)
      BY <1>5, <3>3
    <3>4. CASE \E k \in ActionsOf(m) : k \in plans[m].actions[j].deps /\ plans[m].actions[k].reverses = i
      <4>1. PICK k \in ActionsOf(m) : k \in plans[m].actions[j].deps /\ plans[m].actions[k].reverses = i
        BY <3>4
      <4>2. plans[m].actions[k].event = "succeeded"
        BY <2>1, <3>2, <4>1 DEF OrderInv, OutcomesAgree
      <4>3. HasReversed(m, i)
        BY <4>1, <4>2 DEF HasReversed
      <4> QED
        BY <1>5, <2>1, <4>3 DEF WasReversed
    <3> QED
      BY <2>1, <2>2, <3>1, <3>2, <3>3, <3>4 DEF OrderInv, OpenInOrder
  <2> QED
    BY <2>3, <2>4
<1>10. OpenInOrder'
  <2> SUFFICES ASSUME NEW m \in DOMAIN plans, plans[m].type = "undo", plans'[m].status \in Open,
                      NEW j \in ActionsOf(m), NEW s, s = plans[m].from, NEW i,
                      Followed(s, i, plans[m].actions[j].reverses)
               PROVE  \/ WasReversed(s, i)
                      \/ \E k \in ActionsOf(m) : /\ k \in plans[m].actions[j].deps
                                                 /\ plans[m].actions[k].reverses = i
    <3>1. SUFFICES ASSUME NEW m \in DOMAIN plans, plans'[m].type = "undo", plans'[m].status \in Open,
                          NEW j \in ActionsOf(m)', NEW i,
                          Followed(plans[m].from, i, plans[m].actions[j].reverses)'
                   PROVE  \/ WasReversed(plans[m].from, i)'
                          \/ \E k \in ActionsOf(m)' : /\ k \in plans'[m].actions[j].deps
                                                      /\ plans'[m].actions[k].reverses = i
      BY <1>1 DEF OpenInOrder
    <3>2. PICK s, d : s = plans[m].from /\ d = plans[m].actions[j].reverses
      OBVIOUS
    <3>3. /\ j \in ActionsOf(m) /\ plans[m].type = "undo" /\ s \in DOMAIN plans \ {n}
          /\ plans'[m].from = s /\ plans'[m].actions[j].reverses = d
      BY <1>2, <1>3, <3>1, <3>2
    <3>4. Followed(s, i, d)'
      BY <3>1, <3>3
    <3>5. Followed(s, i, d)
      BY <1>6, <3>3, <3>4
    <3>6. \/ WasReversed(s, i)
          \/ \E k \in ActionsOf(m) : k \in plans[m].actions[j].deps /\ plans[m].actions[k].reverses = i
      BY <3>1, <3>2, <3>3, <3>5
    <3>7. WasReversed(s, i) => WasReversed(plans[m].from, i)'
      BY <1>5, <3>3
    <3> QED
      BY <1>2, <3>3, <3>6, <3>7
  <2>1. plans[m].status \in Open
    BY <1>1 DEF Progresses
  <2> QED
    BY <2>1 DEF OrderInv, OpenInOrder
<1>11. InversesFit'
  <2>1. \A k \in DOMAIN plans \ {n} : Succeeded(k)' = Succeeded(k)
    BY <1>1 DEF Succeeded, ActionsOf
  <2> SUFFICES ASSUME NEW m \in DOMAIN plans, plans[m].type = "undo", NEW j \in ActionsOf(m)
               PROVE  /\ plans[m].actions[j].reverses \in Succeeded(plans[m].from)'
                      /\ \A k \in ActionsOf(m) :
                            plans[m].actions[k].reverses = plans[m].actions[j].reverses => k = j
    BY <1>1, <1>2 DEF InversesFit
  <2>2. PICK s : s = plans[m].from /\ s \in DOMAIN plans \ {n} /\ plans'[m].from = s
    BY <1>2, <1>3
  <2>3. Succeeded(plans[m].from)' = Succeeded(s)
    BY <2>1, <2>2
  <2> QED
    BY <2>2, <2>3 DEF OrderInv, InversesFit
<1> QED
  BY <1>7, <1>8, <1>9, <1>10, <1>11 DEF OrderInv

\* What an added Plan changes: nothing that was done before.
LEMMA PlanAdded ==
    ASSUME UndoInv, NEW q, plans' = Append(plans, q)
    PROVE  \E new : /\ DOMAIN plans' = DOMAIN plans \cup {new} /\ new \notin DOMAIN plans
                    /\ plans'[new] = q
                    /\ \A k \in DOMAIN plans : plans'[k] = plans[k]
<1>0. PICK S : plans \in Seq(S)
  BY DEF UndoInv, PlansAreStored
<1>1. Len(plans) \in Nat /\ DOMAIN plans = 1 .. Len(plans)
  BY <1>0
<1>2. PICK new \in Nat : new = Len(plans) + 1
  BY <1>1
<1>3. plans \in Seq(S \cup {q})
  BY <1>0, SeqMonotonic
<1>4. /\ plans' \in Seq(S \cup {q}) /\ Len(plans') = new /\ plans'[new] = q
      /\ \A k \in 1 .. Len(plans) : plans'[k] = plans[k]
  BY <1>2, <1>3, AppendProperties
<1>5. DOMAIN plans' = 1 .. new
  BY <1>4
<1>6. DOMAIN plans' = DOMAIN plans \cup {new} /\ new \notin DOMAIN plans
  BY <1>1, <1>2, <1>5
<1> QED
  BY <1>1, <1>4, <1>6

\* A Plan is added. It has moved nothing; one that undoes a settled Plan has, for
\* each of its actions, the inverses of all that followed the action it reverses.
LEMMA OrderAddition ==
    ASSUME UndoInv, OrderInv, NEW q, Fits(q), plans' = Append(plans, q)
    PROVE  OrderInv'
<1> USE DEF Fits, Inverts
<1>1. PICK new : /\ DOMAIN plans' = DOMAIN plans \cup {new} /\ new \notin DOMAIN plans
                 /\ plans'[new] = q
                 /\ \A k \in DOMAIN plans : plans'[k] = plans[k]
  BY PlanAdded
<1>2. /\ \A k \in DOMAIN plans : ActionsOf(k)' = ActionsOf(k)
      /\ ActionsOf(new)' = DOMAIN q.actions
      /\ \A k \in DOMAIN plans : \A i : HasReversed(k, i)' <=> HasReversed(k, i)
      /\ \A i : ~HasReversed(new, i)'
  BY <1>1 DEF ActionsOf, HasReversed
<1>3. /\ \A k \in DOMAIN plans : \A i, d : Followed(k, i, d)' <=> Followed(k, i, d)
      /\ \A i, d : ~Followed(new, i, d)'
  BY <1>1, <1>2 DEF Followed
<1>4. \A k, i : WasReversed(k, i)' <=> WasReversed(k, i)
  BY <1>1, <1>2 DEF WasReversed
<1>5. OutcomesAgree'
  <2> SUFFICES ASSUME NEW k \in DOMAIN plans', NEW i \in ActionsOf(k)'
               PROVE  LET a == plans'[k].actions[i] IN
                      /\ a.status = "planned" => a.event # "succeeded"
                      /\ plans'[k].type = "undo" =>
                            a.op = "move" /\ (a.status = "applied" => a.event = "succeeded")
    BY DEF OutcomesAgree
  <2>1. CASE k = new
    BY <1>1, <1>2, <2>1
  <2>2. CASE k # new
    BY <1>1, <1>2, <2>2 DEF OrderInv, OutcomesAgree
  <2> QED
    BY <2>1, <2>2
<1>6. SourcesAreSettled'
  BY <1>1 DEF OrderInv, SourcesAreSettled
<1>7. LeaveFirst'
  BY <1>1, <1>3, <1>4 DEF OrderInv, LeaveFirst
<1>8. OpenInOrder'
  <2> SUFFICES ASSUME NEW m \in DOMAIN plans', plans'[m].type = "undo", plans'[m].status \in Open,
                      NEW j \in ActionsOf(m)', NEW i,
                      Followed(plans[m].from, i, plans[m].actions[j].reverses)'
               PROVE  \/ WasReversed(plans[m].from, i)'
                      \/ \E k \in ActionsOf(m)' : /\ k \in plans'[m].actions[j].deps
                                                  /\ plans'[m].actions[k].reverses = i
    BY DEF OpenInOrder
  <2>1. PICK s, d : s = plans'[m].from /\ d = plans'[m].actions[j].reverses
    OBVIOUS
  <2>2. s \in DOMAIN plans
    BY <1>1, <2>1 DEF OrderInv, SourcesAreSettled
  <2>3. Followed(s, i, d)'
    BY <2>1
  <2>4. \/ WasReversed(s, i)
        \/ \E k \in ActionsOf(m)' : k \in plans'[m].actions[j].deps /\ plans'[m].actions[k].reverses = i
    <3>1. CASE m = new
      BY <1>1, <1>2, <1>3, <2>1, <2>2, <2>3, <3>1
    <3>2. CASE m # new
      BY <1>1, <1>2, <1>3, <2>1, <2>2, <2>3, <3>2 DEF OrderInv, OpenInOrder
    <3> QED
      BY <3>1, <3>2
  <2>5. WasReversed(s, i) => WasReversed(plans[m].from, i)'
    BY <1>4, <2>1
  <2> QED
    BY <2>4, <2>5
<1>9. InversesFit'
  <2>1. \A k \in DOMAIN plans : Succeeded(k)' = Succeeded(k)
    BY <1>1 DEF Succeeded, ActionsOf
  <2> SUFFICES ASSUME NEW m \in DOMAIN plans', plans'[m].type = "undo", NEW j \in ActionsOf(m)'
               PROVE  /\ plans'[m].actions[j].reverses \in Succeeded(plans[m].from)'
                      /\ \A k \in ActionsOf(m)' :
                            plans'[m].actions[k].reverses = plans'[m].actions[j].reverses => k = j
    BY DEF InversesFit
  <2>2. PICK s : s = plans'[m].from /\ s \in DOMAIN plans
    BY <1>1 DEF OrderInv, SourcesAreSettled
  <2>3. Succeeded(plans[m].from)' = Succeeded(s)
    BY <2>1, <2>2
  <2>4. CASE m = new
    BY <1>1, <1>2, <2>2, <2>3, <2>4
  <2>5. CASE m # new
    BY <1>1, <1>2, <2>2, <2>3, <2>5 DEF OrderInv, InversesFit
  <2> QED
    BY <2>4, <2>5
<1> QED
  BY <1>5, <1>6, <1>7, <1>8, <1>9 DEF OrderInv

\* Whatever the steps do to the Plans, the order holds.
LEMMA OrderMoves == ASSUME UndoInv, OrderInv, PlansMove PROVE OrderInv'
<1>1. CASE plans' = plans
  BY <1>1, OrderKept
<1>2. CASE \E n \in DOMAIN plans : \E q : Progresses(n, q)
  BY <1>2, OrderProgresses
<1>3. CASE \E q : Fits(q) /\ plans' = Append(plans, q)
  BY <1>3, OrderAddition
<1> QED
  BY <1>1, <1>2, <1>3 DEF PlansMove

\* A step of an Apply ends one action of the claimed Plan.
LEMMA PerformMoves ==
    ASSUME LibraryInv, OrderInv, work.pc = "apply", NEW i \in ActionsOf(work.plan),
           Skip(i) \/ Refuse(i) \/ RefreshTrack(i) \/ FailMove(i) \/ Move(i)
    PROVE  PlansMove
<1>1. PICK n \in DOMAIN plans : n = work.plan /\ plans[n].status = "applying"
  BY ApplyHolds DEF LibraryInv
<1>2. PICK a : a = plans[n].actions[i]
  OBVIOUS
<1>3. i \in ActionsOf(n) /\ IsPlan(plans[n]) /\ AreActions(plans[n].actions) /\ IsAction(a)
  BY <1>1, <1>2 DEF LibraryInv, UndoInv, PlansAreStored, AreActions, ActionsOf
<1>4. a.status = "planned" /\ a.event # "succeeded"
  BY <1>1, <1>2, <1>3 DEF Skip, Refuse, RefreshTrack, FailMove, Move, IsNext, OrderInv, OutcomesAgree
<1>5. \E status, event, track :
         /\ Ended(i, status, event, track) /\ status # "planned"
         /\ event = "succeeded" => \A d \in a.deps : plans[n].actions[d].status = "applied"
         /\ status = "applied" /\ a.op = "move" => event = "succeeded"
  <2>1. CASE Skip(i)
    BY <1>1, <1>2, <2>1 DEF Skip
  <2>2. CASE Refuse(i)
    BY <2>2 DEF Refuse
  <2>3. CASE RefreshTrack(i)
    BY <1>1, <1>2, <2>3 DEF RefreshTrack
  <2>4. CASE FailMove(i)
    BY <2>4 DEF FailMove
  <2>5. CASE Move(i)
    <3>1. Refusal(n, i) = "none"
      BY <1>1, <2>5 DEF Move
    <3>2. \A d \in a.deps : plans[n].actions[d].status = "applied"
      BY <1>2, <3>1 DEF Refusal
    <3>3. \E track : Ended(i, "applied", "succeeded", track)
      BY <2>5 DEF Move
    <3> QED
      BY <3>2, <3>3
  <2> QED
    BY <2>1, <2>2, <2>3, <2>4, <2>5
<1>6. PICK status, event, track :
         /\ Ended(i, status, event, track) /\ status # "planned"
         /\ event = "succeeded" => \A d \in a.deps : plans[n].actions[d].status = "applied"
         /\ status = "applied" /\ a.op = "move" => event = "succeeded"
  BY <1>5
<1> DEFINE b == [a EXCEPT !.status = status, !.event = event, !.track = track]
           list == [plans[n].actions EXCEPT ![i] = b]
           q == [plans[n] EXCEPT !.actions = list]
<1>7. /\ b.reverses = a.reverses /\ b.deps = a.deps /\ b.op = a.op
      /\ b.status = status /\ b.event = event
  BY <1>3 DEF IsAction
<1>8. plans' = [plans EXCEPT ![n] = q]
  BY <1>1, <1>2, <1>6 DEF Ended
<1> HIDE DEF b
<1>9. /\ DOMAIN list = ActionsOf(n) /\ list[i] = b
      /\ \A j \in ActionsOf(n) \ {i} : list[j] = plans[n].actions[j]
  BY <1>3 DEF ActionsOf
<1> HIDE DEF list
<1>10. /\ q.type = plans[n].type /\ q.from = plans[n].from /\ q.actions = list
       /\ q.status = plans[n].status
  BY <1>3 DEF IsPlan
<1> HIDE DEF q
<1>11. Settles(plans[n].actions, i, b)
  BY <1>2, <1>4, <1>6, <1>7 DEF Settles
<1>12. Progresses(n, q)
  BY <1>1, <1>8, <1>9, <1>10, <1>11 DEF Progresses, Moves, Open
<1> QED
  BY <1>12 DEF PlansMove

\* A reconciliation ends what is due, and moves nothing.
LEMMA ReconciledSettles ==
    ASSUME NEW p, IsPlan(p), AreActions(p.actions),
           \A i \in DOMAIN p.actions : p.actions[i].status = "planned" =>
               p.actions[i].event # "succeeded"
    PROVE  LET q == Reconciled(p) IN
           /\ q.type = p.type /\ q.from = p.from /\ DOMAIN q.actions = DOMAIN p.actions
           /\ \A i \in DOMAIN p.actions : \/ q.actions[i] = p.actions[i]
                                          \/ /\ Settles(p.actions, i, q.actions[i])
                                             /\ q.actions[i].event = p.actions[i].event
<1> DEFINE settled == [i \in DOMAIN p.actions |->
                IF p.actions[i].status # "planned" THEN p.actions[i]
                ELSE [p.actions[i] EXCEPT
                         !.status = IF p.actions[i].op = "skip" THEN "applied" ELSE "interrupted"]]
<1>1. Reconciled(p) = [p EXCEPT !.actions = settled, !.status = Verdict(settled)]
  BY DEF Reconciled
<1>2. ASSUME NEW i \in DOMAIN p.actions, settled[i] # p.actions[i]
      PROVE  Settles(p.actions, i, settled[i]) /\ settled[i].event = p.actions[i].event
  <2>1. PICK a : a = p.actions[i] /\ IsAction(a)
    BY DEF AreActions
  <2>2. a.status = "planned" /\ a.event # "succeeded"
    BY <1>2, <2>1
  <2>3. PICK status : /\ settled[i] = [a EXCEPT !.status = status] /\ status # "planned"
                      /\ status = "applied" => a.op = "skip"
    <3>1. settled[i] = [a EXCEPT !.status = IF a.op = "skip" THEN "applied" ELSE "interrupted"]
      BY <2>1, <2>2
    <3>2. CASE a.op = "skip"
      BY <3>1, <3>2
    <3>3. CASE a.op # "skip"
      <4>1. settled[i] = [a EXCEPT !.status = "interrupted"]
        BY <3>1, <3>3
      <4>2. "interrupted" # "planned" /\ "interrupted" # "applied"
        OBVIOUS
      <4> QED
        BY <4>1, <4>2, Zenon
    <3> QED
      BY <3>2, <3>3
  <2>4. /\ settled[i].reverses = a.reverses /\ settled[i].deps = a.deps /\ settled[i].op = a.op
        /\ settled[i].status = status /\ settled[i].event = a.event
    BY <2>1, <2>3 DEF IsAction
  <2> QED
    BY <2>1, <2>2, <2>3, <2>4 DEF Settles
<1>3. DOMAIN settled = DOMAIN p.actions
  OBVIOUS
<1> HIDE DEF settled
<1>4. PICK verdict : verdict = Verdict(settled)
  OBVIOUS
<1>5. /\ Reconciled(p).type = p.type /\ Reconciled(p).from = p.from
      /\ Reconciled(p).actions = settled
  BY <1>1, <1>4 DEF IsPlan
<1> QED
  BY <1>2, <1>3, <1>5

\* A new status of an open Plan.
LEMMA StatusMoves ==
    ASSUME LibraryInv, NEW n \in DOMAIN plans, plans[n].status \in Open, NEW status,
           plans' = [plans EXCEPT ![n].status = status]
    PROVE  PlansMove
<1> DEFINE q == [plans[n] EXCEPT !.status = status]
<1>1. q.type = plans[n].type /\ q.from = plans[n].from /\ q.actions = plans[n].actions
  BY DEF LibraryInv, UndoInv, PlansAreStored, IsPlan
<1>2. plans' = [plans EXCEPT ![n] = q]
  OBVIOUS
<1> HIDE DEF q
<1>3. Progresses(n, q)
  BY <1>1, <1>2 DEF Progresses, Moves, ActionsOf
<1> QED
  BY <1>3 DEF PlansMove

\* A crash during an Apply ends its Plan as the reconciliation does.
LEMMA CrashMoves ==
    ASSUME LibraryInv, OrderInv, Crash
    PROVE  PlansMove
<1>1. CASE work.pc = "apply"
  <2>1. PICK n \in DOMAIN plans :
           /\ n = work.plan /\ plans[n].status = "applying"
           /\ IsPlan(plans[n]) /\ AreActions(plans[n].actions)
    BY <1>1, ApplyHolds
  <2> DEFINE q == Reconciled(plans[n])
  <2>2. plans' = [plans EXCEPT ![n] = q]
    BY <1>1, <2>1 DEF Crash
  <2>3. \A i \in DOMAIN plans[n].actions : plans[n].actions[i].status = "planned" =>
            plans[n].actions[i].event # "succeeded"
    BY DEF OrderInv, OutcomesAgree, ActionsOf
  <2>4. /\ q.type = plans[n].type /\ q.from = plans[n].from
        /\ DOMAIN q.actions = DOMAIN plans[n].actions
        /\ \A i \in DOMAIN plans[n].actions : \/ q.actions[i] = plans[n].actions[i]
                                              \/ /\ Settles(plans[n].actions, i, q.actions[i])
                                                 /\ q.actions[i].event = plans[n].actions[i].event
    BY <2>1, <2>3, ReconciledSettles
  <2> HIDE DEF q
  <2>5. Progresses(n, q)
    BY <2>1, <2>2, <2>4 DEF Progresses, Moves, Open, ActionsOf
  <2> QED
    BY <2>5 DEF PlansMove
<1>2. CASE work.pc # "apply"
  BY <1>2 DEF Crash, PlansMove
<1> QED
  BY <1>1, <1>2

\* A crash in the middle of a move leaves a pending event and moves no row.
LEMMA CrashInMoveMoves ==
    ASSUME LibraryInv, OrderInv, work.pc = "apply", NEW i \in ActionsOf(work.plan), CrashInMove(i)
    PROVE  PlansMove
<1>1. PICK n \in DOMAIN plans :
         /\ n = work.plan /\ plans[n].status = "applying"
         /\ IsPlan(plans[n]) /\ AreActions(plans[n].actions) /\ i \in DOMAIN plans[n].actions
  BY ApplyHolds DEF ActionsOf
<1>2. PICK a : a = plans[n].actions[i]
  OBVIOUS
<1>3. IsAction(a) /\ a.status = "planned" /\ a.op = "move"
  BY <1>1, <1>2 DEF AreActions, CrashInMove, IsNext
<1> DEFINE b == [a EXCEPT !.event = "pending"]
           list == [plans[n].actions EXCEPT ![i] = b]
           p == [plans[n] EXCEPT !.actions = list]
           q == Reconciled(p)
<1>4. p = [plans[n] EXCEPT !.actions[i].event = "pending"]
  BY <1>2
<1>5. plans' = [plans EXCEPT ![n] = q]
  BY <1>1, <1>4 DEF CrashInMove
<1>6. /\ IsAction(b) /\ b.reverses = a.reverses /\ b.deps = a.deps /\ b.op = a.op
      /\ b.status = "planned" /\ b.event = "pending"
  BY <1>3 DEF IsAction
<1> HIDE DEF b
<1>7. AreActions(list)
  BY <1>1, <1>2, <1>6, ActionReplaced
<1>8. /\ DOMAIN list = DOMAIN plans[n].actions /\ list[i] = b
      /\ \A j \in DOMAIN list \ {i} : list[j] = plans[n].actions[j]
  BY <1>1
<1> HIDE DEF list
<1>9. IsPlan(p) /\ p.type = plans[n].type /\ p.from = plans[n].from /\ p.actions = list
  BY <1>1 DEF IsPlan
<1> HIDE DEF p
<1>10. \A j \in DOMAIN list : list[j].status = "planned" => list[j].event # "succeeded"
  BY <1>1, <1>6, <1>8 DEF OrderInv, OutcomesAgree, ActionsOf
<1>11. /\ q.type = plans[n].type /\ q.from = plans[n].from
       /\ DOMAIN q.actions = DOMAIN plans[n].actions
       /\ \A j \in DOMAIN list : \/ q.actions[j] = list[j]
                                 \/ /\ Settles(list, j, q.actions[j])
                                    /\ q.actions[j].event = list[j].event
  BY <1>7, <1>8, <1>9, <1>10, ReconciledSettles
<1>12. q.actions[i].status # "planned"
  BY <1>1, <1>3, <1>6, <1>7, <1>8, <1>9 DEF Reconciled, IsPlan, IsAction
<1> HIDE DEF q
<1>13. ASSUME NEW j \in DOMAIN list
       PROVE  /\ ~Moves(n, q, j)
              /\ \/ q.actions[j] = plans[n].actions[j]
                 \/ Settles(plans[n].actions, j, q.actions[j])
  <2>1. CASE j = i
    <3>1. Settles(list, i, q.actions[i]) /\ q.actions[i].event = "pending"
      BY <1>1, <1>6, <1>8, <1>11, <1>12
    <3>2. a.event # "succeeded"
      BY <1>1, <1>2, <1>3 DEF OrderInv, OutcomesAgree, ActionsOf
    <3> QED
      BY <1>2, <1>3, <1>6, <1>8, <2>1, <3>1, <3>2 DEF Settles, Moves
  <2>2. CASE j # i
    <3>1. list[j] = plans[n].actions[j]
      BY <1>8, <2>2
    <3>2. CASE q.actions[j] = list[j]
      BY <3>1, <3>2 DEF Moves
    <3>3. CASE Settles(list, j, q.actions[j]) /\ q.actions[j].event = list[j].event
      <4>1. list[j].event # "succeeded"
        BY <1>10, <3>3 DEF Settles
      <4> QED
        BY <3>1, <3>3, <4>1 DEF Settles, Moves
    <3> QED
      BY <1>11, <3>2, <3>3
  <2> QED
    BY <2>1, <2>2
<1>14. Progresses(n, q)
  BY <1>1, <1>5, <1>8, <1>11, <1>13 DEF Progresses, Open, ActionsOf
<1> QED
  BY <1>14 DEF PlansMove

\* Every step does one of these things to the Plans.
LEMMA StepsMovePlans == ASSUME LibraryInv, OrderInv, [Next]_vars PROVE PlansMove
<1>1. CASE Perform
  <2>1. work.pc = "apply" /\ \E i \in ActionsOf(work.plan) :
           Skip(i) \/ Refuse(i) \/ RefreshTrack(i) \/ FailMove(i) \/ Move(i) \/ CrashInMove(i)
    BY <1>1 DEF Perform
  <2> QED
    BY <2>1, PerformMoves, CrashInMoveMoves
<1>2. CASE \E n \in DOMAIN plans : JudgeUndo(n) \/ Cancel(n) \/ Claim(n)
  <2>1. PICK n \in DOMAIN plans : JudgeUndo(n) \/ Cancel(n) \/ Claim(n)
    BY <1>2
  <2>2. CASE JudgeUndo(n)
    BY <2>2 DEF JudgeUndo, PlansMove, rows
  <2>3. CASE Cancel(n) \/ Claim(n)
    BY <2>3, StatusMoves DEF Cancel, Claim, Open
  <2> QED
    BY <2>1, <2>2, <2>3
<1>7. CASE Save
  BY <1>7, Saves DEF PlansMove
<1>3. CASE JudgeAdd \/ JudgeRefresh \/ JudgeOrganize
  BY <1>3 DEF JudgeAdd, JudgeRefresh, JudgeOrganize, PlansMove, rows
<1>4. CASE Finish
  <2>1. work.plan \in DOMAIN plans /\ plans[work.plan].status \in Open
    BY <1>4, ApplyHolds DEF Finish, Open
  <2>2. PICK status : plans' = [plans EXCEPT ![work.plan].status = status]
    BY <1>4 DEF Finish
  <2> QED
    BY <2>1, <2>2, StatusMoves
<1>5. CASE Crash
  BY <1>5, CrashMoves
<1>6. CASE \/ \E scope \in world.scopes : StartPlan("refresh", scope)
           \/ \E kind \in {"add", "organize"} : StartPlan(kind, {})
           \/ Capture \/ ReadInventory
           \/ \E e \in world.edits : Edit(e)
           \/ \E naming \in world.policies : ChangePolicy(naming)
           \/ UNCHANGED vars
  BY <1>6 DEF StartPlan, Capture, ReadInventory, Edit, ChangePolicy, vars, rows, PlansMove
<1> QED
  BY <1>1, <1>2, <1>3, <1>4, <1>5, <1>6, <1>7 DEF Next

LEMMA OrderStarts == Init => OrderInv
<1> SUFFICES ASSUME Init PROVE OrderInv
  OBVIOUS
<1>1. DOMAIN plans = {}
  BY DEF Init
<1> QED
  BY <1>1 DEF OrderInv, OutcomesAgree, SourcesAreSettled, InversesFit, LeaveFirst, OpenInOrder

LEMMA OrderStep == LibraryInv /\ OrderInv /\ [Next]_vars => LibraryInv' /\ OrderInv'
BY LibraryStep, StepsMovePlans, OrderMoves DEF LibraryInv

\* A file is never put back while one that was moved because of it, and after it,
\* is left behind: the audio goes back once its lyrics and artwork have.
DependentsLeaveFirst ==
    \A n \in DOMAIN plans : \A i \in Succeeded(n) \ Reversed(n) :
        plans[n].actions[i].deps \cap Reversed(n) = {}

\* No attempt to undo a Run, whatever failed, was cancelled or cut off by a crash
\* before it, puts a file back while one that was moved because of it, and after
\* it, stays: in any Library, with any companions and policies.
THEOREM NothingIsLeftBehind == Spec => []DependentsLeaveFirst
<1>1. OrderInv => DependentsLeaveFirst
  <2> SUFFICES ASSUME OrderInv, NEW n \in DOMAIN plans, NEW i \in Succeeded(n) \ Reversed(n),
                      NEW d \in plans[n].actions[i].deps \cap Reversed(n)
               PROVE  FALSE
    BY DEF DependentsLeaveFirst
  <2>1. \A x : x \in Reversed(n) <=> WasReversed(n, x)
    BY ReversedMeans DEF Reversed, Attempts, WasReversed
  <2>2. Followed(n, i, d)
    BY DEF Followed, Succeeded
  <2> QED
    BY <2>1, <2>2 DEF OrderInv, LeaveFirst
<1> QED
  BY <1>1, OrderStarts, OrderStep, LibraryStarts, PTL DEF Spec

-----------------------------------------------------------------------------
(* The abstract history. *)

\* The Runs of the abstract history, before and after a step.
LEMMA RunsAre ==
    /\ DOMAIN Runs = DOMAIN plans
    /\ \A n \in DOMAIN plans :
          Runs[n] = [of |-> IF plans[n].type = "undo" THEN plans[n].from ELSE 0,
                     actions |-> ActionsOf(n), follows |-> Follows(plans[n]),
                     moved |-> Succeeded(n), back |-> Reversed(n),
                     open |-> plans[n].status \in Open]
BY DEF Runs, Open

LEMMA RunsAreNext ==
    /\ DOMAIN Runs' = DOMAIN plans'
    /\ \A n \in DOMAIN plans' :
          Runs'[n] = [of |-> IF plans'[n].type = "undo" THEN plans'[n].from ELSE 0,
                      actions |-> ActionsOf(n)', follows |-> Follows(plans'[n]),
                      moved |-> Succeeded(n)', back |-> Reversed(n)',
                      open |-> plans'[n].status \in Open]
BY DEF Runs, Open

\* What the fields of a Run are.
LEMMA RunFields ==
    /\ \A n \in DOMAIN plans :
          /\ Runs[n].of = IF plans[n].type = "undo" THEN plans[n].from ELSE 0
          /\ Runs[n].actions = ActionsOf(n) /\ Runs[n].follows = Follows(plans[n])
          /\ Runs[n].moved = Succeeded(n) /\ Runs[n].back = Reversed(n)
          /\ Runs[n].open <=> plans[n].status \in Open
    /\ \A n \in DOMAIN plans' :
          /\ Runs'[n].of = IF plans'[n].type = "undo" THEN plans'[n].from ELSE 0
          /\ Runs'[n].moved = Succeeded(n)' /\ Runs'[n].back = Reversed(n)'
          /\ Runs'[n].open <=> plans'[n].status \in Open
<1>1. ASSUME NEW n \in DOMAIN plans
      PROVE  /\ Runs[n].of = IF plans[n].type = "undo" THEN plans[n].from ELSE 0
             /\ Runs[n].actions = ActionsOf(n) /\ Runs[n].follows = Follows(plans[n])
             /\ Runs[n].moved = Succeeded(n) /\ Runs[n].back = Reversed(n)
             /\ Runs[n].open <=> plans[n].status \in Open
  <2> DEFINE x == plans[n].status \in Open
             o == IF plans[n].type = "undo" THEN plans[n].from ELSE 0
  <2>1. x \in BOOLEAN /\ (x <=> plans[n].status \in Open)
    OBVIOUS
  <2>2. Runs[n] = [of |-> o, actions |-> ActionsOf(n), follows |-> Follows(plans[n]),
                   moved |-> Succeeded(n), back |-> Reversed(n), open |-> x]
    BY RunsAre
  <2> HIDE DEF x
  <2>3. Runs[n].open = x
    BY <2>1, <2>2
  <2>4. Runs[n].open <=> plans[n].status \in Open
    BY <2>1, <2>3
  <2> QED
    BY <2>2, <2>4
<1>2. ASSUME NEW n \in DOMAIN plans'
      PROVE  /\ Runs'[n].of = IF plans'[n].type = "undo" THEN plans'[n].from ELSE 0
             /\ Runs'[n].moved = Succeeded(n)' /\ Runs'[n].back = Reversed(n)'
             /\ Runs'[n].open <=> plans'[n].status \in Open
  <2> DEFINE x == plans'[n].status \in Open
             o == IF plans'[n].type = "undo" THEN plans'[n].from ELSE 0
  <2>1. x \in BOOLEAN /\ (x <=> plans'[n].status \in Open)
    OBVIOUS
  <2>2. Runs'[n] = [of |-> o, actions |-> ActionsOf(n)', follows |-> Follows(plans'[n]),
                   moved |-> Succeeded(n)', back |-> Reversed(n)', open |-> x]
    BY RunsAreNext
  <2> HIDE DEF x
  <2>3. Runs'[n].open = x
    BY <2>1, <2>2
  <2>4. Runs'[n].open <=> plans'[n].status \in Open
    BY <2>1, <2>3
  <2> QED
    BY <2>2, <2>4
<1> QED
  BY <1>1, <1>2

\* What was put back, as a set.
LEMMA BackIs == \A n, i : i \in Reversed(n) <=> WasReversed(n, i)
BY ReversedMeans DEF Reversed, Attempts, WasReversed

LEMMA BackIsNext == (\A n, i : i \in Reversed(n) <=> WasReversed(n, i))'
BY BackIs, PTL

\* An Undo Plan is made of a Run that may be undone.
LEMMA UndoBegins ==
    ASSUME UndoInv, OrderInv, NEW q, Inverts(q)
    PROVE  History!MayUndo(q.from)
<1>1. PICK n \in DOMAIN plans : n = q.from
  BY DEF Inverts
<1>2. n \in DOMAIN Runs /\ ~Runs[n].open
  BY <1>1, RunsAre, RunFields DEF Inverts, Settled, Open
<1>3. ASSUME NEW m \in DOMAIN Runs, Runs[m].of = n PROVE ~Runs[m].open
  <2>1. n # 0
    BY DEF UndoInv, PlansAreStored
  <2>2. m \in DOMAIN plans /\ plans[m].type = "undo" /\ plans[m].from = n
    BY <1>3, <2>1, RunsAre, RunFields
  <2>3. plans[m].status \notin Open
    BY <1>1, <2>2 DEF Inverts, Alive, Open
  <2> QED
    BY <2>2, <2>3, RunFields
<1> QED
  BY <1>1, <1>2, <1>3 DEF History!MayUndo

\* A Plan that is added is a Run that begins.
LEMMA RunBegins ==
    ASSUME UndoInv, OrderInv, NEW q, Fits(q), plans' = Append(plans, q)
    PROVE  History!HistoryNext
<1>0. /\ q.status = "ready" /\ \A j \in DOMAIN q.actions : q.actions[j].event = "none"
      /\ q.type = "undo" => q.from \in DOMAIN plans /\ History!MayUndo(q.from)
  BY UndoBegins DEF Fits, Inverts
<1>1. PICK new : /\ DOMAIN plans' = DOMAIN plans \cup {new} /\ new \notin DOMAIN plans
                 /\ plans'[new] = q
                 /\ \A k \in DOMAIN plans : plans'[k] = plans[k]
  BY PlanAdded
<1>2. /\ \A k \in DOMAIN plans : ActionsOf(k)' = ActionsOf(k) /\ Succeeded(k)' = Succeeded(k)
      /\ Succeeded(new)' = {}
      /\ \A k \in DOMAIN plans : \A i : HasReversed(k, i)' <=> HasReversed(k, i)
      /\ \A i : ~HasReversed(new, i)'
  BY <1>0, <1>1 DEF ActionsOf, HasReversed, Succeeded
<1>3. \A k, i : WasReversed(k, i)' <=> WasReversed(k, i)
  BY <1>1, <1>2 DEF WasReversed
<1>4. \A i : ~WasReversed(new, i)
  BY <1>1 DEF OrderInv, SourcesAreSettled, WasReversed
<1>5. (\A k : Reversed(k)' = Reversed(k)) /\ Reversed(new)' = {}
  <2>1. \A k, i : i \in Reversed(k)' <=> i \in Reversed(k)
    BY <1>3, BackIs, BackIsNext
  <2>2. ASSUME NEW k PROVE Reversed(k)' = Reversed(k)
    <3>1. \A i : i \in Reversed(k)' <=> i \in Reversed(k)
      BY <2>1
    <3> QED
      BY <3>1
  <2>3. \A i : i \notin Reversed(new)'
    BY <1>3, <1>4, BackIsNext
  <2>4. Reversed(new)' = {}
    BY <2>3
  <2> QED
    BY <2>2, <2>4
<1>6. ASSUME NEW k \in DOMAIN plans PROVE Runs'[k] = Runs[k]
  <2>1. k \in DOMAIN plans' /\ plans'[k] = plans[k]
    BY <1>1
  <2>2. ActionsOf(k)' = ActionsOf(k) /\ Succeeded(k)' = Succeeded(k) /\ Reversed(k)' = Reversed(k)
    BY <1>2, <1>5
  <2> QED
    BY <2>1, <2>2, RunsAre, RunsAreNext
<1>7. DOMAIN Runs' = DOMAIN Runs \cup {new} /\ new \notin DOMAIN Runs
  BY <1>1, RunsAre, RunsAreNext
<1>8. /\ Runs'[new].open /\ Runs'[new].moved = {} /\ Runs'[new].back = {}
      /\ Runs'[new].of = IF q.type = "undo" THEN q.from ELSE 0
  <2>1. new \in DOMAIN plans' /\ plans'[new] = q /\ q.status \in Open
    BY <1>0, <1>1 DEF Open
  <2> QED
    BY <2>1, <1>2, <1>5, RunFields
<1> QED
  BY <1>0, <1>6, <1>7, <1>8, RunsAre DEF History!HistoryNext, History!Begin

\* What the actions of an open Plan that end change for the Runs.
LEMMA RunChanges ==
    ASSUME UndoInv, OrderInv, NEW n \in DOMAIN plans, NEW q, Progresses(n, q)
    PROVE  /\ \A k \in DOMAIN plans \ {n} : Succeeded(k)' = Succeeded(k)
           /\ \A i : i \in Succeeded(n)' <=> i \in Succeeded(n) \/ (i \in ActionsOf(n) /\ Moves(n, q, i))
           /\ \A k \in DOMAIN plans : Follows(plans'[k]) = Follows(plans[k])
           /\ \A k, i : i \in Reversed(k)' <=>
                 \/ i \in Reversed(k)
                 \/ /\ plans[n].type = "undo" /\ plans[n].from = k
                    /\ \E j \in ActionsOf(n) : Moves(n, q, j) /\ plans[n].actions[j].reverses = i
<1>1. /\ DOMAIN plans' = DOMAIN plans /\ plans'[n] = q
      /\ \A k \in DOMAIN plans \ {n} : plans'[k] = plans[k]
  BY ProgressKeeps
<1>2. /\ \A k \in DOMAIN plans : /\ ActionsOf(k)' = ActionsOf(k)
                                 /\ plans'[k].type = plans[k].type /\ plans'[k].from = plans[k].from
      /\ \A k \in DOMAIN plans : \A i \in ActionsOf(k) :
            /\ plans'[k].actions[i].reverses = plans[k].actions[i].reverses
            /\ plans'[k].actions[i].deps = plans[k].actions[i].deps
            /\ plans[k].actions[i].event = "succeeded" => plans'[k].actions[i].event = "succeeded"
  BY ProgressKeeps
<1>3. \A k \in DOMAIN plans \ {n} : Succeeded(k)' = Succeeded(k)
  BY <1>1 DEF Succeeded, ActionsOf
<1>4. \A i : i \in Succeeded(n)' <=> i \in Succeeded(n) \/ (i \in ActionsOf(n) /\ Moves(n, q, i))
  BY <1>1, <1>2 DEF Succeeded, Moves
<1>5. ASSUME NEW k \in DOMAIN plans PROVE Follows(plans'[k]) = Follows(plans[k])
  BY <1>2 DEF Follows, ActionsOf
<1>6. \A m \in DOMAIN plans \ {n} : \A i : HasReversed(m, i)' <=> HasReversed(m, i)
  BY <1>1 DEF HasReversed, ActionsOf
<1>7. \A i : HasReversed(n, i)' <=>
         \/ HasReversed(n, i)
         \/ \E j \in ActionsOf(n) : Moves(n, q, j) /\ plans[n].actions[j].reverses = i
  BY <1>1, <1>2 DEF HasReversed, Moves
<1>8. ASSUME NEW k, NEW i
      PROVE  WasReversed(k, i)' <=>
                \/ WasReversed(k, i)
                \/ /\ plans[n].type = "undo" /\ plans[n].from = k
                   /\ \E j \in ActionsOf(n) : Moves(n, q, j) /\ plans[n].actions[j].reverses = i
  BY <1>1, <1>2, <1>6, <1>7 DEF WasReversed
<1> QED
  BY <1>3, <1>4, <1>5, <1>8, BackIs, BackIsNext

\* An inverse puts back what is not back yet, after what followed it.
LEMMA InverseIsDue ==
    ASSUME UndoInv, OrderInv, NEW n \in DOMAIN plans, NEW q, Progresses(n, q),
           plans[n].type = "undo", NEW i \in ActionsOf(n), Moves(n, q, i),
           NEW s, s = plans[n].from, NEW r, r = plans[n].actions[i].reverses
    PROVE  /\ s \in DOMAIN plans \ {n} /\ plans[s].status \notin Open
           /\ r \in Succeeded(s) \ Reversed(s)
           /\ \A k \in Succeeded(s) : r \in plans[s].actions[k].deps => k \in Reversed(s)
<1>1. s \in DOMAIN plans \ {n} /\ plans[s].status \notin Open
  BY ProgressKeeps DEF OrderInv, SourcesAreSettled, Open, Settled
<1>2. r \in Succeeded(s)
  BY DEF OrderInv, InversesFit
<1>3. ~HasReversed(n, r)
  <2> SUFFICES ASSUME NEW j \in ActionsOf(n), plans[n].actions[j].event = "succeeded",
                      plans[n].actions[j].reverses = r
               PROVE  FALSE
    BY DEF HasReversed
  <2>1. j = i
    BY DEF OrderInv, InversesFit
  <2> QED
    BY <2>1 DEF Moves
<1>4. ASSUME NEW m \in DOMAIN plans \ {n}, plans[m].type = "undo", plans[m].from = s
      PROVE  ~HasReversed(m, r)
  BY <1>4 DEF UndoInv, OpenIsFresh, Rivals, Progresses
<1>5. ~WasReversed(s, r)
  BY <1>3, <1>4 DEF WasReversed
<1>6. ASSUME NEW k \in Succeeded(s), r \in plans[s].actions[k].deps
      PROVE  WasReversed(s, k)
  <2>1. Followed(s, k, r)
    BY <1>6 DEF Followed, Succeeded
  <2>2. CASE \E j \in ActionsOf(n) : j \in plans[n].actions[i].deps /\ plans[n].actions[j].reverses = k
    <3>1. PICK j \in ActionsOf(n) : j \in plans[n].actions[i].deps /\ plans[n].actions[j].reverses = k
      BY <2>2
    <3>2. Settles(plans[n].actions, i, q.actions[i])
      BY DEF Progresses, Moves
    <3>3. plans[n].actions[j].event = "succeeded"
      BY <3>1, <3>2 DEF OrderInv, OutcomesAgree, Settles, Moves
    <3> QED
      BY <3>1, <3>3 DEF WasReversed, HasReversed
  <2> QED
    BY <2>1, <2>2 DEF OrderInv, OpenInOrder, Progresses
<1> QED
  BY <1>1, <1>2, <1>5, <1>6, BackIs

\* A Plan of which an action is reversed is a Run that is put back so far.
LEMMA RunIsPutBack ==
    ASSUME NEW s \in DOMAIN plans, s \in DOMAIN plans', plans'[s] = plans[s],
           ActionsOf(s)' = ActionsOf(s), Succeeded(s)' = Succeeded(s),
           NEW r, Reversed(s)' = Reversed(s) \cup {r}
    PROVE  Runs'[s] = [Runs[s] EXCEPT !.back = @ \cup {r}]
BY RunsAre, RunsAreNext

\* A Plan that progresses moves a file of its Run, puts one back, ends, or neither.
LEMMA RunProgresses ==
    ASSUME UndoInv, OrderInv, NEW n \in DOMAIN plans, NEW q, Progresses(n, q)
    PROVE  [History!HistoryNext]_Runs
<1>1. /\ DOMAIN plans' = DOMAIN plans /\ plans'[n] = q
      /\ \A k \in DOMAIN plans \ {n} : plans'[k] = plans[k]
      /\ \A k \in DOMAIN plans : /\ ActionsOf(k)' = ActionsOf(k)
                                 /\ plans'[k].type = plans[k].type /\ plans'[k].from = plans[k].from
  BY ProgressKeeps
<1>2. /\ Runs = [k \in DOMAIN plans |-> Runs[k]] /\ Runs' = [k \in DOMAIN plans |-> Runs'[k]]
      /\ DOMAIN Runs = DOMAIN plans
  BY <1>1 DEF Runs
<1>3. Runs[n].open /\ (Runs'[n].open <=> q.status \in Open)
  BY <1>1, RunFields DEF Progresses
<1>4. ASSUME NEW k \in DOMAIN plans \ {n}, Reversed(k)' = Reversed(k) PROVE Runs'[k] = Runs[k]
  <2>1. Succeeded(k)' = Succeeded(k) /\ k \in DOMAIN plans' /\ plans'[k] = plans[k]
    BY <1>1, RunChanges
  <2> QED
    BY <1>1, <1>4, <2>1, RunsAre, RunsAreNext
<1>5. CASE ~\E i \in ActionsOf(n) : Moves(n, q, i)
  <2>1. Succeeded(n)' = Succeeded(n) /\ \A k : Reversed(k)' = Reversed(k)
    <3>1. \A i : i \in Succeeded(n)' <=> i \in Succeeded(n)
      BY <1>5, RunChanges
    <3>2. \A k, i : i \in Reversed(k)' <=> i \in Reversed(k)
      BY <1>5, RunChanges
    <3> QED
      BY <3>1, <3>2
  <2>2. Follows(plans'[n]) = Follows(plans[n])
    BY RunChanges
  <2>3. Runs'[n] = [Runs[n] EXCEPT !.open = q.status \in Open]
    BY <1>1, <2>1, <2>2, RunsAre, RunsAreNext
  <2>4. CASE q.status \in Open
    <3>1. Runs'[n] = Runs[n]
      BY <1>1, <2>1, <2>2, <2>4, RunsAre, RunsAreNext DEF Progresses
    <3>2. \A k \in DOMAIN plans : Runs'[k] = Runs[k]
      BY <1>4, <2>1, <3>1
    <3> QED
      BY <1>2, <3>2
  <2>5. CASE q.status \notin Open
    <3>1. Runs'[n] = [Runs[n] EXCEPT !.open = FALSE]
      <4>1. (q.status \in Open) = FALSE
        BY <2>5
      <4> QED
        BY <2>3, <4>1, Zenon
    <3>2. \A k \in DOMAIN plans \ {n} : Runs'[k] = Runs[k]
      BY <1>4, <2>1
    <3>3. Runs' = [Runs EXCEPT ![n].open = FALSE]
      BY <1>2, <3>1, <3>2
    <3> QED
      BY <1>2, <1>3, <3>3 DEF History!HistoryNext, History!End
  <2> QED
    BY <2>4, <2>5
<1>6. ASSUME NEW i \in ActionsOf(n), Moves(n, q, i) PROVE History!HistoryNext
  <2>1. /\ q.status = plans[n].status
        /\ \A j \in ActionsOf(n) : Moves(n, q, j) <=> j = i
    BY <1>6 DEF Progresses
  <2>2. Succeeded(n)' = Succeeded(n) \cup {i} /\ i \notin Succeeded(n)
    <3>1. \A j : j \in Succeeded(n)' <=> j \in Succeeded(n) \cup {i}
      BY <2>1, RunChanges
    <3>2. i \notin Succeeded(n)
      BY <1>6 DEF Moves, Succeeded
    <3> QED
      BY <3>1, <3>2
  <2>3. Follows(plans'[n]) = Follows(plans[n])
    BY RunChanges
  <2>4. i \in Runs[n].actions /\ i \notin Runs[n].moved
    BY <2>2, RunFields
  <2>5. CASE plans[n].type # "undo"
    <3>1. \A k : Reversed(k)' = Reversed(k)
      <4>1. \A k, j : j \in Reversed(k)' <=> j \in Reversed(k)
        BY <2>5, RunChanges
      <4> QED
        BY <4>1
    <3>2. Runs'[n] = [Runs[n] EXCEPT !.moved = @ \cup {i}]
      BY <1>1, <2>1, <2>2, <2>3, <3>1, RunsAre, RunsAreNext
    <3>3. \A k \in DOMAIN plans \ {n} : Runs'[k] = Runs[k]
      BY <1>4, <3>1
    <3>4. Runs' = [Runs EXCEPT ![n].moved = @ \cup {i}]
      BY <1>2, <3>2, <3>3
    <3>5. Runs[n].of = 0
      BY <2>5, RunFields
    <3> QED
      BY <1>2, <1>3, <2>4, <3>4, <3>5 DEF History!HistoryNext, History!MoveFile
  <2>6. CASE plans[n].type = "undo"
    <3> PICK s, r : s = plans[n].from /\ r = plans[n].actions[i].reverses
      OBVIOUS
    <3>1. /\ s \in DOMAIN plans \ {n} /\ plans[s].status \notin Open
          /\ r \in Succeeded(s) \ Reversed(s)
          /\ \A k \in Succeeded(s) : r \in plans[s].actions[k].deps => k \in Reversed(s)
      BY <1>6, <2>6, InverseIsDue
    <3>2. /\ \A k : k # s => Reversed(k)' = Reversed(k)
          /\ Reversed(s)' = Reversed(s) \cup {r}
      <4>1. \A k, j : k # s => (j \in Reversed(k)' <=> j \in Reversed(k))
        BY RunChanges
      <4>2. \A j : j \in Reversed(s)' <=> j \in Reversed(s) \cup {r}
        BY <2>1, <2>6, RunChanges
      <4>3. ASSUME NEW k, k # s PROVE Reversed(k)' = Reversed(k)
        BY <4>1, <4>3
      <4>4. Reversed(s)' = Reversed(s) \cup {r}
        BY <4>2
      <4> QED
        BY <4>3, <4>4
    <3>3. Runs'[n] = [Runs[n] EXCEPT !.moved = @ \cup {i}]
      <4>1. Reversed(n)' = Reversed(n)
        BY <3>1, <3>2
      <4> QED
        BY <1>1, <2>1, <2>2, <2>3, <4>1, RunsAre, RunsAreNext
    <3>4. Runs'[s] = [Runs[s] EXCEPT !.back = @ \cup {r}]
      <4>1. s \in DOMAIN plans' /\ plans'[s] = plans[s] /\ Succeeded(s)' = Succeeded(s)
        BY <1>1, <3>1, RunChanges
      <4>2. ActionsOf(s)' = ActionsOf(s) /\ Reversed(s)' = Reversed(s) \cup {r}
        BY <1>1, <3>1, <3>2
      <4> QED
        BY <3>1, <4>1, <4>2, RunIsPutBack
    <3>5. \A k \in DOMAIN plans \ {n, s} : Runs'[k] = Runs[k]
      BY <1>4, <3>2
    <3>6. Runs' = [Runs EXCEPT ![n].moved = @ \cup {i}, ![s].back = @ \cup {r}]
      BY <1>2, <3>1, <3>3, <3>4, <3>5
    <3>7. Runs[n].of = s /\ ~Runs[s].open /\ r \in Runs[s].moved \ Runs[s].back
      BY <2>6, <3>1, RunFields
    <3>8. ASSUME NEW k \in Runs[s].moved, <<k, r>> \in Runs[s].follows PROVE k \in Runs[s].back
      <4>1. r \in plans[s].actions[k].deps
        BY <3>1, <3>8, RunFields DEF Follows
      <4> QED
        BY <3>1, <3>8, <4>1, RunFields
    <3>9. History!PutBack(n, i, s, r)
      BY <1>3, <2>4, <3>6, <3>7, <3>8 DEF History!PutBack
    <3> QED
      BY <1>2, <2>4, <3>1, <3>7, <3>9 DEF History!HistoryNext
  <2> QED
    BY <2>5, <2>6
<1> QED
  BY <1>5, <1>6

\* However the Plans of a Library are made, cancelled, applied and cut off by
\* crashes, their Runs follow the abstract history: an Undo starts when the Run
\* it undoes has ended and no other attempt is open, and puts back what is not
\* back, after what followed it.
THEOREM ImplementsHistory == Spec => RunsAreUndone
<1>1. Init => History!HistoryInit
  <2> SUFFICES ASSUME Init PROVE History!HistoryInit
    OBVIOUS
  <2>1. DOMAIN plans = {}
    BY DEF Init
  <2> QED
    BY <2>1 DEF Runs, History!HistoryInit
<1>2. LibraryInv /\ OrderInv /\ [Next]_vars => [History!HistoryNext]_Runs
  <2> SUFFICES ASSUME LibraryInv, OrderInv, [Next]_vars PROVE [History!HistoryNext]_Runs
    OBVIOUS
  <2>1. UndoInv /\ PlansMove
    BY StepsMovePlans DEF LibraryInv
  <2>2. CASE plans' = plans
    BY <2>2 DEF Runs, ActionsOf, Follows, Succeeded, Reversed, ReversedBy, Attempts
  <2>4. CASE \E n \in DOMAIN plans : \E q : Progresses(n, q)
    BY <2>1, <2>4, RunProgresses
  <2>5. CASE \E q : Fits(q) /\ plans' = Append(plans, q)
    BY <2>1, <2>5, RunBegins
  <2> QED
    BY <2>1, <2>2, <2>4, <2>5 DEF PlansMove
<1> QED
  BY <1>1, <1>2, OrderStarts, OrderStep, LibraryStarts, PTL DEF Spec, RunsAreUndone, History!HistorySpec
=============================================================================
