----------------------------- MODULE ViewProofs -----------------------------
(***************************************************************************)
(* Proofs about views, for any number of threads, processes, trees and     *)
(* staged names.                                                           *)
(*                                                                         *)
(* The argument: a caller that is past its observation knows the view is   *)
(* not foreign, and nobody makes it so (NotForeign); a staged name belongs *)
(* to the one thread that created it until it is renamed away (StagedIsOwn *)
(* and StagesReclaimed are inductive together); what a call has replaced   *)
(* is known from where it is (Progress); and what a call has found holds   *)
(* for as long as nobody disturbs it (Undisturbed).                  *)
(***************************************************************************)
EXTENDS ViewProps, FiniteSetTheorems, TLAPS

Past == {"creating", "reading", "staging", "staged", "cleaning", "checking"}

NotForeign ==
    /\ \A l \in Linkers : pc[l] \in Past => view \notin {File, Dir}
    /\ \A u \in Unlinkers : upc[u] = "removing" => view \notin {File, Dir}

Progress ==
    \A l \in Linkers :
        /\ pc[l] # "idle" => change[l] = "none"
        /\ pc[l] \notin {"idle", "dead", "checking"} => replaced[l] = "nothing"
        /\ pc[l] = "checking" => replaced[l] \in Trees \cup {Missing}

(* What a call found, what it replaced, and what it told.                  *)
Found(l) ==
    /\ pc[l] \in Past \cup {"view"} => Wants[l] \in exists
    /\ pc[l] = "creating" => view = Missing
    /\ pc[l] \in {"reading", "staging", "staged", "cleaning"} => view \in exists
    /\ replaced[l] # "nothing" => /\ replaced[l] \in exists /\ view = Wants[l]
                                  /\ Wants[l] \in exists
Told(l) ==
    /\ change[l] = "Replaced" => replaced[l] \in exists
    /\ change[l] = "Created" => replaced[l] = "nothing"
    /\ change[l] \in {"Created", "Replaced"} => view = Wants[l] /\ view \in exists
    /\ change[l] \in {"NotDirectory", "ViewConflict", "NoName"} => replaced[l] = "nothing"

Undisturbed == \A l \in Linkers \ disturbed : Found(l) /\ Told(l)

Inv == TypeOK /\ NotForeign /\ Progress /\ Undisturbed /\ StagedIsOwn /\ StagesReclaimed

USE ConstantsOK DEF ConstantsOK, history, Disturb

LEMMA StagedIsName == ASSUME TypeOK, NEW l \in Linkers PROVE Staged(l) \in Name
BY DEF TypeOK, Staged, Name

LEMMA InitInv == Init => Inv
<1> SUFFICES ASSUME Init PROVE Inv
  OBVIOUS
<1>1. TypeOK
  BY DEF Init, TypeOK, Change
<1>2. NotForeign /\ Progress /\ Undisturbed /\ StagedIsOwn /\ StagesReclaimed
  BY DEF Init, NotForeign, Past, Progress, Undisturbed, Found, Told, StagedIsOwn, StagesReclaimed
<1> QED BY <1>1, <1>2 DEF Inv

LEMMA StutterInv == Inv /\ UNCHANGED vars => Inv'
BY DEF vars, linkers, unlinkers, Inv, TypeOK, NotForeign, Past, Progress, Undisturbed, Found, Told,
       StagedIsOwn, StagesReclaimed, Staged

(* A step that moves one linker and changes neither the view nor a staged  *)
(* link.                                                                   *)
LEMMA MoveStep ==
    ASSUME Inv, NEW l \in Linkers, pc[l] \notin {"staged", "cleaning"},
           UNCHANGED <<view, exists, stages, unlinkers, litter>>,
           disturbed' \in {disturbed, disturbed \ {l}},
           UNCHANGED attempt \/ \E a \in 0 .. Attempts - 1 : attempt' = [attempt EXCEPT ![l] = a],
           NEW step \in {"idle", "source", "view", "creating", "reading", "staging"},
           Goto(l, step), step \in Past => view \notin {File, Dir},
           NEW answer \in Change, change' = [change EXCEPT ![l] = answer],
           replaced' = [replaced EXCEPT ![l] = replaced'[l]],
           step # "idle" => replaced'[l] = "nothing" /\ answer = "none",
           replaced'[l] \in {replaced[l], "nothing"},
           l \notin disturbed' => Found(l)' /\ Told(l)'
    PROVE  Inv'
<1> USE DEF Inv, Goto, unlinkers
<1>1. TypeOK'
  BY DEF TypeOK
<1>2. NotForeign' /\ Progress'
  BY DEF TypeOK, NotForeign, Past, Progress
<1>5. Undisturbed'
  <2> SUFFICES ASSUME NEW k \in Linkers \ disturbed', k # l PROVE Found(k)' /\ Told(k)'
    BY DEF Undisturbed
  <2>1. Found(k) /\ Told(k)
    BY DEF Undisturbed
  <2>2. pc'[k] = pc[k] /\ change'[k] = change[k] /\ replaced'[k] = replaced[k]
    BY DEF TypeOK
  <2> QED BY <2>1, <2>2 DEF Found, Told
<1>3. ASSUME NEW k \in Linkers, pc'[k] \in {"staged", "cleaning"} \/ pc[k] \in {"staged", "cleaning"}
      PROVE  k # l /\ pc'[k] = pc[k] /\ Staged(k)' = Staged(k)
  BY <1>3 DEF TypeOK, Staged
<1>4. StagedIsOwn' /\ StagesReclaimed'
  BY <1>3 DEF StagedIsOwn, StagesReclaimed
<1> QED BY <1>1, <1>2, <1>4, <1>5

LEMMA MovesStep ==
    ASSUME Inv, NEW l \in Linkers,
           \/ LinkCall(l) \/ ObserveSource(l) \/ ObserveView(l) \/ ReadPrevious(l)
           \/ PostObserve(l) \/ LinkFails(l)
    PROVE  Inv'
<1> DEFINE step == pc'[l]
           answer == change'[l]
<1> USE DEF Inv, Stay, Return, Goto, Observed
<1>1. /\ pc[l] \notin {"staged", "cleaning"} /\ UNCHANGED <<view, exists, stages, unlinkers, litter>>
      /\ disturbed' \in {disturbed, disturbed \ {l}}
  BY DEF LinkCall, ObserveSource, ObserveView, ReadPrevious, PostObserve, LinkFails
<1>2. UNCHANGED attempt \/ attempt' = [attempt EXCEPT ![l] = 0]
  BY DEF LinkCall, ObserveSource, ObserveView, ReadPrevious, PostObserve, LinkFails
<1>3. /\ Goto(l, step) /\ change' = [change EXCEPT ![l] = answer]
      /\ step \in {"idle", "source", "view", "creating", "reading", "staging"}
      /\ answer \in Change
  BY DEF LinkCall, ObserveSource, ObserveView, ReadPrevious, PostObserve, LinkFails,
         TypeOK, Change
<1>4. step \in Past => view \notin {File, Dir}
  BY DEF LinkCall, ObserveSource, ObserveView, ReadPrevious, PostObserve, LinkFails,
         TypeOK, Past, NotForeign
<1>5. /\ replaced' = [replaced EXCEPT ![l] = replaced'[l]]
      /\ replaced'[l] \in {replaced[l], "nothing"}
      /\ step # "idle" => replaced'[l] = "nothing" /\ answer = "none"
  BY DEF LinkCall, ObserveSource, ObserveView, ReadPrevious, PostObserve, LinkFails,
         TypeOK, Progress
<1>6. ASSUME l \notin disturbed' PROVE Found(l)' /\ Told(l)'
  <2>1. CASE LinkCall(l)
    BY <2>1 DEF LinkCall, TypeOK, Found, Told, Past
  <2>2. CASE ~LinkCall(l)
    <3>1. UNCHANGED <<view, exists, replaced>> /\ Found(l) /\ Told(l) /\ pc[l] # "idle"
      BY <1>6, <2>2 DEF ObserveSource, ObserveView, ReadPrevious, PostObserve,
                        LinkFails, Undisturbed
    <3>2. change[l] = "none" /\ (pc[l] # "checking" => replaced[l] = "nothing" \/ pc[l] = "dead")
      BY <3>1 DEF Progress
    <3>3. CASE ObserveSource(l)
      BY <3>1, <3>2, <3>3 DEF ObserveSource, TypeOK, Found, Told, Past
    <3>4. CASE ObserveView(l)
      BY <3>1, <3>2, <3>4 DEF ObserveView, TypeOK, Found, Told, Past
    <3>5. CASE ReadPrevious(l)
      BY <3>1, <3>2, <3>5 DEF ReadPrevious, TypeOK, Found, Told, Past
    <3>6. CASE PostObserve(l)
      <4>1. replaced[l] # "nothing" /\ pc[l] = "checking"
        BY <3>6 DEF PostObserve, Progress
      <4>2. view \in exists /\ view = Wants[l] /\ replaced[l] \in exists
        BY <3>1, <4>1 DEF Found
      <4>3. Observed = "SymlinkToDirectory"
        BY <4>2 DEF TypeOK
      <4>4. pc' = [pc EXCEPT ![l] = "idle"] /\ change' = [change EXCEPT ![l] = "Replaced"]
        BY <3>6, <4>3 DEF PostObserve
      <4> QED BY <3>1, <4>1, <4>2, <4>4 DEF TypeOK, Found, Told, Past
    <3>7. CASE LinkFails(l)
      BY <3>1, <3>2, <3>7 DEF LinkFails, TypeOK, Found, Told, Past
    <3> QED BY <2>2, <3>3, <3>4, <3>5, <3>6, <3>7
  <2> QED BY <2>1, <2>2
<1> HIDE DEF step, answer
<1>7. 0 \in 0 .. Attempts - 1
  OBVIOUS
<1> QED BY <1>1, <1>2, <1>3, <1>4, <1>5, <1>6, <1>7, MoveStep

LEMMA CreateStep == ASSUME Inv, NEW l \in Linkers, Create(l) PROVE Inv'
<1> USE DEF Inv, Create, Return, Goto, unlinkers
<1>1. TypeOK'
  BY DEF TypeOK, Change
<1>2. NotForeign' /\ Progress' /\ Undisturbed'
  BY DEF TypeOK, NotForeign, Past, Progress, Undisturbed, Found, Told
<1>3. StagedIsOwn' /\ StagesReclaimed'
  BY DEF TypeOK, StagedIsOwn, StagesReclaimed, Staged
<1> QED BY <1>1, <1>2, <1>3

LEMMA StageLinkStep == ASSUME Inv, NEW l \in Linkers, StageLink(l) PROVE Inv'
<1>1. CASE stages[Staged(l)] = Missing
  <2> USE <1>1 DEF Inv, StageLink, Stay, Goto, unlinkers
  <2>1. TypeOK'
    BY StagedIsName DEF TypeOK
  <2>2. NotForeign' /\ Progress' /\ Undisturbed'
    BY DEF TypeOK, NotForeign, Past, Progress, Undisturbed, Found, Told
  <2>3. \A k \in Linkers : Staged(k)' = Staged(k)
    BY DEF Staged
  <2>4. \A k \in Linkers \ {l} : pc[k] \in {"staged", "cleaning"} => Staged(k) # Staged(l)
    BY DEF StagedIsOwn
  <2>5. StagedIsOwn'
    BY <2>3, <2>4, StagedIsName DEF TypeOK, StagedIsOwn
  <2>6. StagesReclaimed'
    <3> SUFFICES ASSUME NEW n \in Name, stages'[n] # Missing, n \notin litter
                 PROVE  \E k \in Linkers : pc'[k] \in {"staged", "cleaning"} /\ Staged(k)' = n
      BY DEF StagesReclaimed
    <3>1. CASE n = Staged(l)
      BY <3>1, <2>3 DEF TypeOK
    <3>2. CASE n # Staged(l)
      BY <3>2, <2>3 DEF TypeOK, StagesReclaimed
    <3> QED BY <3>1, <3>2
  <2> QED BY <2>1, <2>2, <2>5, <2>6
<1>2. CASE stages[Staged(l)] # Missing
  <2>1. /\ pc[l] = "staging" /\ view \notin {File, Dir}
        /\ change[l] = "none" /\ replaced[l] = "nothing"
        /\ disturbed' \in {disturbed, disturbed \ {l}}
        /\ l \notin disturbed => Found(l)
    BY DEF Inv, StageLink, NotForeign, Past, Progress, Undisturbed
  <2>2. CASE attempt[l] + 1 < Attempts
    <3>1. attempt[l] + 1 \in 0 .. Attempts - 1
      BY <2>2 DEF Inv, TypeOK
    <3>2. Goto(l, "staging") /\ attempt' = [attempt EXCEPT ![l] = attempt[l] + 1]
      BY <1>2, <2>2 DEF StageLink, Stay
    <3>3. change' = [change EXCEPT ![l] = "none"] /\ replaced' = [replaced EXCEPT ![l] = replaced'[l]]
      BY <1>2, <2>1, <2>2 DEF StageLink, Stay, Inv, TypeOK
    <3>4. UNCHANGED <<view, exists, stages, unlinkers, litter, replaced>>
      BY <1>2 DEF StageLink
    <3>5. "none" \in Change
      BY DEF Change
    <3>6. l \notin disturbed' => Found(l)' /\ Told(l)'
      BY <1>2, <2>1, <3>2, <3>3, <3>4 DEF StageLink, Goto, Found, Told, Past, Inv, TypeOK
    <3> QED BY <2>1, <3>1, <3>2, <3>3, <3>4, <3>5, <3>6, MoveStep
  <2>3. CASE ~(attempt[l] + 1 < Attempts)
    <3>1. Goto(l, "idle") /\ change' = [change EXCEPT ![l] = "NoName"]
      BY <1>2, <2>3 DEF StageLink, Return
    <3>2. replaced' = [replaced EXCEPT ![l] = replaced'[l]]
      BY DEF StageLink, Inv, TypeOK
    <3>3. UNCHANGED <<view, exists, stages, unlinkers, litter, replaced, attempt>>
      BY <1>2, <2>3 DEF StageLink
    <3>4. "NoName" \in Change
      BY DEF Change
    <3>5. l \notin disturbed' => Found(l)' /\ Told(l)'
      BY <1>2, <2>1, <3>1, <3>2, <3>3 DEF StageLink, Goto, Found, Told, Past, Inv, TypeOK
    <3> QED BY <2>1, <3>1, <3>2, <3>3, <3>4, <3>5, MoveStep
  <2> QED BY <2>2, <2>3
<1> QED BY <1>1, <1>2

(* A step of a linker that has a staged link: rename, failure, clean-up.   *)
LEMMA StagedStep ==
    ASSUME Inv, NEW l \in Linkers, Replace(l) \/ ReplaceFails(l) \/ CleanUp(l)
    PROVE  Inv'
<1> USE DEF Inv, Replace, ReplaceFails, CleanUp, Stay, Return, Goto, unlinkers
<1>1. pc[l] \in {"staged", "cleaning"} /\ stages[Staged(l)] = Wants[l] /\ Staged(l) \in Name
  BY StagedIsName DEF StagedIsOwn
<1>2. \A k \in Linkers : Staged(k)' = Staged(k)
  BY DEF Staged
<1>3. TypeOK'
  BY <1>1 DEF TypeOK, Change
<1>4. NotForeign' /\ Progress' /\ Undisturbed'
  BY <1>1 DEF TypeOK, NotForeign, Past, Progress, Undisturbed, Found, Told
<1>5. StagedIsOwn'
  BY <1>1, <1>2, StagedIsName DEF TypeOK, StagedIsOwn
<1>6. StagesReclaimed'
  <2> SUFFICES ASSUME NEW n \in Name, stages'[n] # Missing, n \notin litter'
               PROVE  \E k \in Linkers : pc'[k] \in {"staged", "cleaning"} /\ Staged(k)' = n
    BY DEF StagesReclaimed
  <2>1. PICK k \in Linkers : pc[k] \in {"staged", "cleaning"} /\ Staged(k) = n
    BY <1>1 DEF TypeOK, StagesReclaimed
  <2>2. CASE k # l
    BY <2>1, <2>2, <1>2 DEF TypeOK
  <2>3. CASE k = l
    BY <2>1, <2>3, <1>1, <1>2 DEF TypeOK
  <2> QED BY <2>2, <2>3
<1> QED BY <1>3, <1>4, <1>5, <1>6

LEMMA UnlinkerStepInv == ASSUME Inv, NEW u \in Unlinkers, UnlinkerStep(u) PROVE Inv'
<1> USE DEF Inv, UnlinkerStep, UnlinkObserve, UnlinkRemove, UnlinkFails, Withdraw, linkers,
        Observed
<1>1. TypeOK'
  BY DEF TypeOK
<1>2. NotForeign'
  BY DEF TypeOK, NotForeign
<1>3. Progress' /\ Undisturbed'
  BY DEF Progress, Undisturbed, Found, Told
<1>4. StagedIsOwn' /\ StagesReclaimed'
  BY DEF StagedIsOwn, StagesReclaimed, Staged
<1> QED BY <1>1, <1>2, <1>3, <1>4

LEMMA TreeStep ==
    ASSUME Inv, NEW t \in Trees, PublishTree(t) \/ RemoveTree(t) PROVE Inv'
<1> USE DEF Inv, PublishTree, RemoveTree, linkers, unlinkers
<1>1. TypeOK'
  BY DEF TypeOK
<1>2. NotForeign' /\ Progress' /\ Undisturbed'
  BY DEF NotForeign, Progress, Undisturbed, Found, Told
<1>3. StagedIsOwn' /\ StagesReclaimed'
  BY DEF StagedIsOwn, StagesReclaimed, Staged
<1> QED BY <1>1, <1>2, <1>3

LEMMA DieStep == ASSUME Inv, NEW d \in Pids, Die(d) PROVE Inv'
<1> USE DEF Inv, Die, unlinkers, Live
<1>1. TypeOK'
  BY StagedIsName DEF TypeOK
<1>2. NotForeign' /\ Progress' /\ Undisturbed'
  BY DEF TypeOK, NotForeign, Past, Progress, Undisturbed, Found, Told
<1>3. StagedIsOwn'
  BY DEF TypeOK, StagedIsOwn, Staged
<1>4. StagesReclaimed'
  BY DEF TypeOK, StagesReclaimed, Staged
<1> QED BY <1>1, <1>2, <1>3, <1>4

LEMMA ReuseStep == ASSUME Inv, NEW d \in Pids, Reuse(d) PROVE Inv'
<1> USE DEF Inv, Reuse, unlinkers
<1>1. TypeOK'
  BY DEF TypeOK
<1>2. NotForeign' /\ Progress' /\ Undisturbed'
  BY DEF TypeOK, NotForeign, Past, Progress, Undisturbed, Found, Told
<1>3. StagedIsOwn'
  BY DEF TypeOK, StagedIsOwn, Staged
<1>4. StagesReclaimed'
  BY DEF TypeOK, StagesReclaimed, Staged
<1> QED BY <1>1, <1>2, <1>3, <1>4

LEMMA NextInv == Inv /\ [Next]_vars => Inv'
<1> SUFFICES ASSUME Inv, [Next]_vars PROVE Inv'
  OBVIOUS
<1>1. ASSUME NEW l \in Linkers, LinkerStep(l) PROVE Inv'
  BY <1>1, MovesStep, CreateStep, StageLinkStep, StagedStep DEF LinkerStep
<1>2. ASSUME NEW u \in Unlinkers, UnlinkerStep(u) PROVE Inv'
  BY <1>2, UnlinkerStepInv
<1>3. ASSUME NEW d \in Pids, Die(d) \/ Reuse(d) PROVE Inv'
  BY <1>3, DieStep, ReuseStep
<1>4. ASSUME NEW t \in Trees, PublishTree(t) \/ RemoveTree(t) PROVE Inv'
  BY <1>4, TreeStep
<1> QED BY <1>1, <1>2, <1>3, <1>4, StutterInv DEF Next

(* The inductive invariant of views, which the theorems below use.         *)
THEOREM ViewInvariant == Spec => []Inv
BY InitInv, NextInv, PTL DEF Spec

(* view.rs: the types of the model's state hold in every behaviour.        *)
THEOREM TypeCorrect == Spec => []TypeOK
<1>1. Inv => TypeOK
  BY DEF Inv
<1> QED BY <1>1, ViewInvariant, PTL

(* A thread renames only the link it staged itself.                        *)
THEOREM StagedLinksAreOwn == Spec => []StagedIsOwn
<1>1. Inv => StagedIsOwn
  BY DEF Inv
<1> QED BY <1>1, ViewInvariant, PTL

(* Staged links are left only by deaths and failed clean-ups.              *)
THEOREM StagedLinksAreReclaimed == Spec => []StagesReclaimed
<1>1. Inv => StagesReclaimed
  BY DEF Inv
<1> QED BY <1>1, ViewInvariant, PTL

(* For as long as nobody disturbs it, a link's answer is what its          *)
(* documentation says, and the view leads where it was told.               *)
THEOREM LinksAreTruthful == Spec => []LinkTruthful
<1>1. Inv => LinkTruthful
  BY DEF Inv, Undisturbed, Told, LinkTruthful
<1> QED BY <1>1, ViewInvariant, PTL

(* A switch never leaves the view missing.                                 *)
THEOREM SwitchesHaveNoGap == Spec => NoGap
<1> DEFINE A == (view \in Trees /\ view' = Missing) =>
                  \E u \in Unlinkers : upc[u] = "removing" /\ upc'[u] = "idle"
<1>1. Inv /\ [Next]_vars => [A]_vars
  <2> SUFFICES ASSUME Inv, Next, view \in Trees, view' = Missing
               PROVE  \E u \in Unlinkers : upc[u] = "removing" /\ upc'[u] = "idle"
    OBVIOUS
  <2>1. ASSUME NEW l \in Linkers PROVE ~LinkerStep(l)
    BY <2>1 DEF LinkerStep, LinkCall, ObserveSource, ObserveView, Create, ReadPrevious,
                StageLink, Replace, ReplaceFails, CleanUp, PostObserve, LinkFails, Inv,
                StagedIsOwn
  <2>2. ASSUME NEW u \in Unlinkers, UnlinkerStep(u) PROVE upc[u] = "removing" /\ upc'[u] = "idle"
    BY <2>2 DEF UnlinkerStep, UnlinkObserve, UnlinkRemove, UnlinkFails, Withdraw, Inv, TypeOK
  <2>3. ASSUME NEW d \in Pids PROVE ~(Die(d) \/ Reuse(d))
    BY <2>3 DEF Die, Reuse
  <2>4. ASSUME NEW t \in Trees PROVE ~(PublishTree(t) \/ RemoveTree(t))
    BY <2>4 DEF PublishTree, RemoveTree
  <2> QED BY <2>1, <2>2, <2>3, <2>4 DEF Next
<1> QED BY <1>1, ViewInvariant, PTL DEF Spec, NoGap

(* Entries that are not views are neither replaced nor removed.            *)
THEOREM ForeignEntriesStay == Spec => ForeignStays
<1> DEFINE A == (view \in {File, Dir}) => view' = view
<1>1. Inv /\ [Next]_vars => [A]_vars
  <2> SUFFICES ASSUME Inv, Next, view \in {File, Dir} PROVE view' = view
    OBVIOUS
  <2>1. ASSUME NEW l \in Linkers, LinkerStep(l) PROVE view' = view
    BY <2>1 DEF LinkerStep, LinkCall, ObserveSource, ObserveView, Create, ReadPrevious,
                StageLink, Replace, ReplaceFails, CleanUp, PostObserve, LinkFails, Inv,
                NotForeign, Past
  <2>2. ASSUME NEW u \in Unlinkers, UnlinkerStep(u) PROVE view' = view
    BY <2>2 DEF UnlinkerStep, UnlinkObserve, UnlinkRemove, UnlinkFails, Inv, NotForeign
  <2>3. ASSUME NEW d \in Pids, Die(d) \/ Reuse(d) PROVE view' = view
    BY <2>3 DEF Die, Reuse
  <2>4. ASSUME NEW t \in Trees, PublishTree(t) \/ RemoveTree(t) PROVE view' = view
    BY <2>4 DEF PublishTree, RemoveTree
  <2> QED BY <2>1, <2>2, <2>3, <2>4 DEF Next
<1> QED BY <1>1, ViewInvariant, PTL DEF Spec, ForeignStays

(***************************************************************************)
(* The search for a staged name.  Two callers that are refused the same    *)
(* name are at the same attempt, so the further an attempt, the fewer      *)
(* threads have come as far: a crowd of threads at attempt j or beyond     *)
(* needs j + its size threads or littered names below j.                   *)
(***************************************************************************)
AtLeast(d, j) == {l \in Threads(d) : attempt[l] >= j}
Below(d, j) == {n \in Litter(d) : n[2] < j}

Crowd ==
    \A d \in Pids, j \in Nat : AtLeast(d, j) # {} =>
        j + Cardinality(AtLeast(d, j)) <= Cardinality(Threads(d)) + Cardinality(Below(d, j))

GivesUp ==
    \A l \in Linkers : change[l] = "NoName" =>
        Attempts + 1 <= Cardinality(Threads(Pid[l])) + Cardinality(Litter(Pid[l]))

LEMMA NamesFinite == ASSUME NEW d \in Pids PROVE IsFiniteSet({d} \X (0 .. Attempts - 1))
<1>1. IsFiniteSet({d})
  BY FS_Singleton
<1>2. 0 \in Int /\ Attempts - 1 \in Int
  OBVIOUS
<1>3. IsFiniteSet(0 .. Attempts - 1)
  BY ONLY <1>2, FS_Interval
<1> QED BY <1>1, <1>3, FS_Product

LEMMA SetsAreFinite ==
    ASSUME TypeOK, NEW d \in Pids
    PROVE  /\ IsFiniteSet(Threads(d)) /\ IsFiniteSet(Litter(d))
           /\ \A j \in Nat : IsFiniteSet(AtLeast(d, j)) /\ IsFiniteSet(Below(d, j))
<1>1. IsFiniteSet(Threads(d))
  BY FS_Subset DEF Threads
<1>2. IsFiniteSet({d} \X (0 .. Attempts - 1))
  BY NamesFinite
<1>3. Litter(d) \subseteq {d} \X (0 .. Attempts - 1)
  BY DEF TypeOK, Litter, Name
<1>4. IsFiniteSet(Litter(d))
  BY <1>2, <1>3, FS_Subset
<1>5. ASSUME NEW j \in Nat PROVE IsFiniteSet(AtLeast(d, j)) /\ IsFiniteSet(Below(d, j))
  <2>1. AtLeast(d, j) \subseteq Threads(d) /\ Below(d, j) \subseteq Litter(d)
    BY DEF AtLeast, Below
  <2> QED BY <2>1, <1>1, <1>4, FS_Subset
<1> QED BY <1>1, <1>4, <1>5

(* A refused caller leaves room for one more at the next attempt.          *)
LEMMA Refused ==
    ASSUME Inv, Crowd, NEW l \in Linkers, pc[l] = "staging", stages[Staged(l)] # Missing
    PROVE  LET d == Pid[l]
               a == attempt[l] IN
           (a + 1) + Cardinality(AtLeast(d, a + 1)) + 1
               <= Cardinality(Threads(d)) + Cardinality(Below(d, a + 1))
<1> DEFINE d == Pid[l]
           a == attempt[l]
           here == AtLeast(d, a)
           next == AtLeast(d, a + 1)
<1>1. d \in Pids /\ a \in Nat /\ a + 1 \in Nat /\ l \in Threads(d)
  BY DEF Inv, TypeOK, Threads
<1>2. /\ IsFiniteSet(here) /\ IsFiniteSet(next) /\ IsFiniteSet(Threads(d))
      /\ IsFiniteSet(Below(d, a)) /\ IsFiniteSet(Below(d, a + 1))
  BY <1>1, SetsAreFinite DEF Inv
<1>3. l \in here /\ l \notin next
  BY <1>1 DEF AtLeast
<1>4. a + Cardinality(here) <= Cardinality(Threads(d)) + Cardinality(Below(d, a))
  BY <1>1, <1>3 DEF Crowd
<1>5. /\ Cardinality(here) \in Nat /\ Cardinality(next) \in Nat
      /\ Cardinality(Threads(d)) \in Nat
      /\ Cardinality(Below(d, a)) \in Nat /\ Cardinality(Below(d, a + 1)) \in Nat
  BY <1>2, FS_CardinalityType
<1>6. IsFiniteSet(here \ {l}) /\ Cardinality(here \ {l}) = Cardinality(here) - 1
  BY <1>2, <1>3, FS_RemoveElement
<1>7. next \subseteq here \ {l}
  <2>1. \A k \in Threads(d) : attempt[k] \in Nat
    BY DEF Inv, TypeOK, Threads
  <2>2. \A n \in Nat : n >= a + 1 => n >= a
    BY <1>1
  <2> QED BY <1>3, <2>1, <2>2 DEF AtLeast
<1>8. Below(d, a) \subseteq Below(d, a + 1)
  BY <1>1 DEF Below, Litter, Inv, TypeOK, Name
<1>9. CASE Staged(l) \in litter
  <2>1. Staged(l) \in Below(d, a + 1) /\ Staged(l) \notin Below(d, a)
    BY <1>1, <1>9 DEF Below, Litter, Staged
  <2>2. /\ IsFiniteSet(Below(d, a) \cup {Staged(l)})
        /\ Cardinality(Below(d, a) \cup {Staged(l)}) = Cardinality(Below(d, a)) + 1
    BY <2>1, <1>2, FS_AddElement
  <2>3. Below(d, a) \cup {Staged(l)} \subseteq Below(d, a + 1)
    BY <2>1, <1>8
  <2>4. Cardinality(Below(d, a)) + 1 <= Cardinality(Below(d, a + 1))
    BY <2>2, <2>3, <1>2, FS_Subset
  <2>5. Cardinality(next) <= Cardinality(here) - 1
    BY <1>6, <1>7, FS_Subset
  <2> HIDE DEF d, a, here, next
  <2>6. (a + 1) + Cardinality(next) + 1 <= Cardinality(Threads(d)) + Cardinality(Below(d, a + 1))
    BY <2>4, <2>5, <1>1, <1>4, <1>5
  <2> QED BY <2>6 DEF d, a, next
<1>10. CASE Staged(l) \notin litter
  <2>1. PICK k \in Linkers : pc[k] \in {"staged", "cleaning"} /\ Staged(k) = Staged(l)
    BY <1>10, StagedIsName DEF Inv, StagesReclaimed
  <2>2. k # l /\ k \in here \ {l} /\ k \notin next
    BY <2>1, <1>1 DEF Staged, AtLeast, Threads
  <2>3. /\ IsFiniteSet((here \ {l}) \ {k})
        /\ Cardinality((here \ {l}) \ {k}) = Cardinality(here) - 2
    <3>1. /\ IsFiniteSet((here \ {l}) \ {k})
          /\ Cardinality((here \ {l}) \ {k}) = Cardinality(here \ {l}) - 1
      BY ONLY <2>2, <1>6, FS_RemoveElement
    <3>2. Cardinality((here \ {l}) \ {k}) = (Cardinality(here) - 1) - 1
      BY ONLY <3>1, <1>6
    <3>3. \A n \in Nat : (n - 1) - 1 = n - 2
      OBVIOUS
    <3> QED BY ONLY <3>1, <3>2, <3>3, <1>5
  <2>4. next \subseteq (here \ {l}) \ {k}
    BY <1>7, <2>2
  <2>5. Cardinality(next) <= Cardinality(here) - 2
    BY <2>3, <2>4, FS_Subset
  <2>6. Cardinality(Below(d, a)) <= Cardinality(Below(d, a + 1))
    BY <1>2, <1>8, FS_Subset
  <2> HIDE DEF d, a, here, next
  <2>7. (a + 1) + Cardinality(next) + 1 <= Cardinality(Threads(d)) + Cardinality(Below(d, a + 1))
    BY <2>5, <2>6, <1>1, <1>4, <1>5
  <2> QED BY <2>7 DEF d, a, next
<1> QED BY <1>9, <1>10

(* A step in which nobody advances and litter only grows.                  *)
LEMMA CalmStep ==
    ASSUME TypeOK, TypeOK', Crowd, litter \subseteq litter',
           \A k \in Linkers : attempt'[k] \in {attempt[k], 0}
    PROVE  Crowd'
<1> SUFFICES ASSUME NEW d \in Pids, NEW j \in Nat, AtLeast(d, j)' # {}
             PROVE  j + Cardinality(AtLeast(d, j)')
                      <= Cardinality(Threads(d)) + Cardinality(Below(d, j)')
  BY DEF Crowd, Threads
<1>1. /\ IsFiniteSet(Threads(d)) /\ IsFiniteSet(AtLeast(d, j)) /\ IsFiniteSet(Below(d, j))
      /\ IsFiniteSet(AtLeast(d, j)') /\ IsFiniteSet(Below(d, j)')
  <2>1. /\ IsFiniteSet(Threads(d)) /\ IsFiniteSet(AtLeast(d, j)) /\ IsFiniteSet(Below(d, j))
    BY SetsAreFinite
  <2>2. IsFiniteSet(Litter(d)')
    <3>1. IsFiniteSet({d} \X (0 .. Attempts - 1))
      BY NamesFinite
    <3>2. Litter(d)' \subseteq {d} \X (0 .. Attempts - 1)
      BY DEF TypeOK, Litter, Name
    <3> QED BY <3>1, <3>2, FS_Subset
  <2>3. AtLeast(d, j)' \subseteq Threads(d) /\ Below(d, j)' \subseteq Litter(d)'
    BY DEF AtLeast, Below, Threads
  <2> QED BY <2>1, <2>2, <2>3, FS_Subset
<1>2. /\ Cardinality(Threads(d)) \in Nat /\ Cardinality(AtLeast(d, j)) \in Nat
      /\ Cardinality(Below(d, j)) \in Nat
      /\ Cardinality(AtLeast(d, j)') \in Nat /\ Cardinality(Below(d, j)') \in Nat
  BY <1>1, FS_CardinalityType
<1>3. Cardinality(Below(d, j)) <= Cardinality(Below(d, j)')
  <2>1. Below(d, j) \subseteq Below(d, j)'
    BY DEF Below, Litter
  <2> QED BY <2>1, <1>1, FS_Subset
<1>4. CASE j = 0
  <2>1. AtLeast(d, j)' \subseteq Threads(d)
    BY DEF AtLeast, Threads
  <2> QED BY <2>1, <1>1, <1>2, <1>4, FS_Subset
<1>5. CASE j # 0
  <2>1. AtLeast(d, j)' \subseteq AtLeast(d, j)
    BY <1>5 DEF AtLeast, Threads, TypeOK
  <2>2. Cardinality(AtLeast(d, j)') <= Cardinality(AtLeast(d, j))
    BY <2>1, <1>1, FS_Subset
  <2>3. j + Cardinality(AtLeast(d, j)) <= Cardinality(Threads(d)) + Cardinality(Below(d, j))
    BY <2>1 DEF Crowd
  <2> QED BY <2>2, <2>3, <1>2, <1>3
<1> QED BY <1>4, <1>5

LEMMA AdvanceStep ==
    ASSUME Inv, Crowd, NEW l \in Linkers, pc[l] = "staging", stages[Staged(l)] # Missing,
           attempt' = [attempt EXCEPT ![l] = attempt[l] + 1], UNCHANGED litter
    PROVE  Crowd'
<1> SUFFICES ASSUME NEW d \in Pids, NEW j \in Nat, AtLeast(d, j)' # {}
             PROVE  j + Cardinality(AtLeast(d, j)')
                      <= Cardinality(Threads(d)) + Cardinality(Below(d, j))
  BY DEF Crowd, Threads, Below, Litter
<1>1. IsFiniteSet(AtLeast(d, j)) /\ IsFiniteSet(Threads(d)) /\ IsFiniteSet(Below(d, j))
  BY SetsAreFinite DEF Inv
<1>2. CASE d = Pid[l] /\ j = attempt[l] + 1
  <2>1. j + Cardinality(AtLeast(d, j)) + 1 <= Cardinality(Threads(d)) + Cardinality(Below(d, j))
    BY <1>2, Refused
  <2>2. AtLeast(d, j)' = AtLeast(d, j) \cup {l}
    BY <1>2 DEF AtLeast, Threads, Inv, TypeOK
  <2>3. Cardinality(AtLeast(d, j) \cup {l}) <= Cardinality(AtLeast(d, j)) + 1
    <3>1. Cardinality(AtLeast(d, j) \cup {l})
            = IF l \in AtLeast(d, j) THEN Cardinality(AtLeast(d, j))
                                     ELSE Cardinality(AtLeast(d, j)) + 1
      BY <1>1, FS_AddElement
    <3>2. Cardinality(AtLeast(d, j)) \in Nat
      BY <1>1, FS_CardinalityType
    <3> QED BY <3>1, <3>2
  <2>4. /\ Cardinality(AtLeast(d, j)) \in Nat /\ Cardinality(Threads(d)) \in Nat
        /\ Cardinality(Below(d, j)) \in Nat /\ Cardinality(AtLeast(d, j) \cup {l}) \in Nat
    BY <1>1, FS_CardinalityType, FS_AddElement
  <2> QED BY <2>1, <2>2, <2>3, <2>4
<1>3. CASE ~(d = Pid[l] /\ j = attempt[l] + 1)
  <2>1. AtLeast(d, j)' = AtLeast(d, j)
    BY <1>3 DEF AtLeast, Threads, Inv, TypeOK
  <2> QED BY <2>1 DEF Crowd
<1> QED BY <1>2, <1>3

SearchInv == Inv /\ Crowd /\ GivesUp

LEMMA InitSearch == Init => SearchInv
<1> SUFFICES ASSUME Init PROVE SearchInv
  OBVIOUS
<1>1. Inv
  BY InitInv
<1>2. GivesUp
  BY DEF Init, GivesUp
<1>3. ASSUME NEW d \in Pids, NEW j \in Nat, AtLeast(d, j) # {}
      PROVE  j + Cardinality(AtLeast(d, j)) <= Cardinality(Threads(d)) + Cardinality(Below(d, j))
  <2>1. j = 0 /\ AtLeast(d, j) = Threads(d)
    BY <1>3 DEF Init, AtLeast, Threads
  <2>2. Cardinality(Threads(d)) \in Nat /\ Cardinality(Below(d, j)) \in Nat
    BY <1>1, SetsAreFinite, FS_CardinalityType DEF Inv
  <2> QED BY <2>1, <2>2
<1> QED BY <1>1, <1>2, <1>3 DEF SearchInv, Crowd

LEMMA LitterGrows ==
    ASSUME TypeOK, TypeOK', litter \subseteq litter', NEW d \in Pids
    PROVE  /\ Cardinality(Litter(d)) \in Nat /\ Cardinality(Litter(d)') \in Nat
           /\ Cardinality(Litter(d)) <= Cardinality(Litter(d)')
<1>1. IsFiniteSet({d} \X (0 .. Attempts - 1))
  BY NamesFinite
<1>2. Litter(d)' \subseteq {d} \X (0 .. Attempts - 1) /\ Litter(d) \subseteq Litter(d)'
  BY DEF TypeOK, Litter, Name
<1>3. IsFiniteSet(Litter(d)')
  BY <1>1, <1>2, FS_Subset
<1> QED BY <1>2, <1>3, FS_Subset, FS_CardinalityType

LEMMA NextSearch == SearchInv /\ [Next]_vars => SearchInv'
<1> SUFFICES ASSUME SearchInv, [Next]_vars PROVE SearchInv'
  OBVIOUS
<1>1. Inv /\ Inv' /\ TypeOK /\ TypeOK'
  BY NextInv DEF SearchInv, Inv
<1> DEFINE Calm == /\ litter \subseteq litter'
                   /\ \A k \in Linkers : attempt'[k] \in {attempt[k], 0}
                   /\ \A k \in Linkers : change'[k] = "NoName" => change[k] = "NoName"
<1>2. CASE Calm
  <2>1. Crowd'
    BY <1>1, <1>2, CalmStep DEF SearchInv
  <2>2. ASSUME NEW l \in Linkers, change'[l] = "NoName"
        PROVE  Attempts + 1 <= Cardinality(Threads(Pid[l])) + Cardinality(Litter(Pid[l])')
    <3>1. Attempts + 1 <= Cardinality(Threads(Pid[l])) + Cardinality(Litter(Pid[l]))
      BY <1>2, <2>2 DEF SearchInv, GivesUp
    <3>2. Cardinality(Threads(Pid[l])) \in Nat
      BY <1>1, SetsAreFinite, FS_CardinalityType
    <3>3. /\ Cardinality(Litter(Pid[l])) \in Nat /\ Cardinality(Litter(Pid[l])') \in Nat
          /\ Cardinality(Litter(Pid[l])) <= Cardinality(Litter(Pid[l])')
      BY <1>1, <1>2, LitterGrows
    <3> QED BY <3>1, <3>2, <3>3
  <2> QED BY <1>1, <2>1, <2>2 DEF SearchInv, GivesUp, Threads
<1>3. ASSUME NEW l \in Linkers, StageLink(l), stages[Staged(l)] # Missing PROVE SearchInv'
  <2>1. pc[l] = "staging" /\ litter' = litter
    BY <1>3 DEF StageLink
  <2>2. CASE attempt[l] + 1 < Attempts
    <3>1. attempt' = [attempt EXCEPT ![l] = attempt[l] + 1] /\ change' = change
      BY <1>3, <2>2 DEF StageLink, Stay
    <3>2. Crowd'
      BY <1>1, <1>3, <2>1, <3>1, AdvanceStep DEF SearchInv
    <3>3. GivesUp'
      BY <2>1, <3>1 DEF SearchInv, GivesUp, Threads, Litter
    <3> QED BY <1>1, <3>2, <3>3 DEF SearchInv
  <2>3. CASE ~(attempt[l] + 1 < Attempts)
    <3>1. attempt' = attempt /\ change' = [change EXCEPT ![l] = "NoName"]
      BY <1>3, <2>3 DEF StageLink, Return
    <3>2. Crowd'
      BY <2>1, <3>1 DEF SearchInv, Crowd, AtLeast, Below, Threads, Litter
    <3>3. Attempts + 1 <= Cardinality(Threads(Pid[l])) + Cardinality(Litter(Pid[l]))
      <4> DEFINE d == Pid[l]
                 a == attempt[l]
      <4>1. (a + 1) + Cardinality(AtLeast(d, a + 1)) + 1
               <= Cardinality(Threads(d)) + Cardinality(Below(d, a + 1))
        BY <1>1, <1>3, <2>1, Refused DEF SearchInv
      <4>2. d \in Pids /\ a \in Nat /\ a + 1 \in Nat /\ a + 1 = Attempts
        BY <1>1, <2>3 DEF TypeOK
      <4>3. /\ IsFiniteSet(Threads(d)) /\ IsFiniteSet(Litter(d))
            /\ IsFiniteSet(AtLeast(d, a + 1)) /\ IsFiniteSet(Below(d, a + 1))
        BY <1>1, <4>2, SetsAreFinite
      <4>4. /\ Cardinality(Threads(d)) \in Nat /\ Cardinality(Litter(d)) \in Nat
            /\ Cardinality(AtLeast(d, a + 1)) \in Nat /\ Cardinality(Below(d, a + 1)) \in Nat
        BY <4>3, FS_CardinalityType
      <4>5. Cardinality(Below(d, a + 1)) <= Cardinality(Litter(d))
        <5>1. Below(d, a + 1) \subseteq Litter(d)
          BY DEF Below
        <5> QED BY <5>1, <4>3, FS_Subset
      <4> HIDE DEF a
      <4>6. Attempts + 1 <= Cardinality(Threads(d)) + Cardinality(Litter(d))
        BY <4>1, <4>2, <4>4, <4>5
      <4> QED BY <4>6
    <3>4. GivesUp'
      <4> SUFFICES ASSUME NEW k \in Linkers, change'[k] = "NoName"
                   PROVE  Attempts + 1 <= Cardinality(Threads(Pid[k])) + Cardinality(Litter(Pid[k]))
        BY <2>1 DEF GivesUp, Threads, Litter
      <4>1. CASE k = l
        BY <4>1, <3>3
      <4>2. CASE k # l
        BY <4>2, <1>1, <3>1 DEF SearchInv, GivesUp, TypeOK
      <4> QED BY <4>1, <4>2
    <3> QED BY <1>1, <3>2, <3>4 DEF SearchInv
  <2> QED BY <2>2, <2>3
<1>4. ASSUME NEW l \in Linkers, LinkerStep(l), ~(StageLink(l) /\ stages[Staged(l)] # Missing)
      PROVE  Calm
  BY <1>1, <1>4 DEF LinkerStep, LinkCall, ObserveSource, ObserveView, Create, ReadPrevious,
        StageLink, Replace, ReplaceFails, CleanUp, PostObserve, LinkFails, Stay, Return, Goto,
        TypeOK, Observed
<1>5. ASSUME NEW u \in Unlinkers, UnlinkerStep(u) PROVE Calm
  BY <1>5 DEF UnlinkerStep, UnlinkObserve, UnlinkRemove, UnlinkFails, linkers
<1>6. ASSUME NEW d \in Pids, Die(d) \/ Reuse(d) PROVE Calm
  BY <1>6 DEF Die, Reuse
<1>7. ASSUME NEW t \in Trees, PublishTree(t) \/ RemoveTree(t) PROVE Calm
  BY <1>7 DEF PublishTree, RemoveTree, linkers
<1>8. ASSUME UNCHANGED vars PROVE Calm
  BY <1>8 DEF vars, linkers
<1> QED BY <1>2, <1>3, <1>4, <1>5, <1>6, <1>7, <1>8 DEF Next

(* A link gives up for want of a staged name only when 128 (Attempts) of   *)
(* them are littered or at hand to concurrent threads of its process: the  *)
(* names do not wear out by use, only by crashes and failed clean-ups.     *)
THEOREM NamesAreEnough == Spec => []NamesSuffice
<1>1. SearchInv => NamesSuffice
  <2> SUFFICES ASSUME SearchInv, NEW l \in Linkers
      PROVE LET taken == Cardinality(Litter(Pid[l])) + Cardinality(Threads(Pid[l])) - 1 IN
            /\ attempt[l] <= taken
            /\ change[l] = "NoName" => Attempts <= taken
    BY DEF NamesSuffice
  <2> DEFINE d == Pid[l]
             a == attempt[l]
  <2>1. TypeOK /\ d \in Pids /\ a \in Nat
    BY DEF SearchInv, Inv, TypeOK
  <2>2. /\ IsFiniteSet(Threads(d)) /\ IsFiniteSet(Litter(d))
        /\ IsFiniteSet(AtLeast(d, a)) /\ IsFiniteSet(Below(d, a))
    BY <2>1, SetsAreFinite
  <2>3. /\ Cardinality(Threads(d)) \in Nat /\ Cardinality(Litter(d)) \in Nat
        /\ Cardinality(AtLeast(d, a)) \in Nat /\ Cardinality(Below(d, a)) \in Nat
    BY <2>2, FS_CardinalityType
  <2>4. AtLeast(d, a) # {}
    BY <2>1 DEF AtLeast, Threads
  <2>5. Cardinality(AtLeast(d, a)) # 0
    BY <2>2, <2>4, FS_EmptySet
  <2>6. a + Cardinality(AtLeast(d, a)) <= Cardinality(Threads(d)) + Cardinality(Below(d, a))
    BY <2>1, <2>4 DEF SearchInv, Crowd
  <2>7. Cardinality(Below(d, a)) <= Cardinality(Litter(d))
    <3>1. Below(d, a) \subseteq Litter(d)
      BY DEF Below
    <3> QED BY <3>1, <2>2, FS_Subset
  <2>8. change[l] = "NoName" => Attempts + 1 <= Cardinality(Threads(d)) + Cardinality(Litter(d))
    BY DEF SearchInv, GivesUp
  <2> HIDE DEF a
  <2>9. a <= Cardinality(Litter(d)) + Cardinality(Threads(d)) - 1
    BY <2>1, <2>3, <2>5, <2>6, <2>7
  <2>10. change[l] = "NoName" => Attempts <= Cardinality(Litter(d)) + Cardinality(Threads(d)) - 1
    BY <2>3, <2>8
  <2> QED BY <2>9, <2>10 DEF a
<1> QED BY <1>1, InitSearch, NextSearch, PTL DEF Spec

(***************************************************************************)
(* The refinement: Create and Replace are the atomic Create and Turn, the  *)
(* other ends of a link its answers, and UnlinkRemove the atomic Unlink;   *)
(* what a link prepares and observes the atomic view does not see.         *)
(***************************************************************************)
LEMMA InitIsAtomic == Init => Atomic!Init
BY DEF Init, Atomic!Init, Live

Calling == {l \in Linkers : pc[l] \in Live}

(* A step that keeps a call under way and shows nothing.                   *)
LEMMA PreparesIsAtomic ==
    ASSUME Inv, NEW l \in Linkers, pc[l] \in Live, NEW step \in Live, Stay(l, step),
           UNCHANGED <<view, replaced, unlinkers>>
    PROVE  UNCHANGED Atomic!avars
<1>1. Calling' = Calling
  BY DEF Stay, Goto, Calling, Inv, TypeOK
<1> QED BY <1>1 DEF Stay, Calling, Atomic!avars, unlinkers

(* A step that answers and leaves the view alone.                          *)
LEMMA AnswersIsAtomic ==
    ASSUME Inv, NEW l \in Linkers, pc[l] \in Live,
           NEW answer \in {"Replaced", "NotDirectory", "ViewConflict", "BeforeLink", "NoName"},
           Return(l, answer), UNCHANGED <<view, replaced, unlinkers>>,
           answer \in {"NotDirectory", "NoName"} => replaced[l] = "nothing",
           answer = "Replaced" => replaced[l] # "nothing"
    PROVE  Atomic!Next
<1>1. l \in Calling /\ Calling' = Calling \ {l}
  BY DEF Return, Goto, Calling, Live, Inv, TypeOK
<1>2. Atomic!Return(l, answer)
  BY <1>1 DEF Return, Calling, Atomic!Return, unlinkers
<1>3. CASE answer = "Replaced"
  BY <1>2, <1>3 DEF Atomic!Turned, Atomic!Next
<1>4. CASE answer \in {"ViewConflict", "BeforeLink"}
  BY <1>2, <1>4 DEF Atomic!Conflict, Atomic!Next
<1>5. CASE answer \in {"NotDirectory", "NoName"}
  BY <1>2, <1>5 DEF Atomic!Refuse, Atomic!Next
<1> QED BY <1>3, <1>4, <1>5

LEMMA LinkerIsAtomic ==
    ASSUME Inv, NEW l \in Linkers, LinkerStep(l)
    PROVE  Atomic!Next \/ UNCHANGED Atomic!avars
<1> USE DEF Inv, Live
<1>1. CASE LinkCall(l)
  <2>1. l \notin Calling /\ Calling' = Calling \cup {l}
    BY <1>1 DEF LinkCall, Goto, Calling, TypeOK
  <2>2. Atomic!Call(l)
    BY <1>1, <2>1 DEF LinkCall, Calling, Atomic!Call, unlinkers
  <2> QED BY <2>2 DEF Atomic!Next
<1>2. CASE ObserveSource(l)
  <2>1. pc[l] = "source" /\ replaced[l] = "nothing" /\ UNCHANGED <<view, replaced, unlinkers>>
    BY <1>2 DEF ObserveSource, Progress
  <2>2. Stay(l, "view") \/ Return(l, "NotDirectory")
    BY <1>2 DEF ObserveSource
  <2> QED BY <2>1, <2>2, PreparesIsAtomic, AnswersIsAtomic
<1>3. CASE ObserveView(l)
  <2>1. pc[l] = "view" /\ UNCHANGED <<view, replaced, unlinkers>>
    BY <1>3 DEF ObserveView
  <2>2. Stay(l, "creating") \/ Stay(l, "reading") \/ Return(l, "ViewConflict")
    BY <1>3 DEF ObserveView
  <2> QED BY <2>1, <2>2, PreparesIsAtomic, AnswersIsAtomic
<1>4. CASE Create(l)
  <2>1. pc[l] = "creating" /\ replaced[l] = "nothing" /\ UNCHANGED <<replaced, unlinkers>>
    BY <1>4 DEF Create, Progress
  <2>2. CASE view = Missing
    <3>1. view' = Wants[l] /\ Return(l, "Created")
      BY <1>4, <2>2 DEF Create
    <3>2. l \in Calling /\ Calling' = Calling \ {l}
      BY <2>1, <3>1 DEF Return, Goto, Calling, TypeOK
    <3>3. Atomic!Create(l)
      BY <2>1, <2>2, <3>1, <3>2 DEF Return, Calling, Atomic!Create, Atomic!Return, unlinkers
    <3> QED BY <3>3 DEF Atomic!Next
  <2>3. CASE view # Missing
    <3>1. UNCHANGED view /\ Return(l, "BeforeLink")
      BY <1>4, <2>3 DEF Create
    <3> QED BY <2>1, <3>1, AnswersIsAtomic
  <2> QED BY <2>2, <2>3
<1>5. CASE ReadPrevious(l)
  <2>1. pc[l] = "reading" /\ UNCHANGED <<view, replaced, unlinkers>>
    BY <1>5 DEF ReadPrevious
  <2>2. Stay(l, "staging") \/ Return(l, "BeforeLink")
    BY <1>5 DEF ReadPrevious
  <2> QED BY <2>1, <2>2, PreparesIsAtomic, AnswersIsAtomic
<1>6. CASE StageLink(l)
  <2>1. pc[l] = "staging" /\ replaced[l] = "nothing" /\ UNCHANGED <<view, replaced, unlinkers>>
    BY <1>6 DEF StageLink, Progress
  <2>2. Stay(l, "staged") \/ Stay(l, "staging") \/ Return(l, "NoName")
    BY <1>6 DEF StageLink
  <2> QED BY <2>1, <2>2, PreparesIsAtomic, AnswersIsAtomic
<1>7. CASE Replace(l)
  <2>1. /\ pc[l] = "staged" /\ replaced[l] = "nothing" /\ stages[Staged(l)] = Wants[l]
        /\ view \in Trees \cup {Missing} /\ view # Dir /\ UNCHANGED unlinkers
    BY <1>7 DEF Replace, Progress, StagedIsOwn, NotForeign, Past, TypeOK
  <2>2. view' = Wants[l] /\ replaced' = [replaced EXCEPT ![l] = view] /\ Stay(l, "checking")
    BY <1>7, <2>1 DEF Replace
  <2>3. l \in Calling /\ Calling' = Calling
    BY <2>1, <2>2 DEF Stay, Goto, Calling, TypeOK
  <2>4. Atomic!Turn(l)
    BY <2>1, <2>2, <2>3 DEF Stay, Calling, Atomic!Turn, unlinkers
  <2> QED BY <2>4 DEF Atomic!Next
<1>8. CASE ReplaceFails(l)
  <2>1. pc[l] = "staged" /\ Stay(l, "cleaning") /\ UNCHANGED <<view, replaced, unlinkers>>
    BY <1>8 DEF ReplaceFails
  <2> QED BY <2>1, PreparesIsAtomic
<1>9. CASE CleanUp(l)
  <2>1. pc[l] = "cleaning" /\ Return(l, "BeforeLink") /\ UNCHANGED <<view, replaced, unlinkers>>
    BY <1>9 DEF CleanUp
  <2> QED BY <2>1, AnswersIsAtomic
<1>10. CASE PostObserve(l)
  <2>1. pc[l] = "checking" /\ UNCHANGED <<view, replaced, unlinkers>>
    BY <1>10 DEF PostObserve
  <2>2. replaced[l] # "nothing"
    BY <2>1 DEF Progress
  <2>3. Return(l, "Replaced") \/ Return(l, "ViewConflict")
    BY <1>10 DEF PostObserve
  <2> QED BY <2>1, <2>2, <2>3, AnswersIsAtomic
<1>11. CASE LinkFails(l)
  <2>1. /\ pc[l] \in Live /\ Return(l, "BeforeLink")
        /\ UNCHANGED <<view, replaced, unlinkers>>
    BY <1>11 DEF LinkFails
  <2> QED BY <2>1, AnswersIsAtomic
<1> QED BY <1>1, <1>2, <1>3, <1>4, <1>5, <1>6, <1>7, <1>8, <1>9, <1>10, <1>11 DEF LinkerStep

(* What an unlinker takes away is a view: nobody made it foreign since.    *)
LEMMA UnlinkerIsAtomic ==
    ASSUME Inv, NEW u \in Unlinkers, UnlinkerStep(u)
    PROVE  Atomic!Next \/ UNCHANGED Atomic!avars
<1> USE DEF Inv, linkers, Withdraw
<1> SUFFICES Atomic!Unlink(u) \/ Atomic!Decline(u) \/ UNCHANGED Atomic!avars
  BY DEF Atomic!Next
<1>1. CASE UnlinkObserve(u)
  <2>1. /\ UNCHANGED <<view, pc, change, replaced>>
        /\ \/ UNCHANGED withdrawal
           \/ view = Missing /\ withdrawal' = [withdrawal EXCEPT ![u] = "Unchanged"]
           \/ view # Missing /\ withdrawal' = [withdrawal EXCEPT ![u] = "NotActiveView"]
    BY <1>1 DEF UnlinkObserve, Observed
  <2> QED BY <2>1 DEF Atomic!Decline, Atomic!Withdraw, Atomic!avars
<1>2. CASE UnlinkRemove(u)
  <2>1. view \in Trees \cup {Missing} /\ UNCHANGED <<pc, change, replaced>>
    BY <1>2 DEF UnlinkRemove, NotForeign, TypeOK
  <2> QED BY <1>2, <2>1 DEF UnlinkRemove, Atomic!Unlink, Atomic!Decline, Atomic!Withdraw
<1>3. CASE UnlinkFails(u)
  BY <1>3 DEF UnlinkFails, Atomic!Decline, Atomic!Withdraw
<1> QED BY <1>1, <1>2, <1>3 DEF UnlinkerStep

(* A death ends the calls of one process at once; trees are not seen.      *)
LEMMA SurroundingsAreAtomic ==
    ASSUME Inv, \/ \E d \in Pids : Die(d) \/ Reuse(d)
                \/ \E t \in Trees : PublishTree(t) \/ RemoveTree(t)
    PROVE  Atomic!Next \/ UNCHANGED Atomic!avars
<1>1. ASSUME NEW d \in Pids, Die(d) PROVE Atomic!Next
  <2> SUFFICES \E dead \in SUBSET Calling : Atomic!Die(dead)
    BY DEF Atomic!Next, Calling
  <2>1. PICK dead \in SUBSET Calling : dead = {l \in Calling : Pid[l] = d}
    OBVIOUS
  <2>2. Calling' = Calling \ dead
    BY <1>1, <2>1 DEF Die, Calling, Live, Inv, TypeOK
  <2>3. Atomic!Die(dead)
    BY <1>1, <2>2 DEF Die, Calling, Atomic!Die, unlinkers
  <2> QED BY <2>3
<1>2. ASSUME NEW d \in Pids, Reuse(d) PROVE UNCHANGED Atomic!avars
  <2>1. Calling' = Calling
    BY <1>2 DEF Reuse, Calling, Live, Inv, TypeOK
  <2> QED BY <1>2, <2>1 DEF Reuse, Calling, Atomic!avars, unlinkers
<1>3. ASSUME NEW t \in Trees, PublishTree(t) \/ RemoveTree(t) PROVE UNCHANGED Atomic!avars
  BY <1>3 DEF PublishTree, RemoveTree, Atomic!avars, linkers, unlinkers
<1> QED BY <1>1, <1>2, <1>3

LEMMA NextIsAtomic == Inv /\ [Next]_vars => [Atomic!Next]_(Atomic!avars)
<1> SUFFICES ASSUME Inv, [Next]_vars
             PROVE  Atomic!Next \/ UNCHANGED Atomic!avars
  OBVIOUS
<1>1. CASE UNCHANGED vars
  BY <1>1 DEF vars, linkers, unlinkers, Atomic!avars
<1> QED BY <1>1, LinkerIsAtomic, UnlinkerIsAtomic, SurroundingsAreAtomic DEF Next

(* Linking and unlinking implement the atomic view, for any threads,       *)
(* processes, trees and staged names.                                      *)
THEOREM ViewIsAtomic == Spec => AtomicViewSpec
BY InitIsAtomic, NextIsAtomic, ViewInvariant, PTL DEF Spec, AtomicViewSpec, Atomic!Spec
=============================================================================
