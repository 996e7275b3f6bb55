------------------------- MODULE PublicationProofs -------------------------
(***************************************************************************)
(* Proofs about publication, for any number of publishers and removers and *)
(* any trees.                                                              *)
(*                                                                         *)
(* The argument: only a tree that was renamed can be at the target or held *)
(* by a remover (Visible), and until its rename nobody but its publisher   *)
(* changes it, who has completed it before (Prepared).  A remover that is  *)
(* under way while the target is missing has seen it missing, and has      *)
(* changed nothing before it opened a directory (Watched).                 *)
(***************************************************************************)
EXTENDS PublicationProps, TLAPS

Before == {"idle", "building", "restaging", "copying", "admitting", "renaming"}

Visible ==
    /\ \A p \in Publishers : pc[p] \in Before => p \notin renamed
    /\ target # None => target \in renamed
    /\ \A r \in Removers : held[r] # None => held[r] \in renamed
    /\ \A r \in Removers : rpc[r] = "emptying" => held[r] # None
    /\ \A p \in renamed : tree[p] = Source[p] \/ p \in touched

Prepared ==
    \A p \in Publishers :
        /\ pc[p] \in {"restaging", "copying"} => p \in Elsewhere /\ origin[p] = Source[p]
        /\ pc[p] = "copying" => Source[p] # {}
        /\ pc[p] \in {"admitting", "renaming"} => tree[p] = Source[p]
        /\ pc[p] = "renaming" => Source[p] # {}

Told ==
    \A p \in Publishers : pc[p] \in {"dropping", "done"} =>
        /\ outcome[p] = "Published" <=> p \in renamed
        /\ outcome[p] = "AlreadyPublished" => renamed \ {p} # {}
        /\ outcome[p] = "NoTree" <=> Source[p] = {} /\ outcome[p] # "Failed"

Watched ==
    /\ target = None => Removing \subseteq absent
    /\ \A r \in Removers :
         /\ rpc[r] # "done" => removal[r] = "none"
         /\ rpc[r] \in {"idle", "file", "directory"} => r \notin changed
    /\ RemovalTruthful

Inv == TypeOK /\ Visible /\ Prepared /\ Told /\ NoResidue /\ Watched

USE ConstantsOK DEF ConstantsOK

LEMMA SpaceIsPair ==
    \A s \in Space : /\ s[1] \in Publishers
                     /\ s = <<s[1], "beside">> \/ s = <<s[1], "origin">>
BY DEF Space

LEMMA InitInv == Init => Inv
BY DEF Init, Inv, TypeOK, Visible, Prepared, Told, NoResidue, Watched, Removing,
       RemovalTruthful, Before, Outcome, Space

LEMMA StutterInv == Inv /\ UNCHANGED vars => Inv'
BY DEF vars, trees, publishers, removers, Inv, TypeOK, Visible, Prepared, Told,
       NoResidue, Watched, Removing, RemovalTruthful, Space

LEMMA StageStep == ASSUME Inv, NEW p \in Publishers, Stage(p) PROVE Inv'
<1> USE DEF Stage, SameTarget, Goto, removers, Inv
<1>1. TypeOK'
  BY DEF TypeOK, Home, Space
<1>2. Visible' /\ Prepared' /\ Told'
  BY DEF TypeOK, Visible, Prepared, Told, Before
<1>3. NoResidue'
  BY SpaceIsPair DEF TypeOK, NoResidue
<1>4. Watched'
  BY DEF Watched, Removing, RemovalTruthful
<1> QED BY <1>1, <1>2, <1>3, <1>4

LEMMA PutStep == ASSUME Inv, NEW p \in Publishers, Put(p) PROVE Inv'
<1> USE DEF Put, SameTarget, removers, publishers, Inv
<1>1. TypeOK'
  BY DEF TypeOK
<1>2. Visible' /\ Prepared' /\ Told'
  BY DEF TypeOK, Visible, Prepared, Told, Before
<1>3. NoResidue' /\ Watched'
  BY DEF NoResidue, Watched, Removing, RemovalTruthful
<1> QED BY <1>1, <1>2, <1>3

LEMMA PublishStep == ASSUME Inv, NEW p \in Publishers, Publish(p) PROVE Inv'
<1> USE DEF Publish, SameTarget, Goto, trees, removers, Inv
<1>1. TypeOK'
  BY DEF TypeOK
<1>2. Visible' /\ Prepared' /\ Told'
  BY DEF TypeOK, Visible, Prepared, Told, Before, Staged
<1>3. NoResidue' /\ Watched'
  BY SpaceIsPair DEF TypeOK, NoResidue, Watched, Removing, RemovalTruthful
<1> QED BY <1>1, <1>2, <1>3

LEMMA RestageStep == ASSUME Inv, NEW p \in Publishers, Restage(p) PROVE Inv'
<1> USE DEF Restage, Conclude, SameTarget, Goto, removers, Inv
<1>1. TypeOK'
  BY DEF TypeOK, Space, Outcome
<1>2. Visible' /\ Prepared' /\ Told'
  BY DEF TypeOK, Visible, Prepared, Told, Before
<1>3. NoResidue'
  BY SpaceIsPair DEF TypeOK, NoResidue
<1>4. Watched'
  BY DEF Watched, Removing, RemovalTruthful
<1> QED BY <1>1, <1>2, <1>3, <1>4

LEMMA CopyItemStep == ASSUME Inv, NEW p \in Publishers, CopyItem(p) PROVE Inv'
<1> USE DEF CopyItem, SameTarget, removers, publishers, Inv
<1>1. TypeOK'
  BY DEF TypeOK
<1>2. Visible' /\ Prepared' /\ Told'
  BY DEF TypeOK, Visible, Prepared, Told, Before
<1>3. NoResidue' /\ Watched'
  BY DEF NoResidue, Watched, Removing, RemovalTruthful
<1> QED BY <1>1, <1>2, <1>3

LEMMA CopyEndsStep == ASSUME Inv, NEW p \in Publishers, CopyEnds(p) PROVE Inv'
<1> USE DEF CopyEnds, Discard, SameTarget, Goto, removers, Inv
<1>1. TypeOK'
  BY DEF TypeOK
<1>2. Visible' /\ Prepared' /\ Told'
  BY DEF TypeOK, Visible, Prepared, Told, Before
<1>3. NoResidue'
  BY SpaceIsPair DEF TypeOK, NoResidue
<1>4. Watched'
  BY DEF Watched, Removing, RemovalTruthful
<1> QED BY <1>1, <1>2, <1>3, <1>4

LEMMA InspectStep == ASSUME Inv, NEW p \in Publishers, Inspect(p) PROVE Inv'
<1> USE DEF Inspect, Conclude, SameTarget, Goto, trees, removers, Inv
<1>1. TypeOK'
  BY DEF TypeOK, Outcome
<1>2. Visible' /\ Prepared' /\ Told'
  BY DEF TypeOK, Visible, Prepared, Told, Before
<1>3. NoResidue' /\ Watched'
  BY SpaceIsPair DEF TypeOK, NoResidue, Watched, Removing, RemovalTruthful
<1> QED BY <1>1, <1>2, <1>3

LEMMA RenameStep == ASSUME Inv, NEW p \in Publishers, Rename(p) PROVE Inv'
<1> USE DEF Rename, Conclude, SameTarget, Target, Goto, trees, removers, Inv
<1>1. TypeOK'
  BY DEF TypeOK, Outcome, Removing
<1>2. Visible' /\ Prepared'
  BY DEF TypeOK, Visible, Prepared, Before
<1>3. Told'
  BY DEF TypeOK, Visible, Prepared, Told, Before
<1>4. NoResidue'
  BY SpaceIsPair DEF TypeOK, NoResidue
<1>5. Watched'
  BY DEF TypeOK, Watched, Removing, RemovalTruthful
<1> QED BY <1>1, <1>2, <1>3, <1>4, <1>5

LEMMA PublishFailsStep == ASSUME Inv, NEW p \in Publishers, PublishFails(p) PROVE Inv'
<1> USE DEF PublishFails, Conclude, SameTarget, Goto, trees, removers, Inv
<1>1. TypeOK'
  BY DEF TypeOK, Outcome
<1>2. Visible' /\ Prepared' /\ Told'
  BY DEF TypeOK, Visible, Prepared, Told, Before
<1>3. NoResidue' /\ Watched'
  BY SpaceIsPair DEF TypeOK, NoResidue, Watched, Removing, RemovalTruthful
<1> QED BY <1>1, <1>2, <1>3

LEMMA DropStep == ASSUME Inv, NEW p \in Publishers, Drop(p) PROVE Inv'
<1> USE DEF Drop, Discard, SameTarget, Goto, removers, Inv
<1>1. TypeOK'
  BY DEF TypeOK
<1>2. Visible' /\ Prepared' /\ Told'
  BY DEF TypeOK, Visible, Prepared, Told, Before
<1>3. NoResidue'
  BY SpaceIsPair DEF TypeOK, NoResidue
<1>4. Watched'
  BY DEF Watched, Removing, RemovalTruthful
<1> QED BY <1>1, <1>2, <1>3, <1>4

LEMMA DieStep == ASSUME Inv, NEW p \in Publishers, Die(p) PROVE Inv'
<1> USE DEF Die, SameTarget, Goto, trees, removers, Inv
<1>1. TypeOK'
  BY DEF TypeOK
<1>2. Visible' /\ Prepared' /\ Told'
  BY DEF TypeOK, Visible, Prepared, Told, Before
<1>3. NoResidue' /\ Watched'
  BY SpaceIsPair DEF TypeOK, NoResidue, Watched, Removing, RemovalTruthful
<1> QED BY <1>1, <1>2, <1>3

LEMMA RemoverStepInv == ASSUME Inv, NEW r \in Removers, RemoverStep(r) PROVE Inv'
<1> USE DEF Inv, Answer, SameTarget, Target, trees, publishers
<1>1. CASE RemoveStat(r)
  BY <1>1 DEF RemoveStat, TypeOK, Visible, Prepared, Told, NoResidue, Watched, Removing,
              RemovalTruthful
<1>2. CASE RemoveFile(r)
  BY <1>2 DEF RemoveFile, TypeOK, Visible, Prepared, Told, NoResidue, Watched, Removing,
              RemovalTruthful
<1>3. CASE RemoveOpen(r)
  BY <1>3 DEF RemoveOpen, TypeOK, Visible, Prepared, Told, NoResidue, Watched, Removing,
              RemovalTruthful
<1>4. CASE RemoveItem(r)
  <2> USE <1>4 DEF RemoveItem
  <2>1. TypeOK'
    BY DEF TypeOK, Visible
  <2>2. Visible' /\ Prepared'
    BY DEF TypeOK, Visible, Prepared, Before
  <2>3. Told' /\ NoResidue' /\ Watched'
    BY DEF Told, NoResidue, Watched, Removing, RemovalTruthful
  <2> QED BY <2>1, <2>2, <2>3
<1>5. CASE RemoveDir(r)
  BY <1>5 DEF RemoveDir, TypeOK, Visible, Prepared, Told, NoResidue, Watched, Removing,
              RemovalTruthful
<1>6. CASE RemoveFails(r)
  BY <1>6 DEF RemoveFails, TypeOK, Visible, Prepared, Told, NoResidue, Watched, Removing,
              RemovalTruthful
<1> QED BY <1>1, <1>2, <1>3, <1>4, <1>5, <1>6 DEF RemoverStep

LEMMA NextInv == Inv /\ [Next]_vars => Inv'
<1> SUFFICES ASSUME Inv, [Next]_vars PROVE Inv'
  OBVIOUS
<1>1. ASSUME NEW p \in Publishers, PublisherStep(p) PROVE Inv'
  BY <1>1, StageStep, PutStep, PublishStep, RestageStep, CopyItemStep, CopyEndsStep,
     InspectStep, RenameStep, PublishFailsStep, DropStep, DieStep DEF PublisherStep
<1>2. ASSUME NEW r \in Removers, RemoverStep(r) PROVE Inv'
  BY <1>2, RemoverStepInv
<1> QED BY <1>1, <1>2, StutterInv DEF Next

(* What a publisher has put together is of its source, and it is told      *)
(* nothing before its call is decided.                                     *)
Contained ==
    \A p \in Publishers :
        /\ tree[p] \subseteq Source[p] /\ origin[p] \subseteq Source[p]
        /\ pc[p] \in Before => outcome[p] = "none"

LEMMA InitContained == Init => Contained
BY DEF Init, Contained

LEMMA NextContained == TypeOK /\ Visible /\ Contained /\ [Next]_vars => Contained'
<1> SUFFICES ASSUME TypeOK, Visible, Contained, [Next]_vars PROVE Contained'
  OBVIOUS
<1> USE DEF TypeOK, Contained, trees, publishers, removers
<1>1. ASSUME NEW p \in Publishers, Stage(p) \/ Put(p) \/ Publish(p) PROVE Contained'
  BY <1>1 DEF Stage, Put, Publish, Goto, Before
<1>2. ASSUME NEW p \in Publishers, Restage(p) \/ CopyItem(p) \/ CopyEnds(p) \/ Inspect(p)
      PROVE  Contained'
  BY <1>2 DEF Restage, CopyItem, CopyEnds, Inspect, Conclude, Goto, Before
<1>3. ASSUME NEW p \in Publishers, Rename(p) \/ PublishFails(p) \/ Drop(p) \/ Die(p)
      PROVE  Contained'
  BY <1>3 DEF Rename, PublishFails, Drop, Die, Conclude, Goto, Before
<1>4. ASSUME NEW r \in Removers, RemoverStep(r) PROVE Contained'
  BY <1>4 DEF RemoverStep, RemoveStat, RemoveFile, RemoveOpen, RemoveItem, RemoveDir,
              RemoveFails, Answer
<1>5. CASE UNCHANGED vars
  BY <1>5 DEF vars
<1> QED BY <1>1, <1>2, <1>3, <1>4, <1>5 DEF Next, PublisherStep

(* The inductive invariant of publication, which the theorems below use.   *)
THEOREM PublicationInvariant == Spec => []Inv
BY InitInv, NextInv, PTL DEF Spec

(* apply.rs: the types of the model's state hold in every behaviour.       *)
THEOREM TypeCorrect == Spec => []TypeOK
<1>1. Inv => TypeOK
  BY DEF Inv
<1> QED BY <1>1, PublicationInvariant, PTL

(* No reader of the target finds a tree that is still being put together.  *)
THEOREM NothingPartial == Spec => []WholeUntilRemoved
<1>1. Inv => WholeUntilRemoved
  BY DEF Inv, Visible, WholeUntilRemoved
<1> QED BY <1>1, PublicationInvariant, PTL

(* publish succeeds exactly when its rename did, whatever clean-up met.    *)
THEOREM PublishersAreTold == Spec => []PublishTruthful
<1>1. Inv => PublishTruthful
  BY DEF Inv, Told, PublishTruthful
<1> QED BY <1>1, PublicationInvariant, PTL

(* A finished call's workspace is gone unless its removal failed.          *)
THEOREM WorkspacesAreDropped == Spec => []NoResidue
<1>1. Inv => NoResidue
  BY DEF Inv
<1> QED BY <1>1, PublicationInvariant, PTL

(* Removal evidence means the target was missing during the call.          *)
THEOREM RemovalsAreTruthful == Spec => []RemovalTruthful
<1>1. Inv => RemovalTruthful
  BY DEF Inv, Watched
<1> QED BY <1>1, PublicationInvariant, PTL

(* A publication never takes the place of a predecessor.                   *)
THEOREM PredecessorsStay == Spec => NeverReplaces
<1>1. [Next]_vars => [target' = target \/ target = None \/ target' = None]_vars
  <2> SUFFICES ASSUME [Next]_vars, target' # target PROVE target = None \/ target' = None
    OBVIOUS
  <2>1. ASSUME NEW p \in Publishers, PublisherStep(p) PROVE target = None \/ target' = None
    BY <2>1 DEF PublisherStep, Stage, Put, Publish, Restage, CopyItem, CopyEnds, Inspect,
                Rename, PublishFails, Drop, Die, SameTarget, Target
  <2>2. ASSUME NEW r \in Removers, RemoverStep(r) PROVE target = None \/ target' = None
    BY <2>2 DEF RemoverStep, RemoveStat, RemoveFile, RemoveOpen, RemoveItem, RemoveDir,
                RemoveFails, SameTarget, Target
  <2> QED BY <2>1, <2>2 DEF Next, vars
<1> QED BY <1>1, PTL DEF Spec, NeverReplaces

(***************************************************************************)
(* The refinement: Rename is Publish or Lose, the other ends of a publisher*)
(* are Refuse; RemoveItem takes apart, RemoveFile and RemoveDir remove.    *)
(***************************************************************************)
LEMMA InitIsAtomic == Init => Atomic!Init
BY DEF Init, Atomic!Init, Removing

(* Until its rename no tree of a publisher is what is shown.               *)
LEMMA PublisherIsAtomic ==
    ASSUME Inv, Contained, NEW p \in Publishers, PublisherStep(p)
    PROVE  Atomic!Next \/ UNCHANGED Atomic!avars
<1> DEFINE whole == target # None /\ tree[target] = Source[target]
<1> USE DEF Inv, TypeOK, Contained, trees, publishers, removers
<1>1. Removing' = Removing /\ UNCHANGED <<removal, changed>>
  BY DEF PublisherStep, Stage, Put, Publish, Restage, CopyItem, CopyEnds, Inspect, Rename,
         PublishFails, Drop, Die, Removing
<1>2. CASE Rename(p)
  <2>1. outcome[p] = "none" /\ absent' = absent /\ UNCHANGED tree
    BY <1>2 DEF Rename, Target, SameTarget, Before
  <2>2. CASE target = None
    <3>1. target' = p /\ outcome' = [outcome EXCEPT ![p] = "Published"]
      BY <1>2, <2>2 DEF Rename, Target, Conclude
    <3>2. whole' = TRUE
      BY <1>2, <2>1, <3>1 DEF Rename, Prepared
    <3>3. Atomic!Publish(p)
      BY <1>1, <2>1, <2>2, <3>1, <3>2 DEF Atomic!Publish, Atomic!Tell
    <3> QED BY <3>3 DEF Atomic!Next
  <2>3. CASE target # None
    <3>1. target' = target /\ outcome' = [outcome EXCEPT ![p] = "AlreadyPublished"]
      BY <1>2, <2>3 DEF Rename, SameTarget, Conclude
    <3>2. Atomic!Lose(p)
      BY <1>1, <2>1, <2>3, <3>1 DEF Atomic!Lose, Atomic!Tell
    <3> QED BY <3>2 DEF Atomic!Next
  <2> QED BY <2>2, <2>3
<1>3. CASE ~Rename(p)
  <2>1. UNCHANGED <<target, absent>>
    BY <1>3 DEF PublisherStep, Stage, Put, Publish, Restage, CopyItem, CopyEnds, Inspect,
                PublishFails, Drop, Die, SameTarget
  <2>2. \A q \in Publishers \ {p} : tree'[q] = tree[q]
    BY <1>3 DEF PublisherStep, Stage, Put, Publish, Restage, CopyItem, CopyEnds, Inspect,
                PublishFails, Drop, Die
  <2>3. target = p => tree'[p] = tree[p]
    BY <1>3 DEF PublisherStep, Stage, Put, Publish, Restage, CopyItem, CopyEnds, Inspect,
                PublishFails, Drop, Die, Visible, Before
  <2>4. whole' = whole
    BY <2>1, <2>2, <2>3
  <2>5. \/ UNCHANGED outcome
        \/ /\ outcome[p] = "none"
           /\ \E o \in {"NoTree", "Failed"} : outcome' = [outcome EXCEPT ![p] = o]
    BY <1>3 DEF PublisherStep, Stage, Put, Publish, Restage, CopyItem, CopyEnds, Inspect,
                PublishFails, Drop, Die, Conclude, Before
  <2>6. CASE UNCHANGED outcome
    BY <1>1, <2>1, <2>4, <2>6 DEF Atomic!avars
  <2>7. CASE ~UNCHANGED outcome
    <3>1. Atomic!Refuse(p)
      BY <1>1, <2>1, <2>4, <2>5, <2>7 DEF Atomic!Refuse, Atomic!Tell
    <3> QED BY <3>1 DEF Atomic!Next
  <2> QED BY <2>6, <2>7
<1> QED BY <1>2, <1>3

(* A removal under way while the target is missing has seen that.          *)
LEMMA RemoverIsAtomic ==
    ASSUME Inv, Contained, NEW r \in Removers, RemoverStep(r)
    PROVE  Atomic!Next \/ UNCHANGED Atomic!avars
<1> DEFINE whole == target # None /\ tree[target] = Source[target]
           Effect == \/ Atomic!RemoveNothing(r) \/ Atomic!Begin(r) \/ Atomic!TakeApart(r)
                     \/ Atomic!Remove(r) \/ Atomic!Return(r)
<1> SUFFICES Effect \/ UNCHANGED Atomic!avars
  BY DEF Atomic!Next
<1> USE DEF Inv, TypeOK, trees, publishers
<1>1. UNCHANGED outcome
  BY DEF RemoverStep, RemoveStat, RemoveFile, RemoveOpen, RemoveItem, RemoveDir, RemoveFails
<1>2. ASSUME NEW a, r \in Removing, Answer(r, a) PROVE Removing' = Removing \ {r}
  BY <1>2 DEF Answer, Removing
<1>3. CASE RemoveStat(r)
  <2>1. r \notin Removing /\ removal[r] = "none" /\ whole' = whole
    BY <1>3 DEF RemoveStat, Removing, Watched
  <2>2. CASE target = None
    <3>1. Removing' = Removing
      BY <1>3, <2>2 DEF RemoveStat, Answer, Removing
    <3>2. Atomic!RemoveNothing(r)
      BY <1>1, <1>3, <2>1, <2>2, <3>1 DEF RemoveStat, Answer, Atomic!RemoveNothing, Atomic!New
    <3> QED BY <3>2
  <2>3. CASE target # None
    <3>1. Removing' = Removing \cup {r}
      BY <1>3, <2>3 DEF RemoveStat, Removing
    <3>2. Atomic!Begin(r)
      BY <1>1, <1>3, <2>1, <2>3, <3>1 DEF RemoveStat, Atomic!Begin, Atomic!New
    <3> QED BY <3>2
  <2> QED BY <2>2, <2>3
<1>4. CASE RemoveItem(r)
  <2>1. r \in Removing /\ Removing' = Removing /\ held[r] \in Publishers
    BY <1>4 DEF RemoveItem, Removing, Visible
  <2>2. PICK i \in tree[held[r]] : tree' = [tree EXCEPT ![held[r]] = @ \ {i}]
    BY <1>4 DEF RemoveItem
  <2>3. target = held[r] => whole' = FALSE
    BY <1>4, <2>1, <2>2 DEF RemoveItem, SameTarget, Contained
  <2>4. target # held[r] => whole' = whole
    BY <1>4, <2>1, <2>2 DEF RemoveItem, SameTarget
  <2>5. Atomic!TakeApart(r)
    BY <1>1, <1>4, <2>1, <2>3, <2>4 DEF RemoveItem, SameTarget, Atomic!TakeApart
  <2> QED BY <2>5
<1>5. CASE RemoveFails(r)
  <2>1. r \in Removing /\ Removing' = Removing \ {r} /\ whole' = whole
    BY <1>2, <1>5 DEF RemoveFails, SameTarget
  <2>2. Atomic!Return(r)
    BY <1>1, <1>5, <2>1 DEF RemoveFails, Answer, SameTarget, Atomic!Return, Atomic!End
  <2> QED BY <2>2
<1>6. CASE RemoveFile(r)
  <2>1. r \in Removing /\ Removing' = Removing \ {r} /\ r \notin changed
    BY <1>2, <1>6 DEF RemoveFile, Removing, Watched
  <2>2. CASE target \in Flat
    <3>1. target # None /\ target' = None /\ absent' = absent \cup Removing
      BY <1>6, <2>2 DEF RemoveFile, Target
    <3>2. Atomic!Remove(r)
      BY <1>1, <1>6, <2>1, <2>2, <3>1
      DEF RemoveFile, Answer, Atomic!Remove, Atomic!End
    <3> QED BY <3>2
  <2>3. CASE target \notin Flat
    <3>1. target = None => r \in absent
      BY <2>1 DEF Watched
    <3>2. UNCHANGED <<target, tree, absent, changed>> /\ whole' = whole
      BY <1>6, <2>3 DEF RemoveFile, SameTarget
    <3>3. Atomic!Return(r)
      BY <1>1, <1>6, <2>1, <2>3, <3>1, <3>2
      DEF RemoveFile, Answer, Atomic!Return, Atomic!End
    <3> QED BY <3>3
  <2> QED BY <2>2, <2>3
<1>7. CASE RemoveOpen(r)
  <2>1. r \in Removing /\ r \notin changed /\ whole' = whole
    BY <1>7 DEF RemoveOpen, Removing, SameTarget, Watched
  <2>2. UNCHANGED <<target, tree, absent, changed>>
    BY <1>7 DEF RemoveOpen, SameTarget
  <2>3. CASE target \in Publishers \ Flat
    <3>1. Removing' = Removing /\ UNCHANGED removal
      BY <1>7, <2>3 DEF RemoveOpen, Removing
    <3> QED BY <1>1, <2>1, <2>2, <3>1 DEF Atomic!avars
  <2>4. CASE target \notin Publishers \ Flat
    <3>1. target = None => r \in absent
      BY <2>1 DEF Watched
    <3>2. Removing' = Removing \ {r}
      BY <1>2, <1>7, <2>1, <2>4 DEF RemoveOpen
    <3>3. Atomic!Return(r)
      BY <1>1, <1>7, <2>1, <2>2, <2>4, <3>1, <3>2
      DEF RemoveOpen, Answer, Atomic!Return, Atomic!End
    <3> QED BY <3>3
  <2> QED BY <2>3, <2>4
<1>8. CASE RemoveDir(r)
  <2>1. r \in Removing /\ Removing' = Removing \ {r}
    BY <1>2, <1>8 DEF RemoveDir, Removing
  <2>2. CASE target \in Publishers \ Flat /\ tree[target] = {}
    <3>1. target # None /\ target' = None /\ absent' = absent \cup Removing
      BY <1>8, <2>2 DEF RemoveDir, Target
    <3>2. Atomic!Remove(r)
      BY <1>1, <1>8, <2>1, <2>2, <3>1
      DEF RemoveDir, Answer, Atomic!Remove, Atomic!End
    <3> QED BY <3>2
  <2>3. CASE ~(target \in Publishers \ Flat /\ tree[target] = {})
    <3>1. target = None => r \in absent
      BY <2>1 DEF Watched
    <3>2. UNCHANGED <<target, tree, absent, changed>> /\ whole' = whole
      BY <1>8, <2>3 DEF RemoveDir, SameTarget
    <3>3. Answer(r, IF target = None THEN "Removed" ELSE "Failed")
      BY <1>8, <2>3 DEF RemoveDir
    <3>4. Atomic!Return(r)
      BY <1>1, <2>1, <3>1, <3>2, <3>3 DEF Answer, Atomic!Return, Atomic!End
    <3> QED BY <3>4
  <2> QED BY <2>2, <2>3
<1> QED BY <1>3, <1>4, <1>5, <1>6, <1>7, <1>8 DEF RemoverStep

LEMMA NextIsAtomic == Inv /\ Contained /\ [Next]_vars => [Atomic!Next]_(Atomic!avars)
<1> SUFFICES ASSUME Inv, Contained, [Next]_vars
             PROVE  Atomic!Next \/ UNCHANGED Atomic!avars
  OBVIOUS
<1>1. CASE UNCHANGED vars
  BY <1>1 DEF vars, trees, publishers, removers, Removing, Atomic!avars
<1> QED BY <1>1, PublisherIsAtomic, RemoverIsAtomic DEF Next

(* Publication and removal implement the atomic target, for any publishers,*)
(* removers and trees.                                                     *)
THEOREM TargetIsAtomic == Spec => AtomicTargetSpec
<1>1. Inv => TypeOK /\ Visible
  BY DEF Inv
<1>2. Spec => []Contained
  BY <1>1, InitContained, NextContained, PublicationInvariant, PTL DEF Spec
<1> QED BY <1>2, InitIsAtomic, NextIsAtomic, PublicationInvariant, PTL
        DEF Spec, AtomicTargetSpec, Atomic!Spec
=============================================================================
