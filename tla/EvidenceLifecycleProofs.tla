---------------------- MODULE EvidenceLifecycleProofs ----------------------
(***************************************************************************)
(* Proofs about EvidenceLifecycle, for any number of contributions,        *)
(* sessions, desks and flags, any form inputs, and any bounds.             *)
(***************************************************************************)
EXTENDS EvidenceLifecycle, TLAPS

\* A card that still has the contribution's version also has its text.
CardInv ==
  \A d \in Desk : card[d].shown =>
    /\ item[card[d].item].status # "ABSENT"
    /\ card[d].version <= item[card[d].item].version
    /\ card[d].version = item[card[d].item].version
         => card[d].content = item[card[d].item].content

\* What approveExport() tested still holds.
ReleaseInv ==
  \A i \in Item : item[i].exportApproved =>
    /\ Releasable(i)
    /\ export[i].version = item[i].version
    /\ export[i].seen = item[i].content
    /\ export[i].afterReview = review[i].n

\* No flag is younger than the latest review knows, and a flag that was closed
\* without a review left its contribution unreviewed.
FlagInv ==
  \A f \in Flag : flag[f].status # "ABSENT" =>
    /\ flag[f].raisedAfter <= review[flag[f].item].n
    /\ flag[f].status # "OPEN" /\ item[flag[f].item].status \in {"REVIEWED", "VERIFIED"}
         => flag[f].raisedAfter < review[flag[f].item].n

IInv == TypeOK /\ CardInv /\ VerdictIsAboutTheText /\ ReleaseInv /\ FlagInv

LEMMA SomeInput == SomeForm \in Form /\ SomeUser \in User /\ SomeItem \in Item
  BY LifecycleAssumption DEF SomeForm, SomeUser, SomeItem

LEMMA InitIInv == Init => IInv
  <1> SUFFICES ASSUME Init PROVE IInv
    OBVIOUS
  <1>1. TypeOK
    BY SomeInput, LifecycleAssumption DEF Init, TypeOK, Contribution, Review, Export,
       FlagRecord, Card, NoCard, Status, FlagStatus, Decision
  <1>2. CardInv /\ VerdictIsAboutTheText /\ ReleaseInv /\ FlagInv
    BY DEF Init, CardInv, VerdictIsAboutTheText, ReleaseInv, FlagInv, NoCard
  <1>. QED
    BY <1>1, <1>2 DEF IInv

\* The ids a reviewer can tick on a card.
LEMMA TickedIds ==
  ASSUME NEW c \in Form
  PROVE  DOMAIN c.sources \subseteq Nat \ {0}
  <1>1. c.sources \in Seq(SourceType)
    BY LifecycleAssumption
  <1>. QED
    BY <1>1

LEMMA VerdictType ==
  ASSUME TypeOK, NEW i \in Item, NEW decision \in Decision, NEW e \in Level
  PROVE  Verdict(i, decision, e).status \in Status /\ Verdict(i, decision, e).evidence \in Level
  BY LifecycleAssumption DEF TypeOK, Contribution, Verdict, Decision, Status

LEMMA MarkedType ==
  ASSUME TypeOK, NEW i \in Item, NEW s \in Status, NEW e \in Level, NEW a \in BOOLEAN
  PROVE  Marked(i, s, e, a) \in Contribution
  BY DEF TypeOK, Contribution, Marked

LEMMA ItemType ==
  ASSUME TypeOK, NEW i \in Item
  PROVE  /\ item[i].status \in Status /\ item[i].evidence \in Level
         /\ item[i].version \in 0..MaxVersion /\ item[i].content \in Form
         /\ item[i].owner \in User /\ item[i].exportApproved \in BOOLEAN
  BY DEF TypeOK, Contribution

LEMMA ClosedType ==
  ASSUME TypeOK, NEW i \in Item, NEW s \in FlagStatus
  PROVE  Closed(i, s) \in [Flag -> FlagRecord]
  BY DEF TypeOK, Closed, FlagRecord

\* What closing changes: the status of the open flags of i, nothing else.
LEMMA ClosedFlag ==
  ASSUME TypeOK, NEW i \in Item, NEW s, NEW f \in Flag
  PROVE  /\ Closed(i, s)[f].item = flag[f].item
         /\ Closed(i, s)[f].raisedAfter = flag[f].raisedAfter
         /\ Closed(i, s)[f].status = IF f \in OpenFlags(i) THEN s ELSE flag[f].status
  BY DEF TypeOK, Closed, FlagRecord

LEMMA TypeStep == TypeOK /\ [Next]_vars => TypeOK'
  <1> SUFFICES ASSUME TypeOK, [Next]_vars PROVE TypeOK'
    OBVIOUS
  <1> USE LifecycleAssumption
  <1>1. ASSUME NEW i \in Item, NEW u \in User, NEW c \in Form, Add(i, u, c) PROVE TypeOK'
    BY <1>1 DEF Add, TypeOK, Contribution, Status
  <1>2. ASSUME NEW i \in Item, NEW u \in User, NEW c \in Form, Update(i, u, c) PROVE TypeOK'
    <2>1. Closed(i, "SUPERSEDED") \in [Flag -> FlagRecord]
      BY ClosedType DEF FlagStatus
    <2>2. Edited(i, c) \in Contribution
      BY <1>2 DEF Update, Edited, TypeOK, Contribution, Status
    <2>. QED
      BY <1>2, <2>1, <2>2 DEF Update, TypeOK
  <1>3. ASSUME NEW i \in Item, NEW u \in User, Withdraw(i, u) PROVE TypeOK'
    <2>1. Marked(i, "WITHDRAWN", item[i].evidence, FALSE) \in Contribution
      BY ItemType, MarkedType DEF Status
    <2>. QED
      BY <1>3, <2>1 DEF Withdraw, TypeOK
  <1>4. ASSUME NEW i \in Item, NEW u \in User, NEW f \in Flag, Raise(f, i, u) PROVE TypeOK'
    <2>1. Marked(i, item[i].status, item[i].evidence, FALSE) \in Contribution
      BY ItemType, MarkedType
    <2>2. flag' \in [Flag -> FlagRecord]
      BY <1>4 DEF Raise, TypeOK, FlagRecord, FlagStatus, Review
    <2>. QED
      BY <1>4, <2>1, <2>2 DEF Raise, TypeOK
  <1>5. ASSUME NEW i \in Item, NEW d \in Desk, Load(d, i) PROVE TypeOK'
    BY <1>5 DEF Load, TypeOK, Contribution, Card, OpenFlags
  <1>6. ASSUME NEW d \in Desk, NEW decision \in Decision, NEW e \in Level,
               NEW sourceIds \in SUBSET DOMAIN card[d].content.sources,
               Decide(d, decision, e, sourceIds)
        PROVE  TypeOK'
    <2> DEFINE i == card[d].item
               v == Verdict(i, decision, e)
    <2>1. i \in Item /\ card[d].content \in Form
      BY DEF TypeOK, Card
    <2>2. sourceIds \in SUBSET (Nat \ {0})
      BY <2>1, TickedIds
    <2>3. v.status \in Status /\ v.evidence \in Level
      BY <2>1, VerdictType
    <2>4. Closed(i, "REVIEWED") \in [Flag -> FlagRecord]
      BY <2>1, ClosedType DEF FlagStatus
    <2>5. NoCard \in Card
      BY SomeInput DEF NoCard, Card
    <2> HIDE DEF v
    <2>6. /\ review' = [review EXCEPT ![i] =
                         [n |-> @.n + 1, version |-> item[i].version, decision |-> decision,
                          evidence |-> v.evidence, sourceIds |-> sourceIds,
                          seen |-> card[d].content]]
          /\ review[i].n < MaxReviews
          /\ item' = [item EXCEPT ![i] = Marked(i, v.status, v.evidence, FALSE)]
          /\ flag' = Closed(i, "REVIEWED")
          /\ unseen' \subseteq Flag
          /\ card' = [card EXCEPT ![d] = NoCard]
          /\ export' = export
      BY <1>6 DEF Decide, v, TypeOK, OpenFlags
    <2>7. item' \in [Item -> Contribution]
      BY <2>1, <2>3, <2>6, MarkedType DEF TypeOK
    <2>8. review' \in [Item -> Review]
      BY <2>1, <2>2, <2>3, <2>6 DEF TypeOK, Review, Contribution
    <2>. QED
      BY <2>4, <2>5, <2>6, <2>7, <2>8 DEF TypeOK
  <1>7. ASSUME NEW d \in Desk, Release(d) PROVE TypeOK'
    <2>1. NoCard \in Card
      BY SomeInput DEF NoCard, Card
    <2> DEFINE i == card[d].item
    <2>2. i \in Item /\ card[d].content \in Form
      BY DEF TypeOK, Card
    <2>3. Marked(i, item[i].status, item[i].evidence, TRUE) \in Contribution
      BY <2>2, ItemType, MarkedType
    <2>4. [version |-> item[i].version, afterReview |-> review[i].n, seen |-> card[d].content]
            \in Export
      BY <2>2, ItemType DEF TypeOK, Review, Export
    <2>. QED
      BY <1>7, <2>1, <2>2, <2>3, <2>4 DEF Release, TypeOK
  <1>8. CASE UNCHANGED vars
    BY <1>8 DEF vars, TypeOK
  <1>. QED
    BY <1>1, <1>2, <1>3, <1>4, <1>5, <1>6, <1>7, <1>8 DEF Next

\* What Decide does to the contribution i of the card and what it leaves alone.
LEMMA DecideEffect ==
  ASSUME TypeOK, NEW d \in Desk, NEW decision \in Decision, NEW e, NEW sourceIds,
         Decide(d, decision, e, sourceIds)
  PROVE  LET i == card[d].item
         IN  /\ i \in Item /\ Live(i)
             /\ \A j \in Item \ {i} : item'[j] = item[j] /\ review'[j] = review[j]
             /\ item'[i].status # "ABSENT" /\ item'[i].exportApproved = FALSE
             /\ item'[i].version = item[i].version /\ item'[i].content = item[i].content
             /\ review'[i].n = review[i].n + 1
             /\ flag' = Closed(i, "REVIEWED")
             /\ card' = [card EXCEPT ![d] = NoCard]
             /\ export' = export
  <1> DEFINE i == card[d].item
             v == Verdict(i, decision, e)
  <1>1. v.status # "ABSENT"
    BY DEF Verdict, Decision
  <1> HIDE DEF v
  <1>2. /\ i \in Item /\ Live(i)
        /\ item' = [item EXCEPT ![i] = Marked(i, v.status, v.evidence, FALSE)]
        /\ review' = [review EXCEPT ![i] =
                       [n |-> review[i].n + 1, version |-> item[i].version,
                        decision |-> decision, evidence |-> v.evidence,
                        sourceIds |-> sourceIds, seen |-> card[d].content]]
        /\ flag' = Closed(i, "REVIEWED")
        /\ card' = [card EXCEPT ![d] = NoCard]
        /\ export' = export
    BY DEF Decide, Decidable, TypeOK, Card, v
  <1> HIDE DEF i
  <1>3. /\ \A j \in Item \ {i} : item'[j] = item[j]
        /\ item'[i].status # "ABSENT" /\ item'[i].exportApproved = FALSE
        /\ item'[i].version = item[i].version /\ item'[i].content = item[i].content
    BY <1>1, <1>2 DEF TypeOK, Marked
  <1>4. /\ \A j \in Item \ {i} : review'[j] = review[j]
        /\ review'[i].n = review[i].n + 1
    BY <1>2 DEF TypeOK
  <1>. QED
    BY <1>2, <1>3, <1>4 DEF i

\* What it writes into contribution and log.
LEMMA DecideVerdict ==
  ASSUME TypeOK, NEW d \in Desk, NEW decision \in Decision, NEW e \in Level, NEW sourceIds,
         Decide(d, decision, e, sourceIds)
  PROVE  LET i == card[d].item
         IN  /\ card[d].shown /\ card[d].version = item[i].version
             /\ review'[i].version = item[i].version /\ review'[i].decision = decision
             /\ review'[i].evidence = item'[i].evidence
             /\ review'[i].sourceIds = sourceIds /\ review'[i].seen = card[d].content
             /\ item'[i].status \in {"REVIEWED", "VERIFIED"} =>
                  /\ decision = "approve" /\ Supported(item[i].content, e, sourceIds)
                  /\ item'[i].evidence = e
                  /\ item'[i].status = "VERIFIED" <=> e >= 3
  <1> DEFINE i == card[d].item
             v == Verdict(i, decision, e)
  <1>1. v.status \in {"REVIEWED", "VERIFIED"} =>
          /\ decision = "approve" /\ v.evidence = e
          /\ v.status = "VERIFIED" <=> e >= 3
    BY LifecycleAssumption DEF Verdict, Decision
  <1> HIDE DEF v
  <1>2. /\ i \in Item
        /\ card[d].shown /\ card[d].version = item[i].version
        /\ decision = "approve" => Supported(item[i].content, e, sourceIds)
        /\ item' = [item EXCEPT ![i] = Marked(i, v.status, v.evidence, FALSE)]
        /\ review' = [review EXCEPT ![i] =
                       [n |-> review[i].n + 1, version |-> item[i].version,
                        decision |-> decision, evidence |-> v.evidence,
                        sourceIds |-> sourceIds, seen |-> card[d].content]]
    BY DEF Decide, Decidable, TypeOK, Card, v
  <1> HIDE DEF i
  <1>3. item'[i].status = v.status /\ item'[i].evidence = v.evidence
    BY <1>2 DEF TypeOK, Marked
  <1>4. /\ review'[i].version = item[i].version /\ review'[i].decision = decision
        /\ review'[i].evidence = v.evidence
        /\ review'[i].sourceIds = sourceIds /\ review'[i].seen = card[d].content
    BY <1>2 DEF TypeOK
  <1>. QED
    BY <1>1, <1>2, <1>3, <1>4 DEF i

\* What Release does to the contribution i of the card.
LEMMA ReleaseEffect ==
  ASSUME TypeOK, NEW d \in Desk, Release(d)
  PROVE  LET i == card[d].item
         IN  /\ i \in Item /\ Live(i)
             /\ card[d].shown /\ card[d].version = item[i].version
             /\ Releasable(i)
             /\ \A j \in Item \ {i} : item'[j] = item[j] /\ export'[j] = export[j]
             /\ item'[i].status = item[i].status /\ item'[i].evidence = item[i].evidence
             /\ item'[i].version = item[i].version /\ item'[i].content = item[i].content
             /\ export'[i] = [version |-> item[i].version, afterReview |-> review[i].n,
                              seen |-> card[d].content]
             /\ card' = [card EXCEPT ![d] = NoCard]
             /\ flag' = flag /\ review' = review
  <1> DEFINE i == card[d].item
  <1>1. i \in Item
    BY DEF TypeOK, Card
  <1>2. /\ Decidable(d)
        /\ Releasable(i)
        /\ item' = [item EXCEPT ![i] = Marked(i, item[i].status, item[i].evidence, TRUE)]
        /\ export' = [export EXCEPT ![i] = [version |-> item[i].version,
                                            afterReview |-> review[i].n,
                                            seen |-> card[d].content]]
        /\ card' = [card EXCEPT ![d] = NoCard]
        /\ flag' = flag /\ review' = review
    BY DEF Release
  <1> HIDE DEF i
  <1>3. /\ \A j \in Item \ {i} : item'[j] = item[j]
        /\ item'[i].status = item[i].status /\ item'[i].evidence = item[i].evidence
        /\ item'[i].version = item[i].version /\ item'[i].content = item[i].content
    BY <1>1, <1>2 DEF TypeOK, Marked
  <1>4. /\ \A j \in Item \ {i} : export'[j] = export[j]
        /\ export'[i] = [version |-> item[i].version, afterReview |-> review[i].n,
                         seen |-> card[d].content]
    BY <1>1, <1>2 DEF TypeOK
  <1>5. Live(i) /\ card[d].shown /\ card[d].version = item[i].version
    BY <1>2 DEF Decidable, i
  <1>. QED
    BY <1>1, <1>2, <1>3, <1>4, <1>5 DEF i

\* What the steps of the owner and of the public do to contribution i.
LEMMA AddEffect ==
  ASSUME TypeOK, NEW i \in Item, NEW u \in User, NEW c \in Form, Add(i, u, c)
  PROVE  /\ \A j \in Item \ {i} : item'[j] = item[j]
         /\ item[i].status = "ABSENT"
         /\ item'[i].status = "PENDING" /\ item'[i].exportApproved = FALSE
         /\ flag' = flag /\ review' = review /\ export' = export /\ card' = card
  BY DEF Add, TypeOK

LEMMA UpdateEffect ==
  ASSUME TypeOK, NEW i \in Item, NEW u \in User, NEW c \in Form, Update(i, u, c)
  PROVE  /\ \A j \in Item \ {i} : item'[j] = item[j]
         /\ item[i].status # "WITHDRAWN"
         /\ item'[i].status = "PENDING" /\ item'[i].exportApproved = FALSE
         /\ item'[i].version = item[i].version + 1
         /\ flag' = Closed(i, "SUPERSEDED")
         /\ review' = review /\ export' = export /\ card' = card
  BY DEF Update, Edited, Live, TypeOK

LEMMA WithdrawEffect ==
  ASSUME TypeOK, NEW i \in Item, NEW u \in User, Withdraw(i, u)
  PROVE  /\ \A j \in Item \ {i} : item'[j] = item[j]
         /\ item'[i].status = "WITHDRAWN" /\ item'[i].exportApproved = FALSE
         /\ item'[i].version = item[i].version /\ item'[i].content = item[i].content
         /\ flag' = flag /\ review' = review /\ export' = export /\ card' = card
  BY DEF Withdraw, Marked, TypeOK

LEMMA RaiseEffect ==
  ASSUME TypeOK, NEW i \in Item, NEW u \in User, NEW f \in Flag, Raise(f, i, u)
  PROVE  /\ \A j \in Item \ {i} : item'[j] = item[j]
         /\ Live(i)
         /\ item'[i].status = item[i].status /\ item'[i].evidence = item[i].evidence
         /\ item'[i].version = item[i].version /\ item'[i].content = item[i].content
         /\ item'[i].exportApproved = FALSE
         /\ review' = review /\ export' = export /\ card' = card
  BY DEF Raise, Marked, TypeOK

LEMMA RaiseFlag ==
  ASSUME TypeOK, NEW i \in Item, NEW u \in User, NEW f \in Flag, Raise(f, i, u)
  PROVE  /\ \A g \in Flag \ {f} : flag'[g] = flag[g]
         /\ flag[f].status = "ABSENT"
         /\ flag'[f].item = i /\ flag'[f].status = "OPEN"
         /\ flag'[f].raisedAfter = review[i].n
  BY DEF Raise, TypeOK

\* Texts change only together with the version.
LEMMA CardStep == IInv /\ [Next]_vars => CardInv'
  <1> SUFFICES ASSUME IInv, [Next]_vars PROVE CardInv'
    OBVIOUS
  <1>0. TypeOK /\ CardInv
    BY DEF IInv
  <1>c. \A d \in Desk : card[d].item \in Item /\ card[d].version \in 0..MaxVersion
    BY <1>0 DEF TypeOK, Card
  <1>i. \A i \in Item : item[i].version \in Nat
    BY <1>0, ItemType
  \* Steps that change no card, and an item only with a greater version or none.
  <1>k. ASSUME NEW i \in Item, \A j \in Item \ {i} : item'[j] = item[j], card' = card,
               item'[i].status # "ABSENT",
               \/ item'[i].version = item[i].version /\ item'[i].content = item[i].content
               \/ item'[i].version = item[i].version + 1
        PROVE  CardInv'
    BY <1>0, <1>c, <1>i, <1>k DEF CardInv, TypeOK
  <1>1. ASSUME NEW i \in Item, NEW u \in User, NEW c \in Form, Add(i, u, c) PROVE CardInv'
    <2>1. /\ \A j \in Item \ {i} : item'[j] = item[j]
          /\ item[i].status = "ABSENT" /\ card' = card
      BY <1>0, <1>1, AddEffect
    <2>. QED
      BY <1>0, <1>c, <2>1 DEF CardInv
  <1>2. ASSUME NEW i \in Item, NEW u \in User, NEW c \in Form, Update(i, u, c) PROVE CardInv'
    BY <1>0, <1>2, <1>k, UpdateEffect
  <1>3. ASSUME NEW i \in Item, NEW u \in User, Withdraw(i, u) PROVE CardInv'
    BY <1>0, <1>3, <1>k, WithdrawEffect
  <1>4. ASSUME NEW i \in Item, NEW u \in User, NEW f \in Flag, Raise(f, i, u) PROVE CardInv'
    <2>1. /\ Live(i) /\ item'[i].status = item[i].status
          /\ \A j \in Item \ {i} : item'[j] = item[j]
          /\ item'[i].version = item[i].version /\ item'[i].content = item[i].content
          /\ card' = card
      BY <1>0, <1>4, RaiseEffect, Zenon
    <2>. QED
      BY <1>k, <2>1 DEF Live
  <1>5. ASSUME NEW i \in Item, NEW d \in Desk, Load(d, i) PROVE CardInv'
    BY <1>0, <1>5, <1>i DEF Load, Live, CardInv, TypeOK
  \* Steps that take a card away and leave texts and versions alone.
  <1>l. ASSUME NEW i \in Item, NEW d \in Desk, \A j \in Item \ {i} : item'[j] = item[j],
               item'[i].status # "ABSENT",
               item'[i].version = item[i].version, item'[i].content = item[i].content,
               card' = [card EXCEPT ![d] = NoCard]
        PROVE  CardInv'
    BY <1>0, <1>c, <1>l DEF CardInv, TypeOK, NoCard
  <1>6. ASSUME NEW d \in Desk, NEW decision \in Decision, NEW e \in Level,
               NEW sourceIds \in SUBSET DOMAIN card[d].content.sources,
               Decide(d, decision, e, sourceIds)
        PROVE  CardInv'
    <2> DEFINE i == card[d].item
    <2>1. /\ i \in Item
          /\ \A j \in Item \ {i} : item'[j] = item[j] /\ review'[j] = review[j]
          /\ item'[i].status # "ABSENT"
          /\ item'[i].version = item[i].version /\ item'[i].content = item[i].content
          /\ card' = [card EXCEPT ![d] = NoCard]
      BY <1>0, <1>6, DecideEffect, Zenon
    <2>. QED
      BY <1>l, <2>1
  <1>7. ASSUME NEW d \in Desk, Release(d) PROVE CardInv'
    <2> DEFINE i == card[d].item
    <2>1. /\ i \in Item /\ Live(i) /\ item'[i].status = item[i].status
          /\ \A j \in Item \ {i} : item'[j] = item[j]
          /\ item'[i].version = item[i].version /\ item'[i].content = item[i].content
          /\ card' = [card EXCEPT ![d] = NoCard]
      BY <1>0, <1>7, ReleaseEffect, Zenon
    <2>. QED
      BY <1>l, <2>1 DEF Live
  <1>8. CASE UNCHANGED vars
    BY <1>0, <1>8 DEF vars, CardInv
  <1>. QED
    BY <1>1, <1>2, <1>3, <1>4, <1>5, <1>6, <1>7, <1>8 DEF Next

\* Only Decide makes a contribution reviewed; every other change of the text
\* makes it pending.
LEMMA VerdictStep == IInv /\ [Next]_vars => VerdictIsAboutTheText'
  <1> SUFFICES ASSUME IInv, [Next]_vars PROVE VerdictIsAboutTheText'
    OBVIOUS
  <1>0. TypeOK /\ CardInv /\ VerdictIsAboutTheText
    BY DEF IInv
  \* Steps after which the one contribution they change is not reviewed, or is
  \* what it was but for its release.
  <1>k. ASSUME NEW i \in Item, \A j \in Item \ {i} : item'[j] = item[j], review' = review,
               \/ item'[i].status \notin {"REVIEWED", "VERIFIED"}
               \/ /\ item'[i].status = item[i].status
                  /\ item'[i].version = item[i].version
                  /\ item'[i].content = item[i].content
                  /\ item'[i].evidence = item[i].evidence
        PROVE  VerdictIsAboutTheText'
    BY <1>0, <1>k DEF VerdictIsAboutTheText
  <1>1. ASSUME NEW i \in Item, NEW u \in User, NEW c \in Form, Add(i, u, c)
        PROVE  VerdictIsAboutTheText'
    BY <1>0, <1>1, <1>k, AddEffect
  <1>2. ASSUME NEW i \in Item, NEW u \in User, NEW c \in Form, Update(i, u, c)
        PROVE  VerdictIsAboutTheText'
    BY <1>0, <1>2, <1>k, UpdateEffect
  <1>3. ASSUME NEW i \in Item, NEW u \in User, Withdraw(i, u) PROVE VerdictIsAboutTheText'
    BY <1>0, <1>3, <1>k, WithdrawEffect
  <1>4. ASSUME NEW i \in Item, NEW u \in User, NEW f \in Flag, Raise(f, i, u)
        PROVE  VerdictIsAboutTheText'
    BY <1>0, <1>4, <1>k, RaiseEffect
  <1>5. ASSUME NEW i \in Item, NEW d \in Desk, Load(d, i) PROVE VerdictIsAboutTheText'
    BY <1>0, <1>5 DEF Load, VerdictIsAboutTheText
  <1>6. ASSUME NEW d \in Desk, NEW decision \in Decision, NEW e \in Level,
               NEW sourceIds \in SUBSET DOMAIN card[d].content.sources,
               Decide(d, decision, e, sourceIds)
        PROVE  VerdictIsAboutTheText'
    <2> DEFINE i == card[d].item
    <2>1. /\ i \in Item
          /\ \A j \in Item \ {i} : item'[j] = item[j] /\ review'[j] = review[j]
          /\ item'[i].version = item[i].version /\ item'[i].content = item[i].content
      BY <1>0, <1>6, DecideEffect, Zenon
    <2>2. /\ card[d].shown /\ card[d].version = item[i].version
          /\ review'[i].version = item[i].version /\ review'[i].decision = decision
          /\ review'[i].evidence = item'[i].evidence
          /\ review'[i].sourceIds = sourceIds /\ review'[i].seen = card[d].content
          /\ item'[i].status \in {"REVIEWED", "VERIFIED"} =>
               /\ decision = "approve" /\ Supported(item[i].content, e, sourceIds)
               /\ item'[i].evidence = e
               /\ item'[i].status = "VERIFIED" <=> e >= 3
      BY <1>0, <1>6, DecideVerdict, Zenon
    <2>3. card[d].content = item[i].content
      BY <1>0, <2>1, <2>2 DEF CardInv
    <2> HIDE DEF i
    <2>4. ASSUME NEW j \in Item, item'[j].status \in {"REVIEWED", "VERIFIED"}
          PROVE  /\ review'[j].decision = "approve"
                 /\ review'[j].version = item'[j].version
                 /\ review'[j].seen = item'[j].content
                 /\ review'[j].evidence = item'[j].evidence
                 /\ Supported(item'[j].content, item'[j].evidence, review'[j].sourceIds)
                 /\ item'[j].status = "VERIFIED" <=> item'[j].evidence >= 3
      <3>1. CASE j = i
        BY <2>1, <2>2, <2>3, <2>4, <3>1
      <3>2. CASE j # i
        <4>1. item'[j] = item[j] /\ review'[j] = review[j]
          BY <2>1, <3>2
        <4>. QED
          BY <1>0, <2>4, <4>1 DEF VerdictIsAboutTheText
      <3>. QED
        BY <3>1, <3>2
    <2>. QED
      BY <2>4 DEF VerdictIsAboutTheText
  <1>7. ASSUME NEW d \in Desk, Release(d) PROVE VerdictIsAboutTheText'
    <2> DEFINE i == card[d].item
    <2>1. /\ i \in Item
          /\ \A j \in Item \ {i} : item'[j] = item[j]
          /\ item'[i].status = item[i].status /\ item'[i].evidence = item[i].evidence
          /\ item'[i].version = item[i].version /\ item'[i].content = item[i].content
          /\ review' = review
      BY <1>0, <1>7, ReleaseEffect
    <2>. QED
      BY <1>k, <2>1
  <1>8. CASE UNCHANGED vars
    BY <1>0, <1>8 DEF vars, VerdictIsAboutTheText
  <1>. QED
    BY <1>1, <1>2, <1>3, <1>4, <1>5, <1>6, <1>7, <1>8 DEF Next

\* A release ends with the next change of anything it was based on.
LEMMA ReleaseStep == IInv /\ [Next]_vars => ReleaseInv'
  <1> SUFFICES ASSUME IInv, [Next]_vars PROVE ReleaseInv'
    OBVIOUS
  <1>0. TypeOK /\ ReleaseInv /\ CardInv
    BY DEF IInv
  \* Steps that suspend the release of the one contribution they change, and
  \* leave the others and their flags, reviews and releases alone.
  <1>k. ASSUME NEW i \in Item, item'[i].exportApproved = FALSE,
               \A j \in Item \ {i} : /\ item'[j] = item[j] /\ review'[j] = review[j]
                                     /\ export'[j] = export[j]
                                     /\ OpenFlags(j)' = OpenFlags(j)
        PROVE  ReleaseInv'
    BY <1>0, <1>k DEF ReleaseInv, Releasable
  \* Closing the flags of one contribution leaves the others' alone.
  <1>c. ASSUME NEW i \in Item, NEW s, s # "OPEN", flag' = Closed(i, s), NEW j \in Item \ {i}
        PROVE  OpenFlags(j)' = OpenFlags(j)
    BY <1>0, <1>c, ClosedFlag DEF OpenFlags
  <1>1. ASSUME NEW i \in Item, NEW u \in User, NEW c \in Form, Add(i, u, c) PROVE ReleaseInv'
    <2>1. /\ \A j \in Item \ {i} : item'[j] = item[j]
          /\ item'[i].exportApproved = FALSE
          /\ flag' = flag /\ review' = review /\ export' = export
      BY <1>0, <1>1, AddEffect, Zenon
    <2>. QED
      BY <1>k, <2>1 DEF OpenFlags
  <1>2. ASSUME NEW i \in Item, NEW u \in User, NEW c \in Form, Update(i, u, c)
        PROVE  ReleaseInv'
    <2>1. /\ \A j \in Item \ {i} : item'[j] = item[j]
          /\ item'[i].exportApproved = FALSE
          /\ flag' = Closed(i, "SUPERSEDED") /\ review' = review /\ export' = export
      BY <1>0, <1>2, UpdateEffect, Zenon
    <2>2. \A j \in Item \ {i} : OpenFlags(j)' = OpenFlags(j)
      BY <1>c, <2>1
    <2>. QED
      BY <1>k, <2>1, <2>2
  <1>3. ASSUME NEW i \in Item, NEW u \in User, Withdraw(i, u) PROVE ReleaseInv'
    <2>1. /\ \A j \in Item \ {i} : item'[j] = item[j]
          /\ item'[i].exportApproved = FALSE
          /\ flag' = flag /\ review' = review /\ export' = export
      BY <1>0, <1>3, WithdrawEffect, Zenon
    <2>. QED
      BY <1>k, <2>1 DEF OpenFlags
  <1>4. ASSUME NEW i \in Item, NEW u \in User, NEW f \in Flag, Raise(f, i, u)
        PROVE  ReleaseInv'
    <2>1. /\ \A j \in Item \ {i} : item'[j] = item[j]
          /\ item'[i].exportApproved = FALSE
          /\ review' = review /\ export' = export
      BY <1>0, <1>4, RaiseEffect, Zenon
    <2>2. \A j \in Item \ {i} : OpenFlags(j)' = OpenFlags(j)
      BY <1>0, <1>4, RaiseFlag DEF OpenFlags
    <2>. QED
      BY <1>k, <2>1, <2>2
  <1>5. ASSUME NEW i \in Item, NEW d \in Desk, Load(d, i) PROVE ReleaseInv'
    BY <1>0, <1>5 DEF Load, ReleaseInv, Releasable, OpenFlags
  <1>6. ASSUME NEW d \in Desk, NEW decision \in Decision, NEW e \in Level,
               NEW sourceIds \in SUBSET DOMAIN card[d].content.sources,
               Decide(d, decision, e, sourceIds)
        PROVE  ReleaseInv'
    <2> DEFINE i == card[d].item
    <2>1. /\ i \in Item
          /\ \A j \in Item \ {i} : item'[j] = item[j] /\ review'[j] = review[j]
          /\ item'[i].exportApproved = FALSE
          /\ flag' = Closed(i, "REVIEWED") /\ export' = export
      BY <1>0, <1>6, DecideEffect, Zenon
    <2>2. \A j \in Item \ {i} : OpenFlags(j)' = OpenFlags(j)
      BY <1>c, <2>1
    <2>. QED
      BY <1>k, <2>1, <2>2
  <1>7. ASSUME NEW d \in Desk, Release(d) PROVE ReleaseInv'
    <2> DEFINE i == card[d].item
    <2>1. /\ i \in Item /\ card[d].shown /\ card[d].version = item[i].version
          /\ Releasable(i)
          /\ \A j \in Item \ {i} : item'[j] = item[j] /\ export'[j] = export[j]
          /\ item'[i].status = item[i].status
          /\ item'[i].version = item[i].version /\ item'[i].content = item[i].content
          /\ export'[i] = [version |-> item[i].version, afterReview |-> review[i].n,
                           seen |-> card[d].content]
          /\ flag' = flag /\ review' = review
      BY <1>0, <1>7, ReleaseEffect, Zenon
    <2>2. card[d].content = item[i].content
      BY <1>0, <2>1 DEF CardInv
    <2>3. \A j \in Item : OpenFlags(j)' = OpenFlags(j)
      BY <2>1 DEF OpenFlags
    <2> HIDE DEF i
    <2>. QED
      BY <1>0, <2>1, <2>2, <2>3 DEF ReleaseInv, Releasable
  <1>8. CASE UNCHANGED vars
    BY <1>0, <1>8 DEF vars, ReleaseInv, Releasable, OpenFlags
  <1>. QED
    BY <1>1, <1>2, <1>3, <1>4, <1>5, <1>6, <1>7, <1>8 DEF Next

\* A flag leaves OPEN by an edit, which makes its contribution pending, or by a
\* review, which is younger than the flag.
LEMMA FlagStep == IInv /\ [Next]_vars => FlagInv'
  <1> SUFFICES ASSUME IInv, [Next]_vars PROVE FlagInv'
    OBVIOUS
  <1>0. TypeOK /\ FlagInv
    BY DEF IInv
  <1>t. \A f \in Flag : flag[f].item \in Item /\ flag[f].raisedAfter \in Nat
    BY <1>0 DEF TypeOK, FlagRecord
  <1>r. \A i \in Item : review[i].n \in Nat
    BY <1>0 DEF TypeOK, Review
  \* Steps that touch no flag and no review, and turn nothing into reviewed.
  <1>k. ASSUME flag' = flag, review' = review,
               \A j \in Item : item'[j].status \in {"REVIEWED", "VERIFIED"}
                                => item'[j].status = item[j].status
        PROVE  FlagInv'
    BY <1>0, <1>t, <1>k DEF FlagInv
  <1>1. ASSUME NEW i \in Item, NEW u \in User, NEW c \in Form, Add(i, u, c) PROVE FlagInv'
    <2>1. /\ \A j \in Item \ {i} : item'[j] = item[j]
          /\ item'[i].status = "PENDING"
          /\ flag' = flag /\ review' = review
      BY <1>0, <1>1, AddEffect, Zenon
    <2>. QED
      BY <1>k, <2>1
  <1>2. ASSUME NEW i \in Item, NEW u \in User, NEW c \in Form, Update(i, u, c) PROVE FlagInv'
    <2>1. /\ \A j \in Item \ {i} : item'[j] = item[j]
          /\ item'[i].status = "PENDING"
          /\ flag' = Closed(i, "SUPERSEDED") /\ review' = review
      BY <1>0, <1>2, UpdateEffect, Zenon
    <2>2. ASSUME NEW f \in Flag, flag'[f].status # "ABSENT"
          PROVE  /\ flag'[f].item = flag[f].item /\ flag'[f].raisedAfter = flag[f].raisedAfter
                 /\ flag[f].status # "ABSENT"
                 /\ flag'[f].status # "OPEN" => flag[f].item = i \/ flag[f].status # "OPEN"
      BY <1>0, <2>1, <2>2, ClosedFlag DEF OpenFlags
    <2>. QED
      BY <1>0, <1>t, <2>1, <2>2 DEF FlagInv
  <1>3. ASSUME NEW i \in Item, NEW u \in User, Withdraw(i, u) PROVE FlagInv'
    <2>1. /\ \A j \in Item \ {i} : item'[j] = item[j]
          /\ item'[i].status = "WITHDRAWN"
          /\ flag' = flag /\ review' = review
      BY <1>0, <1>3, WithdrawEffect, Zenon
    <2>. QED
      BY <1>k, <2>1
  <1>4. ASSUME NEW i \in Item, NEW u \in User, NEW f \in Flag, Raise(f, i, u) PROVE FlagInv'
    <2>1. /\ \A j \in Item \ {i} : item'[j] = item[j]
          /\ item'[i].status = item[i].status
          /\ review' = review
      BY <1>0, <1>4, RaiseEffect, Zenon
    <2>2. /\ \A g \in Flag \ {f} : flag'[g] = flag[g]
          /\ flag'[f].item = i /\ flag'[f].status = "OPEN"
          /\ flag'[f].raisedAfter = review[i].n
      BY <1>0, <1>4, RaiseFlag
    <2>. QED
      BY <1>0, <1>t, <1>r, <2>1, <2>2 DEF FlagInv
  <1>5. ASSUME NEW i \in Item, NEW d \in Desk, Load(d, i) PROVE FlagInv'
    BY <1>k, <1>5 DEF Load
  <1>6. ASSUME NEW d \in Desk, NEW decision \in Decision, NEW e \in Level,
               NEW sourceIds \in SUBSET DOMAIN card[d].content.sources,
               Decide(d, decision, e, sourceIds)
        PROVE  FlagInv'
    <2> DEFINE i == card[d].item
    <2>1. /\ i \in Item
          /\ \A j \in Item \ {i} : item'[j] = item[j] /\ review'[j] = review[j]
          /\ review'[i].n = review[i].n + 1
          /\ flag' = Closed(i, "REVIEWED")
      BY <1>0, <1>6, DecideEffect, Zenon
    <2>2. ASSUME NEW f \in Flag, flag'[f].status # "ABSENT"
          PROVE  /\ flag'[f].item = flag[f].item /\ flag'[f].raisedAfter = flag[f].raisedAfter
                 /\ flag[f].status # "ABSENT"
                 /\ flag'[f].status # "OPEN" => flag[f].item = i \/ flag[f].status # "OPEN"
      BY <1>0, <2>1, <2>2, ClosedFlag DEF OpenFlags
    <2> HIDE DEF i
    <2>. QED
      BY <1>0, <1>t, <1>r, <2>1, <2>2 DEF FlagInv
  <1>7. ASSUME NEW d \in Desk, Release(d) PROVE FlagInv'
    <2> DEFINE i == card[d].item
    <2>1. /\ \A j \in Item \ {i} : item'[j] = item[j]
          /\ item'[i].status = item[i].status
          /\ flag' = flag /\ review' = review
      BY <1>0, <1>7, ReleaseEffect, Zenon
    <2>2. \A j \in Item : item'[j].status = item[j].status
      BY <2>1
    <2>. QED
      BY <1>k, <2>1, <2>2
  <1>8. CASE UNCHANGED vars
    BY <1>k, <1>8 DEF vars
  <1>. QED
    BY <1>1, <1>2, <1>3, <1>4, <1>5, <1>6, <1>7, <1>8 DEF Next

LEMMA Inductive == Spec => []IInv
  <1>1. IInv /\ [Next]_vars => IInv'
    BY TypeStep, CardStep, VerdictStep, ReleaseStep, FlagStep DEF IInv
  <1>. QED
    BY <1>1, InitIInv, PTL DEF Spec

-----------------------------------------------------------------------------

\* The operations of domain.mjs keep contributions, flags and the logs of
\* reviews and releases well formed.
THEOREM LifecycleIsTyped == Spec => []TypeOK
  <1>1. IInv => TypeOK
    BY DEF IInv
  <1>. QED
    BY <1>1, Inductive, PTL

\* reviewContribution() binds a verdict to the text the reviewer had on the
\* screen, whatever edits, withdrawals and other reviews it races with.
THEOREM VerdictsAreAboutTheText == Spec => []VerdictIsAboutTheText
  <1>1. IInv => VerdictIsAboutTheText
    BY DEF IInv
  <1>. QED
    BY <1>1, Inductive, PTL

\* exportApproved is set only while what approveExport() was told holds.
THEOREM ReleasesAreCurrent == Spec => []ReleaseIsCurrent
  <1>1. IInv => ReleaseIsCurrent
    BY DEF IInv, ReleaseInv, VerdictIsAboutTheText, Releasable, ReleaseIsCurrent
  <1>. QED
    BY <1>1, Inductive, PTL

\* No edit and no flag of the owner takes a correction off a strong claim or a
\* row of the data set: only a later review, and a later release, do.
THEOREM CorrectionsAlwaysReviewed == Spec => []CorrectionsAreReviewed
  <1>1. IInv => CorrectionsAreReviewed
    <2> SUFFICES ASSUME IInv, NEW f \in Flag, flag[f].status # "ABSENT"
                 PROVE  /\ flag[f].item \in StrongClaims
                             => review[flag[f].item].n > flag[f].raisedAfter
                        /\ flag[f].item \in PublicDataset
                             => export[flag[f].item].afterReview > flag[f].raisedAfter
      BY DEF CorrectionsAreReviewed
    <2> DEFINE i == flag[f].item
    <2>1. i \in Item /\ flag[f].raisedAfter \in Nat /\ review[i].n \in Nat
      BY DEF IInv, TypeOK, FlagRecord, Review
    <2>2. flag[f].status # "OPEN" /\ item[i].status \in {"REVIEWED", "VERIFIED"}
            => flag[f].raisedAfter < review[i].n
      BY DEF IInv, FlagInv
    <2>3. i \in StrongClaims \/ i \in PublicDataset
            => item[i].status \in {"REVIEWED", "VERIFIED"} /\ flag[f].status # "OPEN"
      BY DEF StrongClaims, PublicDataset, OpenFlags
    <2>4. i \in PublicDataset => export[i].afterReview = review[i].n
      BY <2>1 DEF PublicDataset, IInv, ReleaseInv
    <2>. QED
      BY <2>1, <2>2, <2>3, <2>4
  <1>. QED
    BY <1>1, Inductive, PTL

\* withdrawContribution() is final: no later operation touches the contribution.
THEOREM WithdrawalsAreFinal == Spec => WithdrawalIsFinal
  <1>1. IInv /\ [Next]_vars =>
          [\A i \in Item : item[i].status = "WITHDRAWN" => item'[i] = item[i]]_vars
    <2> SUFFICES ASSUME IInv, [Next]_vars, NEW i \in Item, item[i].status = "WITHDRAWN"
                 PROVE  item'[i] = item[i]
      OBVIOUS
    <2>0. TypeOK
      BY DEF IInv
    <2>1. ASSUME NEW j \in Item, NEW u \in User, NEW c \in Form, Add(j, u, c)
          PROVE  item'[i] = item[i]
      <3>1. item[j].status = "ABSENT" /\ \A k \in Item \ {j} : item'[k] = item[k]
        BY <2>0, <2>1, AddEffect, Zenon
      <3>. QED
        BY <3>1
    <2>2. ASSUME NEW j \in Item, NEW u \in User, NEW c \in Form, Update(j, u, c)
          PROVE  item'[i] = item[i]
      <3>1. item[j].status # "WITHDRAWN" /\ \A k \in Item \ {j} : item'[k] = item[k]
        BY <2>0, <2>2, UpdateEffect, Zenon
      <3>. QED
        BY <3>1
    <2>3. ASSUME NEW j \in Item, NEW u \in User, Withdraw(j, u) PROVE item'[i] = item[i]
      <3>1. item[i].exportApproved = FALSE
        BY ItemType, <2>0 DEF IInv, ReleaseInv, Releasable
      <3>2. item[i] = Marked(i, "WITHDRAWN", item[i].evidence, FALSE)
        BY <2>0, <3>1 DEF TypeOK, Contribution, Marked
      <3>. QED
        BY <2>0, <2>3, <3>2 DEF Withdraw, TypeOK
    <2>4. ASSUME NEW j \in Item, NEW u \in User, NEW f \in Flag, Raise(f, j, u)
          PROVE  item'[i] = item[i]
      <3>1. Live(j) /\ \A k \in Item \ {j} : item'[k] = item[k]
        BY <2>0, <2>4, RaiseEffect, Zenon
      <3>. QED
        BY <3>1 DEF Live
    <2>5. ASSUME NEW d \in Desk, NEW j \in Item, Load(d, j) PROVE item'[i] = item[i]
      BY <2>5 DEF Load
    <2>6. ASSUME NEW d \in Desk, NEW decision \in Decision, NEW e \in Level,
                 NEW sourceIds \in SUBSET DOMAIN card[d].content.sources,
                 Decide(d, decision, e, sourceIds)
          PROVE  item'[i] = item[i]
      <3> DEFINE j == card[d].item
      <3>1. Live(j) /\ \A k \in Item \ {j} : item'[k] = item[k] /\ review'[k] = review[k]
        BY <2>0, <2>6, DecideEffect, Zenon
      <3>. QED
        BY <3>1 DEF Live
    <2>7. ASSUME NEW d \in Desk, Release(d) PROVE item'[i] = item[i]
      <3> DEFINE j == card[d].item
      <3>1. Live(j) /\ \A k \in Item \ {j} : item'[k] = item[k] /\ export'[k] = export[k]
        BY <2>0, <2>7, ReleaseEffect, Zenon
      <3>. QED
        BY <3>1 DEF Live
    <2>8. CASE UNCHANGED vars
      BY <2>8 DEF vars
    <2>. QED
      BY <2>1, <2>2, <2>3, <2>4, <2>5, <2>6, <2>7, <2>8 DEF Next
  <1>. QED
    BY <1>1, Inductive, PTL DEF Spec, WithdrawalIsFinal

-----------------------------------------------------------------------------
(* The data set *)

\* A contribution exists from its first version on.
AbsentInv == \A i \in Item : item[i].status = "ABSENT" <=> item[i].version = 0

\* The open flags of the other contributions, when those of i are closed or one
\* is raised.
LEMMA FlagsOfOthers ==
  ASSUME TypeOK, NEW i \in Item, NEW j \in Item \ {i},
         \/ flag' = flag
         \/ \E s \in FlagStatus : flag' = Closed(i, s)
         \/ \E f \in Flag, u \in User : Raise(f, i, u)
  PROVE  OpenFlags(j)' = OpenFlags(j)
  <1>1. CASE flag' = flag
    BY <1>1 DEF OpenFlags
  <1>2. ASSUME NEW s \in FlagStatus, flag' = Closed(i, s) PROVE OpenFlags(j)' = OpenFlags(j)
    <2>1. \A f \in Flag : /\ flag'[f].item = flag[f].item
                          /\ flag[f].item # i => flag'[f].status = flag[f].status
      BY <1>2, ClosedFlag DEF OpenFlags
    <2>. QED
      BY <2>1 DEF OpenFlags
  <1>3. ASSUME NEW f \in Flag, NEW u \in User, Raise(f, i, u) PROVE OpenFlags(j)' = OpenFlags(j)
    <2>1. /\ \A g \in Flag \ {f} : flag'[g] = flag[g]
          /\ flag[f].status = "ABSENT" /\ flag'[f].item = i
      BY <1>3 DEF Raise, TypeOK
    <2>. QED
      BY <2>1 DEF OpenFlags
  <1>. QED
    BY <1>1, <1>2, <1>3

\* A step on i leaves the rows of the others, and which of them are in.
LEMMA RowsOfOthers ==
  ASSUME NEW i \in Item,
         \A j \in Item \ {i} : /\ item'[j] = item[j] /\ export'[j] = export[j]
                               /\ OpenFlags(j)' = OpenFlags(j)
  PROVE  /\ Dataset!Others(i,
              [k \in Item |-> [status |-> item[k].status, evidence |-> item[k].evidence,
                               release |-> export[k]]],
              [k \in Item |-> [status |-> item'[k].status, evidence |-> item'[k].evidence,
                               release |-> export'[k]]])
         /\ Dataset!Others(i, [k \in Item |-> item[k].content], [k \in Item |-> item'[k].content])
         /\ item'[i].exportApproved = FALSE => PublicDataset' = PublicDataset \ {i}
         /\ i \in PublicDataset' => PublicDataset' = PublicDataset \union {i}
  <1>1. \A j \in Item \ {i} : j \in PublicDataset' <=> j \in PublicDataset
    BY DEF PublicDataset
  <1>2. PublicDataset \subseteq Item /\ PublicDataset' \subseteq Item
    BY DEF PublicDataset
  <1>3. item'[i].exportApproved = FALSE => i \notin PublicDataset'
    BY DEF PublicDataset
  <1>. QED
    BY <1>1, <1>2, <1>3 DEF Dataset!Others

\* Steps that add or edit the text, and steps that take the row out.
LEMMA WriteRow ==
  ASSUME TypeOK, NEW i \in Item,
         \A j \in Item \ {i} : /\ item'[j] = item[j] /\ export'[j] = export[j]
                               /\ OpenFlags(j)' = OpenFlags(j),
         item'[i].version = item[i].version + 1, item'[i].exportApproved = FALSE
  PROVE  Dataset!Write(i)
  <1>1. [k \in Item |-> item'[k].version]
          = [[k \in Item |-> item[k].version] EXCEPT ![i] = item[i].version + 1]
    OBVIOUS
  <1>. QED
    BY <1>1, RowsOfOthers DEF Dataset!Write

LEMMA RowOut ==
  ASSUME TypeOK, NEW i \in Item,
         \A j \in Item \ {i} : /\ item'[j] = item[j] /\ export'[j] = export[j]
                               /\ OpenFlags(j)' = OpenFlags(j),
         item'[i].version = item[i].version, item'[i].content = item[i].content,
         item'[i].exportApproved = FALSE
  PROVE  Dataset!TakeOut(i)
  <1>1. /\ [k \in Item |-> item'[k].version] = [k \in Item |-> item[k].version]
        /\ [k \in Item |-> item'[k].content] = [k \in Item |-> item[k].content]
    OBVIOUS
  <1>. QED
    BY <1>1, RowsOfOthers DEF Dataset!TakeOut

\* approveExport() is the one way in.
LEMMA RowIn ==
  ASSUME TypeOK, AbsentInv, NEW d \in Desk, NEW i \in Item, i = card[d].item, Release(d)
  PROVE  Dataset!ListAgain(i)
  <1>1. /\ Live(i) /\ Releasable(i)
        /\ \A j \in Item \ {i} : item'[j] = item[j] /\ export'[j] = export[j]
        /\ item'[i].status = item[i].status /\ item'[i].evidence = item[i].evidence
        /\ item'[i].version = item[i].version /\ item'[i].content = item[i].content
        /\ flag' = flag
    BY ReleaseEffect
  <1>2. item'[i].exportApproved = TRUE
    BY DEF Release, TypeOK, Marked
  <1>3. \A j \in Item : OpenFlags(j)' = OpenFlags(j)
    BY <1>1 DEF OpenFlags
  <1>4. i \in PublicDataset'
    BY <1>1, <1>2, <1>3 DEF PublicDataset, Releasable
  <1>5. item[i].version > 0
    BY <1>1, ItemType DEF AbsentInv, Live
  <1>6. /\ [k \in Item |-> item'[k].version] = [k \in Item |-> item[k].version]
        /\ [k \in Item |-> item'[k].content] = [k \in Item |-> item[k].content]
    BY <1>1
  <1>. QED
    BY <1>1, <1>3, <1>4, <1>5, <1>6, RowsOfOthers DEF Dataset!ListAgain

\* Every step, seen from the data set.
LEMMA DatasetStep ==
  ASSUME TypeOK, AbsentInv, [Next]_vars
  PROVE  AbsentInv' /\ [Dataset!DatasetNext]_(Dataset!datasetVars)
  <1>v. \A i \in Item : item[i].version \in Nat
    BY ItemType
  \* A step on i alone that does not make it new and brings nothing in.
  <1>k. ASSUME NEW i \in Item,
               \A j \in Item \ {i} : /\ item'[j] = item[j] /\ export'[j] = export[j]
                                     /\ OpenFlags(j)' = OpenFlags(j),
               item'[i].status # "ABSENT", item'[i].exportApproved = FALSE,
               \/ /\ item'[i].version = item[i].version /\ item'[i].content = item[i].content
                  /\ item[i].status # "ABSENT"
               \/ item'[i].version = item[i].version + 1
        PROVE  AbsentInv' /\ Dataset!DatasetNext
    <2>1. AbsentInv'
      BY <1>k, <1>v DEF AbsentInv
    <2>2. Dataset!Write(i) \/ Dataset!TakeOut(i)
      BY <1>k, WriteRow, RowOut
    <2>. QED
      BY <2>1, <2>2 DEF Dataset!DatasetNext
  <1>1. ASSUME NEW i \in Item, NEW u \in User, NEW c \in Form, Add(i, u, c)
        PROVE  AbsentInv' /\ Dataset!DatasetNext
    <2>1. /\ \A j \in Item \ {i} : item'[j] = item[j]
          /\ item'[i].status = "PENDING" /\ item'[i].exportApproved = FALSE
          /\ item[i].status = "ABSENT" /\ flag' = flag /\ export' = export
      BY <1>1, AddEffect, Zenon
    <2>2. item'[i].version = item[i].version + 1
      BY <1>1, <2>1 DEF Add, AbsentInv, TypeOK
    <2>. QED
      BY <1>k, <2>1, <2>2, FlagsOfOthers
  <1>2. ASSUME NEW i \in Item, NEW u \in User, NEW c \in Form, Update(i, u, c)
        PROVE  AbsentInv' /\ Dataset!DatasetNext
    <2>1. /\ \A j \in Item \ {i} : item'[j] = item[j]
          /\ item'[i].status = "PENDING" /\ item'[i].exportApproved = FALSE
          /\ item'[i].version = item[i].version + 1
          /\ flag' = Closed(i, "SUPERSEDED") /\ export' = export
      BY <1>2, UpdateEffect, Zenon
    <2>2. \A j \in Item \ {i} : OpenFlags(j)' = OpenFlags(j)
      BY <2>1, FlagsOfOthers DEF FlagStatus
    <2>. QED
      BY <1>k, <2>1, <2>2
  <1>3. ASSUME NEW i \in Item, NEW u \in User, Withdraw(i, u)
        PROVE  AbsentInv' /\ Dataset!DatasetNext
    <2>1. /\ \A j \in Item \ {i} : item'[j] = item[j]
          /\ item'[i].status = "WITHDRAWN" /\ item'[i].exportApproved = FALSE
          /\ item'[i].version = item[i].version /\ item'[i].content = item[i].content
          /\ flag' = flag /\ export' = export
      BY <1>3, WithdrawEffect, Zenon
    <2>2. item[i].status # "ABSENT"
      BY <1>3 DEF Withdraw
    <2>. QED
      BY <1>k, <2>1, <2>2, FlagsOfOthers
  <1>4. ASSUME NEW i \in Item, NEW u \in User, NEW f \in Flag, Raise(f, i, u)
        PROVE  AbsentInv' /\ Dataset!DatasetNext
    <2>1. /\ \A j \in Item \ {i} : item'[j] = item[j]
          /\ Live(i) /\ item'[i].status = item[i].status /\ item'[i].exportApproved = FALSE
          /\ item'[i].version = item[i].version /\ item'[i].content = item[i].content
          /\ export' = export
      BY <1>4, RaiseEffect, Zenon
    <2>2. \A j \in Item \ {i} : OpenFlags(j)' = OpenFlags(j)
      BY <1>4, FlagsOfOthers
    <2>. QED
      BY <1>k, <2>1, <2>2 DEF Live
  <1>5. ASSUME NEW d \in Desk, NEW decision \in Decision, NEW e \in Level,
               NEW sourceIds \in SUBSET DOMAIN card[d].content.sources,
               Decide(d, decision, e, sourceIds)
        PROVE  AbsentInv' /\ Dataset!DatasetNext
    <2> DEFINE i == card[d].item
    <2>1. /\ i \in Item /\ Live(i)
          /\ \A j \in Item \ {i} : item'[j] = item[j] /\ review'[j] = review[j]
          /\ item'[i].status # "ABSENT" /\ item'[i].exportApproved = FALSE
          /\ item'[i].version = item[i].version /\ item'[i].content = item[i].content
          /\ flag' = Closed(i, "REVIEWED") /\ export' = export
      BY <1>5, DecideEffect, Zenon
    <2> HIDE DEF i
    <2>2. \A j \in Item \ {i} : OpenFlags(j)' = OpenFlags(j)
      BY <2>1, FlagsOfOthers DEF FlagStatus
    <2>. QED
      BY <1>k, <2>1, <2>2 DEF Live
  <1>6. ASSUME NEW d \in Desk, Release(d)
        PROVE  AbsentInv' /\ Dataset!DatasetNext
    <2>1. PICK i \in Item : i = card[d].item
      BY DEF TypeOK, Card
    <2>2. /\ \A j \in Item \ {i} : item'[j] = item[j]
          /\ item'[i].status = item[i].status /\ item'[i].version = item[i].version
      BY <1>6, <2>1, ReleaseEffect
    <2>3. AbsentInv'
      BY <2>1, <2>2 DEF AbsentInv
    <2>4. Dataset!ListAgain(i)
      BY <1>6, <2>1, RowIn
    <2>. QED
      BY <2>1, <2>3, <2>4 DEF Dataset!DatasetNext
  <1>7. CASE UNCHANGED <<item, flag, export>>
    BY <1>7 DEF AbsentInv, Dataset!datasetVars, PublicDataset, OpenFlags
  <1>8. ASSUME NEW d \in Desk, NEW i \in Item, Load(d, i) PROVE UNCHANGED <<item, flag, export>>
    BY <1>8 DEF Load
  <1>. QED
    BY <1>1, <1>2, <1>3, <1>4, <1>5, <1>6, <1>7, <1>8 DEF Next, vars

\* Contributions, flags, reviews and releases, with any number of desks and
\* sessions at once, are a data set as SourceDataset describes it: what Federation
\* takes for the source of its snapshots is what domain.mjs provides.
THEOREM LifecycleIsADataset == Spec => ImplementsDataset
  <1>1. Init => AbsentInv /\ Dataset!DatasetInit
    BY DEF Init, AbsentInv, Dataset!DatasetInit, PublicDataset
  <1>2. TypeOK /\ AbsentInv /\ [Next]_vars
          => AbsentInv' /\ [Dataset!DatasetNext]_(Dataset!datasetVars)
    BY DatasetStep
  <1>. QED
    BY <1>1, <1>2, LifecycleIsTyped, PTL DEF Spec, ImplementsDataset, Dataset!DatasetSpec
=============================================================================
